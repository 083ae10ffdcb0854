---------------------------- MODULE DecimalsProofs ----------------------------
(***************************************************************************)
(* Lemmas that the proofs about the components share: induction over       *)
(* finite sets, sums in any order and any grouping, and the fractions of   *)
(* Decimals with their operations and their order.                         *)
(***************************************************************************)
EXTENDS Decimals, FiniteSetTheorems, WellFoundedInduction, TLAPS

-----------------------------------------------------------------------------
(* Sums over finite sets *)

\* The provers cannot instantiate the library's principles of induction, whose
\* parameters are operators; they can pick the least element of a set.
LEMMA LeastNatural ==
    ASSUME NEW T, T \subseteq Nat, T # {}
    PROVE  \E x \in T : \A y \in T : x <= y
<1> DEFINE R == OpToRel(<, Nat)
<1>1. IsWellFoundedOn(R, Nat)
  BY NatLessThanWellFounded DEF OpToRel
<1>2. \A x, y \in Nat : x < y => <<x, y>> \in R
  BY DEF OpToRel
<1> HIDE DEF R
<1>3. PICK x \in T : \A y \in T : ~ (<<y, x>> \in R)
  BY <1>1, WFMin
<1>4. \A y \in T : ~(y < x)
  BY <1>2, <1>3
<1>5. x \in Nat /\ T \subseteq Nat
  BY <1>3
<1> QED BY <1>3, <1>4, <1>5

\* Of some parts of a finite set one is smallest.
LEMMA SmallestPart ==
    ASSUME NEW S, IsFiniteSet(S), NEW Bad, Bad \subseteq SUBSET S, Bad # {}
    PROVE  \E T \in Bad : \A x \in T : T \ {x} \notin Bad
<1> DEFINE Sizes == {Cardinality(T) : T \in Bad}
<1>1. \A T \in Bad : IsFiniteSet(T) /\ Cardinality(T) \in Nat
  BY FS_Subset, FS_CardinalityType
<1>2. Sizes \subseteq Nat /\ Sizes # {}
  BY <1>1
<1> HIDE DEF Sizes
<1>3. PICK least \in Sizes : \A n \in Sizes : least <= n
  BY <1>2, LeastNatural
<1>4. PICK T \in Bad : least = Cardinality(T)
  BY <1>3 DEF Sizes
<1>5. ASSUME NEW x \in T, T \ {x} \in Bad PROVE FALSE
  <2>1. Cardinality(T \ {x}) = Cardinality(T) - 1 /\ Cardinality(T) \in Nat
    BY <1>1, <1>4, FS_RemoveElement
  <2>2. Cardinality(T \ {x}) \in Sizes
    BY <1>5 DEF Sizes
  <2> QED BY <1>3, <1>4, <2>1, <2>2
<1> QED BY <1>4, <1>5

\* What holds of nothing, and of a set when it holds of it without one of its
\* elements, holds of every finite set.
LEMMA FiniteInduction ==
    ASSUME NEW S, IsFiniteSet(S), NEW Good, {} \in Good,
           \A T \in SUBSET S : \A x \in T : T \ {x} \in Good => T \in Good
    PROVE  S \in Good
<1> DEFINE Bad == (SUBSET S) \ Good
<1>1. SUFFICES ASSUME Bad # {} PROVE FALSE
  OBVIOUS
<1>2. PICK T \in Bad : \A x \in T : T \ {x} \notin Bad
  <2>1. Bad \subseteq SUBSET S
    OBVIOUS
  <2> HIDE DEF Bad
  <2> QED BY <1>1, <2>1, SmallestPart
<1>3. PICK x \in T : TRUE
  OBVIOUS
<1>4. T \ {x} \in Good
  BY <1>2, <1>3
<1> QED BY <1>3, <1>4

\* g adds values of V, in any order and any grouping, and z adds nothing.
Adding(V, g, z) ==
    /\ z \in V /\ g \in [V -> [V -> V]]
    /\ \A a, b \in V : g[a][b] = g[b][a]
    /\ \A a, b, c \in V : g[a][g[b][c]] = g[g[a][b]][c]
    /\ \A a \in V : g[a][z] = a

\* A fold takes an element that CHOOSE gives and goes on with the others.
First(s) == CHOOSE x \in s : TRUE
Folds(it, S, g, z, w) ==
    it = [s \in SUBSET S |-> IF s = {} THEN z ELSE g[w[First(s)]][it[s \ {First(s)}]]]
FoldOf(S, g, z, w) == (CHOOSE it : Folds(it, S, g, z, w))[S]

\* Some function gives the fold of every part of a finite set.
LEMMA FoldsExist ==
    ASSUME NEW S, IsFiniteSet(S), NEW g, NEW z, NEW w
    PROVE  \E it : Folds(it, S, g, z, w)
<1> DEFINE Rule(it, s) == IF s = {} THEN z ELSE g[w[First(s)]][it[s \ {First(s)}]]
           UpTo(it, n) == /\ it = [s \in SUBSET S |-> it[s]]
                          /\ \A s \in SUBSET S : Cardinality(s) <= n => it[s] = Rule(it, s)
           Failing == {n \in Nat : ~ \E it : UpTo(it, n)}
<1>1. \A s \in SUBSET S : IsFiniteSet(s) /\ Cardinality(s) \in Nat
                          /\ Cardinality(s) <= Cardinality(S)
  BY FS_Subset, FS_CardinalityType
<1>2. ASSUME NEW s \in SUBSET S, s # {}
      PROVE  /\ First(s) \in s /\ s \ {First(s)} \in SUBSET S
             /\ Cardinality(s \ {First(s)}) = Cardinality(s) - 1
  <2>1. First(s) \in s
    BY <1>2 DEF First
  <2> QED BY <1>1, <2>1, FS_RemoveElement
<1>3. Failing = {}
  <2> SUFFICES ASSUME Failing # {} PROVE FALSE
    OBVIOUS
  <2>1. PICK n \in Failing : \A m \in Failing : n <= m
    BY LeastNatural
  <2>2. CASE n = 0
    <3> DEFINE it == [s \in SUBSET S |-> z]
    <3>1. ASSUME NEW s \in SUBSET S, Cardinality(s) <= 0
          PROVE  it[s] = Rule(it, s)
      <4>1. s = {}
        BY <1>1, <3>1, FS_EmptySet
      <4> QED BY <4>1
    <3>2. UpTo(it, 0)
      BY <3>1
    <3> QED BY <2>1, <2>2, <3>2
  <2>3. CASE n # 0
    <3>1. n \in Nat /\ n - 1 \in Nat /\ n - 1 \notin Failing
      <4>1. n \in Nat /\ ~ (n <= n - 1)
        BY <2>1
      <4> HIDE DEF Failing
      <4> QED BY <2>1, <2>3, <4>1
    <3>2. PICK before : UpTo(before, n - 1)
      BY <3>1
    <3> DEFINE it == [s \in SUBSET S |-> IF Cardinality(s) <= n - 1 THEN before[s]
                                         ELSE Rule(before, s)]
    <3>3. ASSUME NEW s \in SUBSET S, Cardinality(s) <= n
          PROVE  it[s] = Rule(it, s)
      <4>1. it[s] = Rule(before, s)
        BY <3>2, <1>1
      <4>2. CASE s # {}
        <5>1. /\ s \ {First(s)} \in SUBSET S
              /\ Cardinality(s \ {First(s)}) <= n - 1
          BY <1>1, <1>2, <3>1, <3>3, <4>2
        <5>2. it[s \ {First(s)}] = before[s \ {First(s)}]
          BY <5>1
        <5> QED BY <4>1, <4>2, <5>2
      <4>3. CASE s = {}
        BY <4>1, <4>3
      <4> QED BY <4>2, <4>3
    <3>4. it = [s \in SUBSET S |-> it[s]]
      OBVIOUS
    <3> HIDE DEF it, Rule
    <3>5. UpTo(it, n)
      BY <3>3, <3>4
    <3> QED BY <2>1, <3>5
  <2> QED BY <2>2, <2>3
<1>4. PICK it : UpTo(it, Cardinality(S))
  BY <1>3, <1>1
<1>5. \A s \in SUBSET S : it[s] = Rule(it, s)
  BY <1>1, <1>4
<1>6. it = [s \in SUBSET S |-> Rule(it, s)]
  BY <1>4, <1>5
<1> QED BY <1>6 DEF Folds

\* Folds of the same values are the same, whatever else they are folds of.
LEMMA FoldsAgree ==
    ASSUME NEW S, IsFiniteSet(S), NEW T \in SUBSET S, NEW g, NEW z, NEW v, NEW w, NEW d, NEW e,
           Folds(d, S, g, z, v), Folds(e, T, g, z, w), \A x \in T : v[x] = w[x]
    PROVE  d[T] = e[T]
<1> DEFINE Bad == {s \in SUBSET T : d[s] # e[s]}
<1>1. SUFFICES ASSUME Bad # {} PROVE FALSE
  OBVIOUS
<1>2. IsFiniteSet(T) /\ Bad \subseteq SUBSET T
  BY FS_Subset
<1>3. PICK s \in Bad : \A x \in s : s \ {x} \notin Bad
  <2> HIDE DEF Bad
  <2> QED BY <1>1, <1>2, SmallestPart
<1>4. s \in SUBSET S /\ s \in SUBSET T
  OBVIOUS
<1>5. s # {}
  BY <1>4 DEF Folds
<1>6. First(s) \in s
  BY <1>5 DEF First
<1>7. d[s \ {First(s)}] = e[s \ {First(s)}] /\ v[First(s)] = w[First(s)]
  BY <1>3, <1>4, <1>6
<1>8. /\ d[s] = g[v[First(s)]][d[s \ {First(s)}]]
      /\ e[s] = g[w[First(s)]][e[s \ {First(s)}]]
  BY <1>4, <1>5 DEF Folds
<1> QED BY <1>7, <1>8

\* The fold of a finite set is that of a function that folds all its parts.
LEMMA FoldIsFold ==
    ASSUME NEW S, IsFiniteSet(S), NEW g, NEW z, NEW w
    PROVE  \E d : Folds(d, S, g, z, w) /\ FoldOf(S, g, z, w) = d[S]
<1>1. \E d : Folds(d, S, g, z, w)
  BY FoldsExist
<1>2. Folds(CHOOSE d : Folds(d, S, g, z, w), S, g, z, w)
  BY <1>1
<1> QED BY <1>2 DEF FoldOf

\* A fold of values is a value.
LEMMA FoldsAreValues ==
    ASSUME NEW V, NEW g, NEW z, Adding(V, g, z), NEW S, IsFiniteSet(S), NEW w,
           \A x \in S : w[x] \in V, NEW d, Folds(d, S, g, z, w)
    PROVE  \A T \in SUBSET S : d[T] \in V
<1> DEFINE Bad == {T \in SUBSET S : d[T] \notin V}
<1>1. SUFFICES ASSUME Bad # {} PROVE FALSE
  OBVIOUS
<1>2. PICK T \in Bad : \A x \in T : T \ {x} \notin Bad
  <2>1. Bad \subseteq SUBSET S
    OBVIOUS
  <2> HIDE DEF Bad
  <2> QED BY <1>1, <2>1, SmallestPart
<1>3. T # {}
  BY DEF Folds, Adding
<1>4. First(T) \in T /\ d[T] = g[w[First(T)]][d[T \ {First(T)}]]
  BY <1>3 DEF First, Folds
<1>5. d[T \ {First(T)}] \in V /\ w[First(T)] \in V
  BY <1>2, <1>4
<1>6. \A a, b \in V : g[a][b] \in V
  BY DEF Adding
<1>7. d[T] \in V
  BY <1>4, <1>5, <1>6
<1> QED BY <1>7

\* It does not depend on the order in which elements are taken.
LEMMA FoldsTake ==
    ASSUME NEW V, NEW g, NEW z, Adding(V, g, z), NEW S, IsFiniteSet(S), NEW w,
           \A x \in S : w[x] \in V, NEW d, Folds(d, S, g, z, w)
    PROVE  \A T \in SUBSET S : \A x \in T : d[T] = g[w[x]][d[T \ {x}]]
<1> DEFINE Fine(T) == \A x \in T : d[T] = g[w[x]][d[T \ {x}]]
           Bad == {T \in SUBSET S : ~Fine(T)}
<1>1. SUFFICES ASSUME Bad # {} PROVE FALSE
  OBVIOUS
<1>2. PICK T \in Bad : \A x \in T : T \ {x} \notin Bad
  <2>1. Bad \subseteq SUBSET S
    OBVIOUS
  <2> HIDE DEF Bad
  <2> QED BY <1>1, <2>1, SmallestPart
<1>3. CASE T = {}
  BY <1>3
<1>4. CASE T # {}
  <2> DEFINE y == First(T)
  <2>1. y \in T /\ T \in SUBSET S /\ d[T] = g[w[y]][d[T \ {y}]]
    BY <1>4 DEF First, Folds
  <2> HIDE DEF y
  <2>2. \A x \in T : Fine(T \ {x}) /\ w[x] \in V
    BY <1>2, <2>1
  <2>3. ASSUME NEW x \in T, x # y
        PROVE  d[T] = g[w[x]][d[T \ {x}]]
    <3> DEFINE U == (T \ {x}) \ {y}
    <3>1. U = (T \ {y}) \ {x} /\ U \in SUBSET S
      BY <2>1
    <3>2. d[T \ {y}] = g[w[x]][d[U]] /\ d[T \ {x}] = g[w[y]][d[U]]
      BY <2>1, <2>2, <2>3, <3>1
    <3>3. d[U] \in V /\ w[x] \in V /\ w[y] \in V
      BY <2>1, <2>2, <3>1, FoldsAreValues
    <3> HIDE DEF U
    <3>4. g[w[y]][g[w[x]][d[U]]] = g[w[x]][g[w[y]][d[U]]]
      <4>1. \A a, b, c \in V : g[a][g[b][c]] = g[g[a][b]][c]
        BY DEF Adding
      <4>2. g[w[y]][w[x]] = g[w[x]][w[y]]
        BY <3>3 DEF Adding
      <4>3. \A a, b, c \in V : g[a][b] = g[b][a] => g[a][g[b][c]] = g[b][g[a][c]]
        BY <4>1
      <4> HIDE DEF Fine
      <4> QED BY ONLY <3>3, <4>2, <4>3
    <3> QED BY <2>1, <3>2, <3>4
  <2> QED BY <2>1, <2>3
<1> QED BY <1>3, <1>4

\* The fold of nothing is z, and one element more adds its value.
LEMMA FoldAdds ==
    ASSUME NEW V, NEW g, NEW z, Adding(V, g, z), NEW S, IsFiniteSet(S), NEW w,
           \A x \in S : w[x] \in V
    PROVE  /\ FoldOf(S, g, z, w) \in V
           /\ S = {} => FoldOf(S, g, z, w) = z
           /\ \A x \in S : FoldOf(S, g, z, w) = g[w[x]][FoldOf(S \ {x}, g, z, w)]
<1>1. PICK d : Folds(d, S, g, z, w) /\ FoldOf(S, g, z, w) = d[S]
  BY FoldIsFold
<1>2. d[S] \in V
  BY <1>1, FoldsAreValues
<1>3. S = {} => d[S] = z
  BY <1>1 DEF Folds
<1>4. ASSUME NEW x \in S PROVE d[S] = g[w[x]][FoldOf(S \ {x}, g, z, w)]
  <2>1. IsFiniteSet(S \ {x}) /\ S \ {x} \in SUBSET S
    BY FS_RemoveElement
  <2>2. PICK e : Folds(e, S \ {x}, g, z, w) /\ FoldOf(S \ {x}, g, z, w) = e[S \ {x}]
    BY <2>1, FoldIsFold
  <2>3. d[S \ {x}] = e[S \ {x}]
    BY <1>1, <2>1, <2>2, FoldsAgree
  <2>4. d[S] = g[w[x]][d[S \ {x}]]
    BY <1>1, FoldsTake
  <2> QED BY <2>2, <2>3, <2>4
<1> QED BY <1>1, <1>2, <1>3, <1>4

\* Only the values of its elements count.
LEMMA FoldDependsOnValues ==
    ASSUME NEW S, IsFiniteSet(S), NEW g, NEW z, NEW v, NEW w, \A x \in S : v[x] = w[x]
    PROVE  FoldOf(S, g, z, v) = FoldOf(S, g, z, w)
<1>1. PICK d : Folds(d, S, g, z, v) /\ FoldOf(S, g, z, v) = d[S]
  BY FoldIsFold
<1>2. PICK e : Folds(e, S, g, z, w) /\ FoldOf(S, g, z, w) = e[S]
  BY FoldIsFold
<1>3. S \in SUBSET S
  OBVIOUS
<1> QED BY <1>1, <1>2, <1>3, FoldsAgree

\* The fold of two sets apart adds their folds.
LEMMA FoldUnion ==
    ASSUME NEW V, NEW g, NEW z, Adding(V, g, z), NEW S, IsFiniteSet(S), NEW w,
           \A x \in S : w[x] \in V,
           NEW A \in SUBSET S, NEW B \in SUBSET S, A \cap B = {}
    PROVE  FoldOf(A \union B, g, z, w) = g[FoldOf(A, g, z, w)][FoldOf(B, g, z, w)]
<1> DEFINE F(T) == FoldOf(T, g, z, w)
           Bad == {T \in SUBSET A : F(T \union B) # g[F(T)][F(B)]}
<1>1. SUFFICES ASSUME Bad # {} PROVE FALSE
  OBVIOUS
<1>2. ASSUME NEW T \in SUBSET S
      PROVE  /\ F(T) \in V /\ (T = {} => F(T) = z)
             /\ \A x \in T : F(T) = g[w[x]][F(T \ {x})]
  <2>1. IsFiniteSet(T) /\ \A x \in T : w[x] \in V
    BY FS_Subset
  <2>2. /\ FoldOf(T, g, z, w) \in V
        /\ T = {} => FoldOf(T, g, z, w) = z
        /\ \A x \in T : FoldOf(T, g, z, w) = g[w[x]][FoldOf(T \ {x}, g, z, w)]
    <3> HIDE DEF Bad, F
    <3> QED BY ONLY Adding(V, g, z), <2>1, FoldAdds
  <2> QED BY <2>2
<1> HIDE DEF F
<1>3. PICK T \in Bad : \A x \in T : T \ {x} \notin Bad
  <2>1. Bad \subseteq SUBSET A /\ IsFiniteSet(A)
    BY FS_Subset
  <2> HIDE DEF Bad
  <2> QED BY <1>1, <2>1, SmallestPart
<1>4. T \in SUBSET A /\ T \union B \in SUBSET S /\ T \in SUBSET S
  OBVIOUS
<1>5. CASE T = {}
  <2>1. F(T \union B) = F(B) /\ F(T) = z /\ F(B) \in V
    BY <1>2, <1>4, <1>5
  <2>2. g[z][F(B)] = F(B)
    BY <2>1 DEF Adding
  <2> QED BY <2>1, <2>2
<1>6. CASE T # {}
  <2>1. PICK x : x \in T
    BY <1>6
  <2> DEFINE U == T \ {x}
  <2>2. U \in SUBSET S /\ (T \union B) \ {x} = U \union B /\ w[x] \in V
    BY <1>4, <2>1
  <2>3. F(U \union B) = g[F(U)][F(B)]
    BY <1>3, <2>1
  <2>4. F(T \union B) = g[w[x]][F(U \union B)] /\ F(T) = g[w[x]][F(U)]
    BY <1>2, <1>4, <2>1, <2>2
  <2>5. F(U) \in V /\ F(B) \in V
    BY <1>2, <2>2
  <2>6. \A a, b, c \in V : g[a][g[b][c]] = g[g[a][b]][c]
    BY DEF Adding
  <2>7. g[w[x]][g[F(U)][F(B)]] = g[g[w[x]][F(U)]][F(B)]
    BY <2>2, <2>5, <2>6
  <2>8. F(T \union B) = g[F(T)][F(B)]
    BY <2>3, <2>4, <2>7
  <2> QED BY <2>8
<1> QED BY <1>5, <1>6

\* What is folded in buckets, each value in that of its key, is folded whole.
LEMMA FoldBuckets ==
    ASSUME NEW V, NEW g, NEW z, Adding(V, g, z),
           NEW B, IsFiniteSet(B), NEW v, \A x \in B : v[x] \in V,
           NEW A, IsFiniteSet(A), NEW key, \A x \in B : key[x] \in A,
           NEW bucket, \A a \in A : bucket[a] = {x \in B : key[x] = a},
           NEW w, \A a \in A : w[a] = FoldOf(bucket[a], g, z, v)
    PROVE  FoldOf(A, g, z, w) = FoldOf(B, g, z, v)
<1> DEFINE Part(T) == {x \in B : key[x] \in T}
           Bucket(a) == {x \in B : key[x] = a}
           Bad == {T \in SUBSET A : FoldOf(T, g, z, w) # FoldOf(Part(T), g, z, v)}
<1>1. SUFFICES ASSUME Bad # {} PROVE FALSE
  <2>1. Part(A) = B
    OBVIOUS
  <2> HIDE DEF Part
  <2> QED BY <2>1
<1>2. PICK T \in Bad : \A x \in T : T \ {x} \notin Bad
  <2>1. Bad \subseteq SUBSET A
    OBVIOUS
  <2> HIDE DEF Bad
  <2> QED BY <1>1, <2>1, SmallestPart
<1>3. IsFiniteSet(T) /\ T \in SUBSET A
  BY FS_Subset
<1>4. ASSUME NEW a \in A PROVE w[a] \in V
  <2>1. IsFiniteSet(Bucket(a)) /\ \A x \in Bucket(a) : v[x] \in V
    BY FS_Subset
  <2>2. w[a] = FoldOf(Bucket(a), g, z, v)
    OBVIOUS
  <2> HIDE DEF Bucket
  <2>3. FoldOf(Bucket(a), g, z, v) \in V
    BY <2>1, FoldAdds
  <2> QED BY <2>2, <2>3
<1>5. CASE T = {}
  <2>1. Part(T) = {}
    BY <1>5
  <2>2. FoldOf({}, g, z, w) = z /\ FoldOf({}, g, z, v) = z
    BY FoldAdds, FS_EmptySet
  <2> QED BY <1>5, <2>1, <2>2
<1>6. CASE T # {}
  <2>1. PICK a : a \in T
    BY <1>6
  <2> DEFINE U == T \ {a}
  <2>2. FoldOf(T, g, z, w) = g[w[a]][FoldOf(U, g, z, w)]
    <3>1. \A x \in T : w[x] \in V
      BY <1>3, <1>4
    <3> QED BY ONLY Adding(V, g, z), <1>3, <2>1, <3>1, FoldAdds
  <2>3. FoldOf(U, g, z, w) = FoldOf(Part(U), g, z, v)
    BY <1>2, <2>1
  <2>4. w[a] = FoldOf(Bucket(a), g, z, v)
    BY <1>3, <2>1
  <2>5. /\ Bucket(a) \in SUBSET B /\ Part(U) \in SUBSET B
        /\ Bucket(a) \cap Part(U) = {} /\ Part(T) = Bucket(a) \union Part(U)
    BY <2>1
  <2> HIDE DEF Bucket, Part, U
  <2>6. FoldOf(Part(T), g, z, v) = g[FoldOf(Bucket(a), g, z, v)][FoldOf(Part(U), g, z, v)]
    BY <2>5, FoldUnion
  <2>7. FoldOf(T, g, z, w) = FoldOf(Part(T), g, z, v)
    BY <2>2, <2>3, <2>4, <2>6
  <2> QED BY <1>2, <2>7
<1> QED BY <1>5, <1>6
\* FoldSet adds the element that CHOOSE gives to the sum of the others.
Sums(it, S, w) ==
    it = [s \in SUBSET S |-> IF s = {} THEN 0 ELSE it[s \ {First(s)}] + w[First(s)]]

\* Some function gives the sum of every part of a finite set.
LEMMA SumsExist ==
    ASSUME NEW S, IsFiniteSet(S), NEW w
    PROVE  \E it : Sums(it, S, w)
<1> DEFINE Rule(it, s) == IF s = {} THEN 0 ELSE it[s \ {First(s)}] + w[First(s)]
           UpTo(it, n) == /\ it = [s \in SUBSET S |-> it[s]]
                          /\ \A s \in SUBSET S : Cardinality(s) <= n => it[s] = Rule(it, s)
           Failing == {n \in Nat : ~ \E it : UpTo(it, n)}
<1>1. \A s \in SUBSET S : IsFiniteSet(s) /\ Cardinality(s) \in Nat
                          /\ Cardinality(s) <= Cardinality(S)
  BY FS_Subset, FS_CardinalityType
<1>2. ASSUME NEW s \in SUBSET S, s # {}
      PROVE  /\ First(s) \in s /\ s \ {First(s)} \in SUBSET S
             /\ Cardinality(s \ {First(s)}) = Cardinality(s) - 1
  <2>1. First(s) \in s
    BY <1>2 DEF First
  <2> QED BY <1>1, <2>1, FS_RemoveElement
<1>3. Failing = {}
  <2> SUFFICES ASSUME Failing # {} PROVE FALSE
    OBVIOUS
  <2>1. PICK n \in Failing : \A m \in Failing : n <= m
    BY LeastNatural
  <2>2. CASE n = 0
    <3> DEFINE it == [s \in SUBSET S |-> 0]
    <3>1. ASSUME NEW s \in SUBSET S, Cardinality(s) <= 0
          PROVE  it[s] = Rule(it, s)
      <4>1. s = {}
        BY <1>1, <3>1, FS_EmptySet
      <4> QED BY <4>1
    <3>2. UpTo(it, 0)
      BY <3>1
    <3> QED BY <2>1, <2>2, <3>2
  <2>3. CASE n # 0
    <3>1. n \in Nat /\ n - 1 \in Nat /\ n - 1 \notin Failing
      <4>1. n \in Nat /\ ~ (n <= n - 1)
        BY <2>1
      <4> HIDE DEF Failing
      <4> QED BY <2>1, <2>3, <4>1
    <3>2. PICK before : UpTo(before, n - 1)
      BY <3>1
    <3> DEFINE it == [s \in SUBSET S |-> IF Cardinality(s) <= n - 1 THEN before[s]
                                         ELSE Rule(before, s)]
    <3>3. ASSUME NEW s \in SUBSET S, Cardinality(s) <= n
          PROVE  it[s] = Rule(it, s)
      <4>1. it[s] = Rule(before, s)
        BY <3>2, <1>1
      <4>2. CASE s # {}
        <5>1. /\ s \ {First(s)} \in SUBSET S
              /\ Cardinality(s \ {First(s)}) <= n - 1
          BY <1>1, <1>2, <3>1, <3>3, <4>2
        <5>2. it[s \ {First(s)}] = before[s \ {First(s)}]
          BY <5>1
        <5> QED BY <4>1, <4>2, <5>2
      <4>3. CASE s = {}
        BY <4>1, <4>3
      <4> QED BY <4>2, <4>3
    <3>4. it = [s \in SUBSET S |-> it[s]]
      OBVIOUS
    <3> HIDE DEF it, Rule
    <3>5. UpTo(it, n)
      BY <3>3, <3>4
    <3> QED BY <2>1, <3>5
  <2> QED BY <2>2, <2>3
<1>4. PICK it : UpTo(it, Cardinality(S))
  BY <1>3, <1>1
<1>5. \A s \in SUBSET S : it[s] = Rule(it, s)
  BY <1>1, <1>4
<1>6. it = [s \in SUBSET S |-> Rule(it, s)]
  BY <1>4, <1>5
<1> QED BY <1>6 DEF Sums

-----------------------------------------------------------------------------
(* Exact fractions *)

Positive == Nat \ {0}
Fractions == {Ratio(n, d) : n \in Int, d \in Positive}

\* Division without a remainder is multiplication.
LEMMA Divides ==
    ASSUME NEW a \in Int, NEW b \in Positive
    PROVE  /\ a % b = 0 => a = (a \div b) * b /\ a \div b \in Int
           /\ \A k \in Int : a = k * b => a % b = 0 /\ a \div b = k
<1>1. a = b * (a \div b) + (a % b) /\ a % b \in 0 .. b - 1 /\ a \div b \in Int
  BY DEF Positive
<1>2. a % b = 0 => a = (a \div b) * b
  BY <1>1 DEF Positive
<1>3. ASSUME NEW k \in Int, a = k * b PROVE a % b = 0 /\ a \div b = k
  <2> DEFINE q == a \div b
             r == a % b
             e == k - q
  <2>1. k * b = b * q + r /\ r \in 0 .. b - 1 /\ q \in Int /\ b \in Nat /\ b > 0
    BY <1>1, <1>3 DEF Positive
  <2> HIDE DEF q, r
  <2>2. e \in Int /\ e * b = k * b - q * b
    BY <2>1
  <2>3. e * b = r
    BY <2>1, <2>2
  <2> HIDE DEF e
  <2>4. e = 0
    <3>1. e >= 1 => e * b >= b
      BY <2>1, <2>2
    <3>2. e <= -1 => e * b <= -b
      BY <2>1, <2>2
    <3> QED BY <2>1, <2>2, <2>3, <3>1, <3>2
  <2>5. r = 0 /\ k = q
    BY <2>1, <2>2, <2>3, <2>4 DEF e
  <2> QED BY <2>5 DEF q, r
<1> QED BY <1>1, <1>2, <1>3

\* The denominators that n / d can have.
Denominators(n, d) == {q \in 1 .. d : ((n % d) * q) % d = 0}

\* Such a denominator makes a multiple of n / d whole.
LEMMA DenominatorMakesWhole ==
    ASSUME NEW n \in Int, NEW d \in Positive, NEW q \in Positive
    PROVE  /\ n % d \in Int /\ (n % d) * q \in Int /\ n \div d \in Int
           /\ \A j \in Int : n * q = j * d => ((n % d) * q) % d = 0
           /\ ((n % d) * q) % d = 0 =>
                /\ ((n % d) * q) \div d \in Int
                /\ n * q = ((n \div d) * q + ((n % d) * q) \div d) * d
<1> DEFINE m == n \div d
           r == n % d
<1>1. n = m * d + r /\ m \in Int /\ r \in Int /\ d \in Int /\ q \in Int
  BY DEF Positive
<1> HIDE DEF m, r
<1>2. r * q \in Int /\ m * q \in Int
  BY <1>1
<1>3. n * q = (m * q) * d + r * q
  <2>1. (m * d + r) * q = (m * d) * q + r * q /\ (m * d) * q = (m * q) * d
    BY <1>1
  <2> QED BY <1>1, <2>1
<1>4. ASSUME NEW j \in Int, n * q = j * d PROVE (r * q) % d = 0
  <2>1. j - m * q \in Int /\ (j - m * q) * d = j * d - (m * q) * d
    BY <1>1, <1>2
  <2>2. j * d \in Int /\ (m * q) * d \in Int
    BY <1>1, <1>2
  <2>3. r * q = (j - m * q) * d
    BY <1>2, <1>3, <1>4, <2>1, <2>2
  <2> QED BY <1>2, <2>1, <2>3, Divides
<1>5. ASSUME (r * q) % d = 0
      PROVE  (r * q) \div d \in Int /\ n * q = (m * q + (r * q) \div d) * d
  <2> DEFINE u == (r * q) \div d
  <2>1. u \in Int /\ r * q = u * d
    BY <1>2, <1>5, Divides
  <2> HIDE DEF u
  <2>2. (m * q + u) * d = (m * q) * d + u * d
    BY <1>1, <1>2, <2>1
  <2> QED BY <1>3, <2>1, <2>2 DEF u
<1> QED BY <1>1, <1>2, <1>4, <1>5 DEF m, r

\* The least one is the least of all, and Ratio takes it.
LEMMA RatioIsLeast ==
    ASSUME NEW n \in Int, NEW d \in Positive
    PROVE  \E k \in Int, q \in 1 .. d :
              /\ Ratio(n, d) = <<k, q>> /\ n * q = k * d
              /\ \A j \in Int, p \in Positive : n * p = j * d => q <= p
<1> DEFINE D == Denominators(n, d)
           IsWhole(p) == ((n % d) * p) % d = 0
           q == CHOOSE p \in 1 .. d : IsWhole(p) /\ \A o \in 1 .. p - 1 : ~IsWhole(o)
           k == (n \div d) * q + ((n % d) * q) \div d
<1>1. D \subseteq Nat /\ d \in D
  <2>1. d \in Positive /\ d \in 1 .. d /\ n * d = n * d
    BY DEF Positive
  <2> QED BY <2>1, DenominatorMakesWhole DEF Denominators, Positive
<1>2. q \in 1 .. d /\ IsWhole(q) /\ \A o \in 1 .. q - 1 : ~IsWhole(o)
  <2>1. PICK p \in D : \A r \in D : p <= r
    <3> HIDE DEF D
    <3> QED BY <1>1, LeastNatural
  <2>2. p \in 1 .. d /\ IsWhole(p)
    BY <2>1 DEF Denominators
  <2>3. ASSUME NEW o \in 1 .. p - 1, IsWhole(o) PROVE FALSE
    <3>1. o \in 1 .. d /\ o < p
      BY <2>2 DEF Positive
    <3>2. o \in D
      BY <2>3, <3>1 DEF Denominators
    <3>3. p <= o
      BY <2>1, <3>2
    <3> QED BY <2>2, <3>1, <3>3 DEF Positive
  <2> HIDE DEF IsWhole
  <2> QED BY <2>2, <2>3
<1>3. Ratio(n, d) = <<k, q>>
  BY DEF Ratio
<1>4. q \in Positive
  <2> HIDE DEF q
  <2> QED BY <1>2 DEF Positive
<1>5. n * q = k * d /\ k \in Int
  <2> HIDE DEF q
  <2>1. n * q = k * d /\ ((n % d) * q) \div d \in Int /\ n \div d \in Int
    BY <1>2, <1>4, DenominatorMakesWhole
  <2> QED BY <1>4, <2>1 DEF Positive
<1>6. ASSUME NEW j \in Int, NEW p \in Positive, n * p = j * d PROVE q <= p
  <2> HIDE DEF q
  <2>1. IsWhole(p)
    BY <1>6, DenominatorMakesWhole
  <2> HIDE DEF IsWhole
  <2>2. ~(p \in 1 .. q - 1)
    BY <1>2, <2>1
  <2> QED BY <1>4, <2>2 DEF Positive
<1> HIDE DEF q, k
<1> QED BY <1>2, <1>3, <1>5, <1>6

\* Factors that are not zero cancel.
LEMMA Cancels ==
    ASSUME NEW a \in Int, NEW b \in Int, NEW c \in Positive, a * c = b * c
    PROVE  a = b
<1> DEFINE e == a - b
<1>1. e \in Int /\ e * c = 0 /\ c \in Nat /\ c > 0
  <2>1. (a - b) * c = a * c - b * c
    BY DEF Positive
  <2> QED BY <2>1 DEF Positive
<1>2. e = 0
  <2> HIDE DEF e
  <2>1. e >= 1 => e * c >= c
    BY <1>1
  <2>2. e <= -1 => e * c <= -c
    BY <1>1
  <2> QED BY <1>1, <2>1, <2>2
<1> QED BY <1>2

\* Equal fractions are written alike.
LEMMA RatioIsCanonical ==
    ASSUME NEW n \in Int, NEW d \in Positive, NEW m \in Int, NEW e \in Positive, n * e = m * d
    PROVE  Ratio(n, d) = Ratio(m, e)
<1>1. PICK k \in Int, q \in 1 .. d :
          /\ Ratio(n, d) = <<k, q>> /\ n * q = k * d
          /\ \A j \in Int, p \in Positive : n * p = j * d => q <= p
  BY RatioIsLeast
<1>2. PICK l \in Int, r \in 1 .. e :
          /\ Ratio(m, e) = <<l, r>> /\ m * r = l * e
          /\ \A j \in Int, p \in Positive : m * p = j * e => r <= p
  BY RatioIsLeast
<1>3. q \in Positive /\ r \in Positive /\ q \in Int /\ r \in Int /\ d \in Int /\ e \in Int
  BY DEF Positive
<1>4. n * r = l * d
  <2>1. (n * r) * e = (n * e) * r /\ (m * d) * r = (m * r) * d /\ (l * e) * d = (l * d) * e
    BY <1>3
  <2>2. (n * r) * e = (l * d) * e
    BY <1>2, <2>1
  <2>3. n * r \in Int /\ l * d \in Int
    BY <1>3
  <2> QED BY <2>2, <2>3, Cancels
<1>5. m * q = k * e
  <2>1. (m * q) * d = (m * d) * q /\ (n * e) * q = (n * q) * e /\ (k * d) * e = (k * e) * d
    BY <1>3
  <2>2. (m * q) * d = (k * e) * d
    BY <1>1, <2>1
  <2>3. m * q \in Int /\ k * e \in Int
    BY <1>3
  <2> QED BY <2>2, <2>3, Cancels
<1>6. q = r
  BY <1>1, <1>2, <1>3, <1>4, <1>5
<1>7. k * d = l * d
  BY <1>1, <1>4, <1>6
<1>8. k = l
  BY <1>7, Cancels
<1> QED BY <1>1, <1>2, <1>6, <1>8

\* A fraction in lowest terms is a pair, and is its own lowest terms.
LEMMA FractionIsPair ==
    ASSUME NEW n \in Int, NEW d \in Positive
    PROVE  LET x == Ratio(n, d)
           IN  /\ x = <<x[1], x[2]>> /\ x[1] \in Int /\ x[2] \in Positive
               /\ x[1] * d = n * x[2] /\ Ratio(x[1], x[2]) = x
<1>1. PICK k \in Int, q \in 1 .. d : Ratio(n, d) = <<k, q>> /\ n * q = k * d
  BY RatioIsLeast
<1>2. q \in Positive
  BY DEF Positive
<1>3. Ratio(k, q) = Ratio(n, d)
  BY <1>1, <1>2, RatioIsCanonical
<1> QED BY <1>1, <1>2, <1>3

\* Every operation on fractions is that on any way of writing them.
LEMMA WholeIsRatio ==
    ASSUME NEW n \in Int
    PROVE  Whole(n) = Ratio(n, 1) /\ Whole(n) \in Fractions
<1>1. 1 \in Positive
  BY DEF Positive
<1>2. PICK k \in Int, q \in 1 .. 1 : Ratio(n, 1) = <<k, q>> /\ n * q = k * 1
  BY <1>1, RatioIsLeast
<1>3. q = 1 /\ k = n
  BY <1>2
<1> QED BY <1>1, <1>2, <1>3 DEF Whole, Fractions

\* Addition.
LEMMA PlusIsRatio ==
    ASSUME NEW n \in Int, NEW d \in Positive, NEW m \in Int, NEW e \in Positive
    PROVE  /\ d * e \in Positive /\ n * e + m * d \in Int
           /\ Plus(Ratio(n, d), Ratio(m, e)) = Ratio(n * e + m * d, d * e)
<1> DEFINE x == Ratio(n, d)
           y == Ratio(m, e)
<1>1. /\ x[1] \in Int /\ x[2] \in Positive /\ x[1] * d = n * x[2]
      /\ y[1] \in Int /\ y[2] \in Positive /\ y[1] * e = m * y[2]
  BY FractionIsPair
<1>2. Plus(x, y) = Ratio(x[1] * y[2] + y[1] * x[2], x[2] * y[2])
  BY DEF Plus
<1> HIDE DEF x, y
<1>3. ASSUME NEW p \in Int, NEW q \in Positive, NEW r \in Int, NEW s \in Positive,
             p * d = n * q, r * e = m * s
      PROVE  /\ d * e \in Positive /\ n * e + m * d \in Int
             /\ Ratio(p * s + r * q, q * s) = Ratio(n * e + m * d, d * e)
  <2>1. d \in Int /\ d > 0 /\ e \in Int /\ e > 0 /\ q \in Int /\ q > 0 /\ s \in Int /\ s > 0
    BY DEF Positive
  <2>2. d * e \in Positive /\ q * s \in Positive
    BY <2>1 DEF Positive
  <2>3. (p * s + r * q) * (d * e) = (p * d) * (s * e) + (r * e) * (q * d)
    BY <2>1
  <2>4. (n * e + m * d) * (q * s) = (n * q) * (s * e) + (m * s) * (q * d)
    BY <2>1
  <2>5. (p * s + r * q) * (d * e) = (n * e + m * d) * (q * s)
    BY <1>3, <2>3, <2>4
  <2>6. p * s + r * q \in Int /\ n * e + m * d \in Int
    BY <2>1
  <2> HIDE DEF Fractions
  <2> QED BY <2>2, <2>5, <2>6, RatioIsCanonical
<1>4. /\ d * e \in Positive /\ n * e + m * d \in Int
      /\ Ratio(x[1] * y[2] + y[1] * x[2], x[2] * y[2]) = Ratio(n * e + m * d, d * e)
  BY <1>1, <1>3
<1>5. Plus(x, y) = Ratio(n * e + m * d, d * e)
  BY <1>2, <1>4
<1> QED BY <1>4, <1>5 DEF x, y

\* Subtraction.
LEMMA MinusIsRatio ==
    ASSUME NEW n \in Int, NEW d \in Positive, NEW m \in Int, NEW e \in Positive
    PROVE  /\ d * e \in Positive /\ n * e - m * d \in Int
           /\ Minus(Ratio(n, d), Ratio(m, e)) = Ratio(n * e - m * d, d * e)
<1> DEFINE x == Ratio(n, d)
           y == Ratio(m, e)
<1>1. /\ x[1] \in Int /\ x[2] \in Positive /\ x[1] * d = n * x[2]
      /\ y[1] \in Int /\ y[2] \in Positive /\ y[1] * e = m * y[2]
  BY FractionIsPair
<1>2. Minus(x, y) = Ratio(x[1] * y[2] - y[1] * x[2], x[2] * y[2])
  BY DEF Minus
<1> HIDE DEF x, y
<1>3. ASSUME NEW p \in Int, NEW q \in Positive, NEW r \in Int, NEW s \in Positive,
             p * d = n * q, r * e = m * s
      PROVE  /\ d * e \in Positive /\ n * e - m * d \in Int
             /\ Ratio(p * s - r * q, q * s) = Ratio(n * e - m * d, d * e)
  <2>1. d \in Int /\ d > 0 /\ e \in Int /\ e > 0 /\ q \in Int /\ q > 0 /\ s \in Int /\ s > 0
    BY DEF Positive
  <2>2. d * e \in Positive /\ q * s \in Positive
    BY <2>1 DEF Positive
  <2>3. (p * s - r * q) * (d * e) = (p * d) * (s * e) - (r * e) * (q * d)
    BY <2>1
  <2>4. (n * e - m * d) * (q * s) = (n * q) * (s * e) - (m * s) * (q * d)
    BY <2>1
  <2>5. (p * s - r * q) * (d * e) = (n * e - m * d) * (q * s)
    BY <1>3, <2>3, <2>4
  <2>6. p * s - r * q \in Int /\ n * e - m * d \in Int
    BY <2>1
  <2> QED BY <2>2, <2>5, <2>6, RatioIsCanonical
<1>4. /\ d * e \in Positive /\ n * e - m * d \in Int
      /\ Ratio(x[1] * y[2] - y[1] * x[2], x[2] * y[2]) = Ratio(n * e - m * d, d * e)
  BY <1>1, <1>3
<1>5. Minus(x, y) = Ratio(n * e - m * d, d * e)
  BY <1>2, <1>4
<1> QED BY <1>4, <1>5 DEF x, y

\* Multiplication and division by a number.
LEMMA TimesIsRatio ==
    ASSUME NEW n \in Int, NEW d \in Positive, NEW k \in Int
    PROVE  n * k \in Int /\ Times(Ratio(n, d), k) = Ratio(n * k, d)
<1> DEFINE x == Ratio(n, d)
<1>1. x[1] \in Int /\ x[2] \in Positive /\ x[1] * d = n * x[2]
  BY FractionIsPair
<1>2. Times(x, k) = Ratio(x[1] * k, x[2])
  BY DEF Times
<1> HIDE DEF x
<1>3. ASSUME NEW p \in Int, NEW q \in Positive, p * d = n * q
      PROVE  n * k \in Int /\ Ratio(p * k, q) = Ratio(n * k, d)
  <2>1. d \in Int /\ q \in Int
    BY DEF Positive
  <2>2. (p * k) * d = (p * d) * k /\ (n * k) * q = (n * q) * k
    BY <2>1
  <2>3. (p * k) * d = (n * k) * q /\ p * k \in Int /\ n * k \in Int
    BY <1>3, <2>2
  <2> QED BY <2>3, RatioIsCanonical
<1> QED BY <1>1, <1>2, <1>3 DEF x

\* Dividing by a positive number divides the ratio.
LEMMA OverIsRatio ==
    ASSUME NEW n \in Int, NEW d \in Positive, NEW k \in Positive
    PROVE  d * k \in Positive /\ Over(Ratio(n, d), k) = Ratio(n, d * k)
<1> DEFINE x == Ratio(n, d)
<1>1. x[1] \in Int /\ x[2] \in Positive /\ x[1] * d = n * x[2]
  BY FractionIsPair
<1>2. Over(x, k) = Ratio(x[1], x[2] * k)
  BY DEF Over
<1> HIDE DEF x
<1>3. ASSUME NEW p \in Int, NEW q \in Positive, p * d = n * q
      PROVE  d * k \in Positive /\ Ratio(p, q * k) = Ratio(n, d * k)
  <2>1. d \in Int /\ d > 0 /\ q \in Int /\ q > 0 /\ k \in Int /\ k > 0
    BY DEF Positive
  <2>2. d * k \in Positive /\ q * k \in Positive
    BY <2>1 DEF Positive
  <2>3. p * (d * k) = (p * d) * k /\ n * (q * k) = (n * q) * k
    BY <2>1
  <2>4. p * (d * k) = n * (q * k)
    BY <1>3, <2>3
  <2> QED BY <2>2, <2>4, RatioIsCanonical
<1> QED BY <1>1, <1>2, <1>3 DEF x

\* Fractions are closed under them.
LEMMA RatioIsFraction ==
    ASSUME NEW n \in Int, NEW d \in Positive
    PROVE  Ratio(n, d) \in Fractions
  BY DEF Fractions

\* Sums and differences of fractions are fractions.
LEMMA SumsAreFractions ==
    ASSUME NEW x \in Fractions, NEW y \in Fractions
    PROVE  Plus(x, y) \in Fractions /\ Minus(x, y) \in Fractions
<1>1. PICK a \in Int, b \in Positive : x = Ratio(a, b)
  BY DEF Fractions
<1>2. PICK c \in Int, d \in Positive : y = Ratio(c, d)
  BY DEF Fractions
<1>3. /\ b * d \in Positive /\ a * d + c * b \in Int /\ a * d - c * b \in Int
      /\ Plus(x, y) = Ratio(a * d + c * b, b * d)
      /\ Minus(x, y) = Ratio(a * d - c * b, b * d)
  BY <1>1, <1>2, PlusIsRatio, MinusIsRatio
<1> QED BY <1>3, RatioIsFraction

\* So are multiples and parts.
LEMMA MultiplesAreFractions ==
    ASSUME NEW x \in Fractions
    PROVE  /\ \A n \in Int : Times(x, n) \in Fractions
           /\ \A k \in Positive : Over(x, k) \in Fractions
<1>1. PICK a \in Int, b \in Positive : x = Ratio(a, b)
  BY DEF Fractions
<1>2. ASSUME NEW n \in Int PROVE Times(x, n) \in Fractions
  BY <1>1, TimesIsRatio, RatioIsFraction
<1>3. ASSUME NEW k \in Positive PROVE Over(x, k) \in Fractions
  BY <1>1, OverIsRatio, RatioIsFraction
<1> QED BY <1>2, <1>3

\* They are added in any order and any grouping.
Addition == [x \in Fractions |-> [y \in Fractions |-> Plus(x, y)]]

\* Fractions add up in any order and any grouping: Decimals are exact.
LEMMA FractionsAdd == Adding(Fractions, Addition, Zero)
<1>1. Zero \in Fractions /\ Zero = Ratio(0, 1)
  BY WholeIsRatio DEF Zero
<1>2. Addition \in [Fractions -> [Fractions -> Fractions]]
  BY SumsAreFractions DEF Addition
<1>3. ASSUME NEW x \in Fractions, NEW y \in Fractions PROVE Plus(x, y) = Plus(y, x)
  <2>1. PICK a \in Int, b \in Positive : x = Ratio(a, b)
    BY DEF Fractions
  <2>2. PICK c \in Int, d \in Positive : y = Ratio(c, d)
    BY DEF Fractions
  <2>3. Plus(x, y) = Ratio(a * d + c * b, b * d) /\ Plus(y, x) = Ratio(c * b + a * d, d * b)
    BY <2>1, <2>2, PlusIsRatio
  <2>4. a * d + c * b = c * b + a * d /\ b * d = d * b
    BY DEF Positive
  <2> QED BY <2>3, <2>4
<1>4. ASSUME NEW x \in Fractions, NEW y \in Fractions, NEW t \in Fractions
      PROVE  Plus(x, Plus(y, t)) = Plus(Plus(x, y), t)
  <2>1. PICK a \in Int, b \in Positive : x = Ratio(a, b)
    BY DEF Fractions
  <2>2. PICK c \in Int, d \in Positive : y = Ratio(c, d)
    BY DEF Fractions
  <2>3. PICK e \in Int, f \in Positive : t = Ratio(e, f)
    BY DEF Fractions
  <2>4. Plus(y, t) = Ratio(c * f + e * d, d * f) /\ d * f \in Positive /\ c * f + e * d \in Int
    BY <2>2, <2>3, PlusIsRatio
  <2>5. Plus(x, Plus(y, t)) = Ratio(a * (d * f) + (c * f + e * d) * b, b * (d * f))
    BY <2>1, <2>4, PlusIsRatio
  <2>6. Plus(x, y) = Ratio(a * d + c * b, b * d) /\ b * d \in Positive /\ a * d + c * b \in Int
    BY <2>1, <2>2, PlusIsRatio
  <2>7. Plus(Plus(x, y), t) = Ratio((a * d + c * b) * f + e * (b * d), (b * d) * f)
    BY <2>3, <2>6, PlusIsRatio
  <2>8. /\ a * (d * f) + (c * f + e * d) * b = (a * d + c * b) * f + e * (b * d)
        /\ b * (d * f) = (b * d) * f
    BY DEF Positive
  <2> QED BY <2>5, <2>7, <2>8
<1>5. ASSUME NEW x \in Fractions PROVE Plus(x, Zero) = x
  <2>1. PICK a \in Int, b \in Positive : x = Ratio(a, b)
    BY DEF Fractions
  <2>2. 1 \in Positive /\ 0 \in Int
    BY DEF Positive
  <2>3. Plus(x, Zero) = Ratio(a * 1 + 0 * b, b * 1)
    BY <1>1, <2>1, <2>2, PlusIsRatio
  <2>4. a * 1 + 0 * b = a /\ b * 1 = b
    BY DEF Positive
  <2> QED BY <2>1, <2>3, <2>4
<1>6. \A x, y \in Fractions : Addition[x][y] = Plus(x, y) /\ Plus(x, y) \in Fractions
  BY SumsAreFractions DEF Addition
<1> HIDE DEF Addition, Fractions
<1>7. ASSUME NEW x \in Fractions, NEW y \in Fractions, NEW t \in Fractions
      PROVE  Addition[x][Addition[y][t]] = Addition[Addition[x][y]][t]
  <2>1. Addition[x][Addition[y][t]] = Plus(x, Plus(y, t))
    BY <1>6
  <2>2. Addition[Addition[x][y]][t] = Plus(Plus(x, y), t)
    BY <1>6
  <2> QED BY <1>4, <2>1, <2>2
<1>8. \A x, y \in Fractions : Addition[x][y] = Addition[y][x]
  BY <1>3, <1>6
<1>9. \A x \in Fractions : Addition[x][Zero] = x
  BY <1>1, <1>5, <1>6
<1> QED BY <1>1, <1>2, <1>7, <1>8, <1>9 DEF Adding

-----------------------------------------------------------------------------
(* Sums of integers and of fractions *)

\* Whole numbers and their sum.
IntAddition == [m \in Int |-> [n \in Int |-> m + n]]

\* So do integers.
LEMMA IntegersAdd == Adding(Int, IntAddition, 0)
  BY DEF Adding, IntAddition

\* SumFunctionOnSet is a fold.
LEMMA SumIsFold ==
    ASSUME NEW S, IsFiniteSet(S), NEW w, \A x \in S : w[x] \in Int
    PROVE  SumFunctionOnSet(w, S) = FoldOf(S, IntAddition, 0, w)
<1> DEFINE Rec(it) == it = [s \in SUBSET S |-> IF s = {} THEN 0
                              ELSE w[First(s)] + it[s \ {First(s)}]]
<1>1. SumFunctionOnSet(w, S) = (CHOOSE it : Rec(it))[S]
  BY DEF SumFunctionOnSet, FoldFunctionOnSet, MapThenFoldSet, First
<1>2. ASSUME NEW s \in SUBSET S, s # {}
      PROVE  First(s) \in s /\ s \ {First(s)} \in SUBSET S /\ w[First(s)] \in Int
  BY <1>2 DEF First
<1>3. \A m, n \in Int : IntAddition[m][n] = m + n
  BY DEF IntAddition
<1>4. \E it : Rec(it)
  <2>1. PICK it : Folds(it, S, IntAddition, 0, w)
    BY FoldsExist
  <2>2. \A s \in SUBSET S : it[s] \in Int
    BY <2>1, FoldsAreValues, IntegersAdd
  <2>3. ASSUME NEW s \in SUBSET S, s # {}
        PROVE  IntAddition[w[First(s)]][it[s \ {First(s)}]] = w[First(s)] + it[s \ {First(s)}]
    BY <1>2, <1>3, <2>2, <2>3
  <2>4. Rec(it)
    BY <2>1, <2>3 DEF Folds
  <2> QED BY <2>4
<1>5. PICK d : Rec(d) /\ SumFunctionOnSet(w, S) = d[S]
  BY <1>1, <1>4
<1>6. \A s \in SUBSET S : d[s] \in Int
  <2> DEFINE Bad == {s \in SUBSET S : d[s] \notin Int}
  <2>1. SUFFICES ASSUME Bad # {} PROVE FALSE
    OBVIOUS
  <2>2. PICK s \in Bad : \A x \in s : s \ {x} \notin Bad
    <3>1. Bad \subseteq SUBSET S
      OBVIOUS
    <3> HIDE DEF Bad
    <3> QED BY <2>1, <3>1, SmallestPart
  <2>3. s # {}
    BY <1>5
  <2>4. d[s] = w[First(s)] + d[s \ {First(s)}]
    BY <1>5, <2>3
  <2>5. d[s \ {First(s)}] \in Int /\ w[First(s)] \in Int
    BY <1>2, <2>2, <2>3
  <2> QED BY <2>4, <2>5
<1>7. ASSUME NEW s \in SUBSET S, s # {}
      PROVE  IntAddition[w[First(s)]][d[s \ {First(s)}]] = w[First(s)] + d[s \ {First(s)}]
  BY <1>2, <1>3, <1>6, <1>7
<1>8. Folds(d, S, IntAddition, 0, w)
  BY <1>5, <1>7 DEF Folds
<1>9. PICK e : Folds(e, S, IntAddition, 0, w) /\ FoldOf(S, IntAddition, 0, w) = e[S]
  BY FoldIsFold
<1> QED BY <1>5, <1>8, <1>9, FoldsAgree

\* SumOver is a fold.
LEMMA SumOverIsFold ==
    ASSUME NEW S, IsFiniteSet(S), NEW w, w = [x \in S |-> w[x]], \A x \in S : w[x] \in Fractions
    PROVE  SumOver(w) = FoldOf(S, Addition, Zero, w)
<1> DEFINE Rec(it) == it = [s \in SUBSET S |-> IF s = {} THEN Zero
                              ELSE Plus(w[First(s)], it[s \ {First(s)}])]
<1>1. SumOver(w) = (CHOOSE it : Rec(it))[S]
  <2>1. DOMAIN w = S
    OBVIOUS
  <2> QED BY <2>1 DEF SumOver, FoldFunction, FoldFunctionOnSet, MapThenFoldSet, First
<1>2. ASSUME NEW s \in SUBSET S, s # {}
      PROVE  First(s) \in s /\ s \ {First(s)} \in SUBSET S /\ w[First(s)] \in Fractions
  BY <1>2 DEF First
<1>3. \A x, y \in Fractions : Addition[x][y] = Plus(x, y) /\ Plus(x, y) \in Fractions
  BY SumsAreFractions DEF Addition
<1>10. Zero \in Fractions
  BY FractionsAdd DEF Adding
<1> HIDE DEF Fractions
<1>4. \E it : Rec(it)
  <2>1. PICK it : Folds(it, S, Addition, Zero, w)
    BY FoldsExist
  <2>2. \A s \in SUBSET S : it[s] \in Fractions
    BY <2>1, FoldsAreValues, FractionsAdd
  <2>3. ASSUME NEW s \in SUBSET S, s # {}
        PROVE  Addition[w[First(s)]][it[s \ {First(s)}]] = Plus(w[First(s)], it[s \ {First(s)}])
    BY <1>2, <1>3, <2>2, <2>3
  <2>4. Rec(it)
    BY <2>1, <2>3 DEF Folds
  <2> QED BY <2>4
<1>5. PICK d : Rec(d) /\ SumOver(w) = d[S]
  BY <1>1, <1>4
<1>6. \A s \in SUBSET S : d[s] \in Fractions
  <2> DEFINE Bad == {s \in SUBSET S : d[s] \notin Fractions}
  <2>1. SUFFICES ASSUME Bad # {} PROVE FALSE
    OBVIOUS
  <2>2. PICK s \in Bad : \A x \in s : s \ {x} \notin Bad
    <3>1. Bad \subseteq SUBSET S
      OBVIOUS
    <3> HIDE DEF Bad
    <3> QED BY <2>1, <3>1, SmallestPart
  <2>3. s # {}
    BY <1>10, <1>5
  <2>4. d[s] = Plus(w[First(s)], d[s \ {First(s)}])
    BY <1>5, <2>3
  <2>5. d[s \ {First(s)}] \in Fractions /\ w[First(s)] \in Fractions
    BY <1>2, <2>2, <2>3
  <2> QED BY <1>3, <2>4, <2>5
<1>7. ASSUME NEW s \in SUBSET S, s # {}
      PROVE  Addition[w[First(s)]][d[s \ {First(s)}]] = Plus(w[First(s)], d[s \ {First(s)}])
  BY <1>2, <1>3, <1>6, <1>7
<1>8. Folds(d, S, Addition, Zero, w)
  BY <1>5, <1>7 DEF Folds
<1>9. PICK e : Folds(e, S, Addition, Zero, w) /\ FoldOf(S, Addition, Zero, w) = e[S]
  BY FoldIsFold
<1>11. S \in SUBSET S
  OBVIOUS
<1>12. d[S] = e[S]
  BY ONLY IsFiniteSet(S), <1>8, <1>9, <1>11, FoldsAgree
<1> QED BY <1>5, <1>9, <1>12

\* The fold of what two functions add up to adds their folds.
LEMMA FoldPlus ==
    ASSUME NEW V, NEW g, NEW z, Adding(V, g, z), NEW S, IsFiniteSet(S), NEW u, NEW v, NEW w,
           \A x \in S : u[x] \in V /\ v[x] \in V /\ w[x] = g[u[x]][v[x]]
    PROVE  FoldOf(S, g, z, w) = g[FoldOf(S, g, z, u)][FoldOf(S, g, z, v)]
<1> DEFINE F(T) == FoldOf(T, g, z, w)
           A(T) == FoldOf(T, g, z, u)
           B(T) == FoldOf(T, g, z, v)
           Bad == {T \in SUBSET S : F(T) # g[A(T)][B(T)]}
<1>1. SUFFICES ASSUME Bad # {} PROVE FALSE
  BY DEF Adding
<1>2. /\ z \in V /\ \A a, b \in V : g[a][b] \in V
      /\ \A a, b \in V : g[a][b] = g[b][a]
      /\ \A a, b, c \in V : g[a][g[b][c]] = g[g[a][b]][c]
      /\ \A a \in V : g[a][z] = a
  BY DEF Adding
<1>3. PICK T \in Bad : \A x \in T : T \ {x} \notin Bad
  <2>1. Bad \subseteq SUBSET S
    OBVIOUS
  <2> HIDE DEF Bad
  <2> QED BY <1>1, <2>1, SmallestPart
<1>4. IsFiniteSet(T) /\ \A x \in T : u[x] \in V /\ v[x] \in V /\ w[x] = g[u[x]][v[x]]
  BY FS_Subset
<1>5. \A x \in T : w[x] \in V
  BY <1>2, <1>4
<1> HIDE DEF Bad
<1>6. /\ F(T) \in V /\ (T = {} => F(T) = z) /\ \A x \in T : F(T) = g[w[x]][F(T \ {x})]
      /\ A(T) \in V /\ (T = {} => A(T) = z) /\ \A x \in T : A(T) = g[u[x]][A(T \ {x})]
      /\ B(T) \in V /\ (T = {} => B(T) = z) /\ \A x \in T : B(T) = g[v[x]][B(T \ {x})]
  <2>6. IsFiniteSet(T)
    BY <1>4
  <2>1. \A x \in T : u[x] \in V
    BY <1>4
  <2>2. \A x \in T : v[x] \in V
    BY <1>4
  <2>3. /\ FoldOf(T, g, z, w) \in V /\ (T = {} => FoldOf(T, g, z, w) = z)
        /\ \A x \in T : FoldOf(T, g, z, w) = g[w[x]][FoldOf(T \ {x}, g, z, w)]
    BY ONLY Adding(V, g, z), <2>6, <1>5, FoldAdds
  <2>4. /\ FoldOf(T, g, z, u) \in V /\ (T = {} => FoldOf(T, g, z, u) = z)
        /\ \A x \in T : FoldOf(T, g, z, u) = g[u[x]][FoldOf(T \ {x}, g, z, u)]
    BY ONLY Adding(V, g, z), <2>6, <2>1, FoldAdds
  <2>5. /\ FoldOf(T, g, z, v) \in V /\ (T = {} => FoldOf(T, g, z, v) = z)
        /\ \A x \in T : FoldOf(T, g, z, v) = g[v[x]][FoldOf(T \ {x}, g, z, v)]
    BY ONLY Adding(V, g, z), <2>6, <2>2, FoldAdds
  <2> QED BY <2>3, <2>4, <2>5
<1>7. CASE T = {}
  BY <1>2, <1>3, <1>6, <1>7 DEF Bad
<1>8. CASE T # {}
  <2>1. PICK x : x \in T
    BY <1>8
  <2> DEFINE U == T \ {x}
  <2>2. IsFiniteSet(U) /\ U \in SUBSET S /\ \A y \in U : u[y] \in V /\ v[y] \in V
    BY <1>3, <1>4, FS_RemoveElement DEF Bad
  <2>3. A(U) \in V /\ B(U) \in V
    <3> HIDE DEF U
    <3> QED BY <2>2, FoldAdds
  <2>4. F(U) = g[A(U)][B(U)]
    BY <1>3, <2>1, <2>2 DEF Bad
  <2>5. /\ F(T) = g[w[x]][F(U)] /\ A(T) = g[u[x]][A(U)] /\ B(T) = g[v[x]][B(U)]
        /\ w[x] = g[u[x]][v[x]] /\ u[x] \in V /\ v[x] \in V
    BY <1>4, <1>6, <2>1
  <2> HIDE DEF U, F, A, B
  <2>6. ASSUME NEW a \in V, NEW b \in V, NEW c \in V, NEW d \in V
        PROVE  g[g[a][b]][g[c][d]] = g[g[a][c]][g[b][d]]
    <3>1. g[c][d] \in V /\ g[b][d] \in V
      BY <1>2
    <3>2. ASSUME NEW e \in V, NEW i \in V, NEW j \in V
          PROVE  g[g[i][j]][e] = g[i][g[j][e]]
      BY <1>2
    <3>4. g[g[a][b]][g[c][d]] = g[a][g[b][g[c][d]]]
      BY ONLY <2>6, <3>1, <3>2
    <3>5. g[g[a][c]][g[b][d]] = g[a][g[c][g[b][d]]]
      BY ONLY <2>6, <3>1, <3>2
    <3>3. g[b][g[c][d]] = g[g[b][c]][d] /\ g[c][g[b][d]] = g[g[c][b]][d] /\ g[b][c] = g[c][b]
      BY <1>2
    <3> QED BY <3>3, <3>4, <3>5
  <2>7. F(T) = g[A(T)][B(T)]
    BY <2>3, <2>4, <2>5, <2>6
  <2> QED BY <1>3, <2>7 DEF Bad, F, A, B
<1> QED BY <1>7, <1>8

\* What respects adding respects folds.
LEMMA FoldMaps ==
    ASSUME NEW V, NEW g, NEW z, Adding(V, g, z), NEW W, NEW h, NEW y, Adding(W, h, y),
           NEW m, m[z] = y, \A a, b \in V : m[a] \in W /\ m[g[a][b]] = h[m[a]][m[b]],
           NEW S, IsFiniteSet(S), NEW v, NEW w, \A x \in S : v[x] \in V /\ w[x] = m[v[x]]
    PROVE  FoldOf(S, h, y, w) = m[FoldOf(S, g, z, v)]
<1> DEFINE F(T) == FoldOf(T, h, y, w)
           A(T) == FoldOf(T, g, z, v)
           Bad == {T \in SUBSET S : F(T) # m[A(T)]}
<1>1. SUFFICES ASSUME Bad # {} PROVE FALSE
  OBVIOUS
<1>3. PICK T \in Bad : \A x \in T : T \ {x} \notin Bad
  <2>1. Bad \subseteq SUBSET S
    OBVIOUS
  <2> HIDE DEF Bad
  <2> QED BY <1>1, <2>1, SmallestPart
<1>4. IsFiniteSet(T) /\ \A x \in T : v[x] \in V /\ w[x] = m[v[x]] /\ w[x] \in W
  BY FS_Subset
<1> HIDE DEF Bad
<1>6. /\ (T = {} => F(T) = y) /\ \A x \in T : F(T) = h[w[x]][F(T \ {x})]
      /\ (T = {} => A(T) = z) /\ \A x \in T : A(T) = g[v[x]][A(T \ {x})]
  <2>6. IsFiniteSet(T)
    BY <1>4
  <2>1. \A x \in T : w[x] \in W
    BY <1>4
  <2>2. \A x \in T : v[x] \in V
    BY <1>4
  <2>3. /\ (T = {} => FoldOf(T, h, y, w) = y)
        /\ \A x \in T : FoldOf(T, h, y, w) = h[w[x]][FoldOf(T \ {x}, h, y, w)]
    BY ONLY Adding(W, h, y), <2>6, <2>1, FoldAdds
  <2>4. /\ (T = {} => FoldOf(T, g, z, v) = z)
        /\ \A x \in T : FoldOf(T, g, z, v) = g[v[x]][FoldOf(T \ {x}, g, z, v)]
    BY ONLY Adding(V, g, z), <2>6, <2>2, FoldAdds
  <2> QED BY <2>3, <2>4
<1>7. CASE T = {}
  BY <1>3, <1>6, <1>7 DEF Bad
<1>8. CASE T # {}
  <2>1. PICK x : x \in T
    BY <1>8
  <2> DEFINE U == T \ {x}
  <2>2. IsFiniteSet(U) /\ U \in SUBSET S /\ \A j \in U : v[j] \in V
    BY <1>3, <1>4, FS_RemoveElement DEF Bad
  <2>3. A(U) \in V
    <3> HIDE DEF U
    <3> QED BY <2>2, FoldAdds
  <2>4. F(U) = m[A(U)]
    BY <1>3, <2>1, <2>2 DEF Bad
  <2>5. F(T) = h[w[x]][F(U)] /\ A(T) = g[v[x]][A(U)] /\ w[x] = m[v[x]] /\ v[x] \in V
    BY <1>4, <1>6, <2>1
  <2> HIDE DEF U, F, A
  <2>7. F(T) = m[A(T)]
    BY <2>3, <2>4, <2>5
  <2> QED BY <1>3, <2>7 DEF Bad, F, A
<1> QED BY <1>7, <1>8

\* Fractions that add up to others.
LEMMA SumsOfFractions ==
    ASSUME NEW S, IsFiniteSet(S), NEW u, NEW v, NEW w,
           \A x \in S : u[x] \in Fractions /\ v[x] \in Fractions /\ w[x] = Plus(u[x], v[x])
    PROVE  FoldOf(S, Addition, Zero, w) = Plus(FoldOf(S, Addition, Zero, u), FoldOf(S, Addition, Zero, v))
<1>1. Adding(Fractions, Addition, Zero)
  BY FractionsAdd
<1>2. \A a, b \in Fractions : Addition[a][b] = Plus(a, b)
  BY DEF Addition
<1>3. \A x \in S : u[x] \in Fractions /\ v[x] \in Fractions /\ w[x] = Addition[u[x]][v[x]]
  BY <1>2
<1>4. FoldOf(S, Addition, Zero, w)
        = Addition[FoldOf(S, Addition, Zero, u)][FoldOf(S, Addition, Zero, v)]
  BY <1>1, <1>3, FoldPlus
<1>5. FoldOf(S, Addition, Zero, u) \in Fractions /\ FoldOf(S, Addition, Zero, v) \in Fractions
  BY <1>1, FoldAdds
<1> QED BY <1>2, <1>4, <1>5

-----------------------------------------------------------------------------
(* The order of fractions *)

\* A fraction is a pair of whole numbers, the second one positive.
LEMMA FractionParts ==
    ASSUME NEW x \in Fractions
    PROVE  /\ x = <<x[1], x[2]>> /\ x[1] \in Int /\ x[2] \in Int /\ x[2] > 0
           /\ Ratio(x[1], x[2]) = x
<1>1. PICK n \in Int, d \in Positive : x = Ratio(n, d)
  BY DEF Fractions
<1>2. /\ x = <<x[1], x[2]>> /\ x[1] \in Int /\ x[2] \in Positive /\ Ratio(x[1], x[2]) = x
  BY <1>1, FractionIsPair
<1> QED BY <1>2 DEF Positive

\* A positive factor on both sides changes no comparison.
LEMMA FactorKeepsOrder ==
    ASSUME NEW a \in Int, NEW b \in Int, NEW c \in Int, c > 0
    PROVE  a <= b <=> a * c <= b * c
<1>1. PICK e \in Int : e = b - a
  OBVIOUS
<1>2. b * c = a * c + e * c /\ a * c \in Int /\ e * c \in Int
  BY <1>1
<1>3. CASE e >= 0
  <2>1. e * c >= 0
    BY <1>3
  <2> QED BY <1>1, <1>2, <1>3, <2>1
<1>4. CASE e < 0
  <2>1. e * c < 0
    <3>1. (-e) * c > 0
      BY <1>4
    <3>2. (-e) * c = -(e * c)
      OBVIOUS
    <3> QED BY <1>2, <3>1, <3>2
  <2> QED BY <1>1, <1>2, <1>4, <2>1
<1> QED BY <1>1, <1>3, <1>4

\* A quotient and its rest.
LEMMA QuotientAndRest ==
    ASSUME NEW n \in Int, NEW d \in Int, d > 0
    PROVE  n \div d \in Int /\ n = d * (n \div d) + (n % d) /\ n % d \in 0 .. d - 1
  OBVIOUS

\* Fractions are ordered by their values.
LEMMA FractionsAreOrdered ==
    /\ \A x, y \in Fractions : AtMost(x, y) \/ AtMost(y, x)
    /\ \A x \in Fractions : AtMost(x, x)
    /\ \A x, y, z \in Fractions : AtMost(x, y) /\ AtMost(y, z) => AtMost(x, z)
<1>1. ASSUME NEW x \in Fractions, NEW y \in Fractions PROVE AtMost(x, y) \/ AtMost(y, x)
  <2>1. x[1] * y[2] \in Int /\ y[1] * x[2] \in Int
    BY FractionParts
  <2> QED BY <2>1 DEF AtMost
<1>2. ASSUME NEW x \in Fractions, NEW y \in Fractions, NEW z \in Fractions,
             AtMost(x, y), AtMost(y, z)
      PROVE  AtMost(x, z)
  <2>1. PICK a \in Int : a = x[1]
    BY FractionParts
  <2>2. PICK b \in Int : b = x[2] /\ b > 0
    BY FractionParts
  <2>3. PICK c \in Int : c = y[1]
    BY FractionParts
  <2>4. PICK d \in Int : d = y[2] /\ d > 0
    BY FractionParts
  <2>5. PICK e \in Int : e = z[1]
    BY FractionParts
  <2>6. PICK f \in Int : f = z[2] /\ f > 0
    BY FractionParts
  <2>7. a * d <= c * b /\ c * f <= e * d
    BY <1>2, <2>1, <2>2, <2>3, <2>4, <2>5, <2>6 DEF AtMost
  <2>8. (a * d) * f <= (c * b) * f /\ (c * f) * b <= (e * d) * b
    BY <2>7, <2>2, <2>6, FactorKeepsOrder
  <2>9. (a * d) * f = (a * f) * d /\ (c * b) * f = (c * f) * b /\ (e * d) * b = (e * b) * d
        /\ (a * f) * d \in Int /\ (c * f) * b \in Int /\ (e * b) * d \in Int
    OBVIOUS
  <2>10. (a * f) * d <= (e * b) * d
    BY <2>8, <2>9
  <2>11. a * f <= e * b
    BY <2>4, <2>10, FactorKeepsOrder
  <2> QED BY <2>1, <2>2, <2>5, <2>6, <2>11 DEF AtMost
<1> QED BY <1>1, <1>2

\* Of some fractions one is least.
LEMMA LeastFraction ==
    ASSUME NEW S, IsFiniteSet(S), S \subseteq Fractions, S # {}
    PROVE  \E x \in S : \A y \in S : AtMost(x, y)
<1> DEFINE Fine(T) == T # {} => \E x \in T : \A y \in T : AtMost(x, y)
           Bad == {T \in SUBSET S : ~Fine(T)}
<1>1. SUFFICES ASSUME Bad # {} PROVE FALSE
  <2>1. S \in SUBSET S /\ (S \notin Bad => Fine(S))
    OBVIOUS
  <2> QED BY <2>1
<1>2. PICK T \in Bad : \A x \in T : T \ {x} \notin Bad
  <2>1. Bad \subseteq SUBSET S
    OBVIOUS
  <2> HIDE DEF Bad
  <2> QED BY <1>1, <2>1, SmallestPart
<1>3. PICK x \in T : TRUE
  OBVIOUS
<1>4. T \subseteq Fractions /\ Fine(T \ {x})
  BY <1>2
<1>5. CASE T \ {x} = {}
  <2>1. T = {x} /\ AtMost(x, x)
    BY <1>4, <1>5, FractionsAreOrdered
  <2> QED BY <1>2, <2>1
<1>6. CASE T \ {x} # {}
  <2>1. PICK y \in T \ {x} : \A z \in T \ {x} : AtMost(y, z)
    BY <1>4, <1>6
  <2>2. x \in Fractions /\ y \in Fractions /\ AtMost(x, x)
    BY <1>4, FractionsAreOrdered
  <2>3. CASE AtMost(y, x)
    <3>1. \A z \in T : AtMost(y, z)
      BY <2>1, <2>3
    <3> QED BY <1>2, <3>1
  <2>4. CASE AtMost(x, y)
    <3>1. \A z \in T : AtMost(x, z)
      BY <1>4, <2>1, <2>2, <2>4, FractionsAreOrdered
    <3> QED BY <1>2, <3>1
  <2> QED BY <2>2, <2>3, <2>4, FractionsAreOrdered
<1> QED BY <1>5, <1>6

\* Ratios are compared by their products.
LEMMA RatiosCompare ==
    ASSUME NEW n \in Int, NEW d \in Positive, NEW m \in Int, NEW e \in Positive
    PROVE  AtMost(Ratio(n, d), Ratio(m, e)) <=> n * e <= m * d
<1> DEFINE x == Ratio(n, d)
           y == Ratio(m, e)
<1>1. /\ x[1] \in Int /\ x[2] \in Positive /\ x[1] * d = n * x[2]
      /\ y[1] \in Int /\ y[2] \in Positive /\ y[1] * e = m * y[2]
  BY FractionIsPair
<1>2. AtMost(x, y) <=> x[1] * y[2] <= y[1] * x[2]
  BY DEF AtMost
<1> HIDE DEF x, y
<1>3. ASSUME NEW p \in Int, NEW q \in Positive, p * d = n * q,
             NEW r \in Int, NEW s \in Positive, r * e = m * s
      PROVE  p * s <= r * q <=> n * e <= m * d
  <2>1. d > 0 /\ e > 0 /\ q > 0 /\ s > 0 /\ d \in Int /\ e \in Int /\ q \in Int /\ s \in Int
    BY DEF Positive
  <2>2. d * e \in Int /\ d * e > 0 /\ q * s \in Int /\ q * s > 0
    BY <2>1
  <2>3. p * s \in Int /\ r * q \in Int /\ n * e \in Int /\ m * d \in Int
    BY <2>1
  <2>4. p * s <= r * q <=> (p * s) * (d * e) <= (r * q) * (d * e)
    BY ONLY <2>2, <2>3, FactorKeepsOrder
  <2>5. n * e <= m * d <=> (n * e) * (q * s) <= (m * d) * (q * s)
    BY ONLY <2>2, <2>3, FactorKeepsOrder
  <2>6. (p * s) * (d * e) = (p * d) * (s * e) /\ (r * q) * (d * e) = (r * e) * (q * d)
    BY <2>1
  <2>7. (n * e) * (q * s) = (n * q) * (s * e) /\ (m * d) * (q * s) = (m * s) * (q * d)
    BY <2>1
  <2> QED BY <1>3, <2>4, <2>5, <2>6, <2>7
<1> QED BY <1>1, <1>2, <1>3 DEF x, y

\* The fractions that are not negative.
NonNegative == {x \in Fractions : x[1] >= 0}

\* A ratio has the sign of its numerator.
LEMMA NonNegativeRatio ==
    ASSUME NEW n \in Int, NEW d \in Positive
    PROVE  Ratio(n, d) \in NonNegative <=> n >= 0
<1> DEFINE x == Ratio(n, d)
<1>1. x[1] \in Int /\ x[2] \in Positive /\ x[1] * d = n * x[2] /\ x \in Fractions
  BY FractionIsPair, RatioIsFraction
<1> HIDE DEF x
<1>2. ASSUME NEW p \in Int, NEW q \in Positive, p * d = n * q PROVE p >= 0 <=> n >= 0
  <2>1. d > 0 /\ q > 0 /\ d \in Int /\ q \in Int /\ 0 \in Int
    BY DEF Positive
  <2>2. 0 <= p <=> 0 * d <= p * d
    BY <2>1, FactorKeepsOrder
  <2>3. 0 <= n <=> 0 * q <= n * q
    BY <2>1, FactorKeepsOrder
  <2> QED BY <1>2, <2>1, <2>2, <2>3
<1> QED BY <1>1, <1>2 DEF NonNegative, x

\* A larger fraction is the smaller one and something that is not negative.
LEMMA LargerByDifference ==
    ASSUME NEW x \in Fractions, NEW y \in Fractions
    PROVE  /\ Plus(x, Minus(y, x)) = y /\ Minus(y, x) \in Fractions
           /\ AtMost(x, y) <=> Minus(y, x) \in NonNegative
           /\ \A z \in Fractions : AtMost(x, Plus(x, z)) <=> z \in NonNegative
<1>1. PICK a \in Int, b \in Positive : x = Ratio(a, b)
  BY DEF Fractions
<1>2. PICK c \in Int, d \in Positive : y = Ratio(c, d)
  BY DEF Fractions
<1>3. /\ d * b \in Positive /\ c * b - a * d \in Int
      /\ Minus(y, x) = Ratio(c * b - a * d, d * b)
  BY <1>1, <1>2, MinusIsRatio
<1>4. Plus(x, Minus(y, x)) = y
  <2>1. Plus(x, Minus(y, x)) = Ratio(a * (d * b) + (c * b - a * d) * b, b * (d * b))
        /\ a * (d * b) + (c * b - a * d) * b \in Int /\ b * (d * b) \in Positive
    BY <1>1, <1>3, PlusIsRatio
  <2>2. (a * (d * b) + (c * b - a * d) * b) * d = c * (b * (d * b))
    BY DEF Positive
  <2> QED BY <1>2, <2>1, <2>2, RatioIsCanonical
<1>5. AtMost(x, y) <=> Minus(y, x) \in NonNegative
  <2>1. AtMost(x, y) <=> a * d <= c * b
    BY <1>1, <1>2, RatiosCompare
  <2>2. Minus(y, x) \in NonNegative <=> c * b - a * d >= 0
    BY <1>3, NonNegativeRatio
  <2>3. a * d \in Int /\ c * b \in Int
    BY DEF Positive
  <2> QED BY <2>1, <2>2, <2>3
<1>6. ASSUME NEW z \in Fractions PROVE AtMost(x, Plus(x, z)) <=> z \in NonNegative
  <2>1. PICK n \in Int, e \in Positive : z = Ratio(n, e)
    BY DEF Fractions
  <2>2. /\ Plus(x, z) = Ratio(a * e + n * b, b * e)
        /\ b * e \in Positive /\ a * e + n * b \in Int
    BY <1>1, <2>1, PlusIsRatio
  <2>3. AtMost(x, Plus(x, z)) <=> a * (b * e) <= (a * e + n * b) * b
    BY <1>1, <2>2, RatiosCompare
  <2>4. (a * e + n * b) * b = a * (b * e) + n * (b * b) /\ a * (b * e) \in Int
        /\ b * b \in Int /\ b * b > 0 /\ n * (b * b) \in Int
    BY DEF Positive
  <2>5. 0 <= n <=> 0 * (b * b) <= n * (b * b)
    BY <2>4, FactorKeepsOrder
  <2>6. z \in NonNegative <=> n >= 0
    BY <2>1, NonNegativeRatio
  <2> QED BY <2>3, <2>4, <2>5, <2>6
<1> QED BY <1>3, <1>4, <1>5, <1>6, RatioIsFraction

\* Fractions that are not negative add up to one that is not.
LEMMA NonNegativesAdd ==
    /\ Zero \in NonNegative
    /\ \A x, y \in NonNegative : Plus(x, y) \in NonNegative
<1>1. Zero \in NonNegative
  <2>1. Zero = Ratio(0, 1) /\ 1 \in Positive
    BY WholeIsRatio DEF Zero, Positive
  <2> QED BY <2>1, NonNegativeRatio
<1>2. ASSUME NEW x \in NonNegative, NEW y \in NonNegative PROVE Plus(x, y) \in NonNegative
  <2>1. PICK a \in Int, b \in Positive : x = Ratio(a, b)
    BY DEF Fractions, NonNegative
  <2>2. PICK c \in Int, d \in Positive : y = Ratio(c, d)
    BY DEF Fractions, NonNegative
  <2>3. a >= 0 /\ c >= 0
    BY <2>1, <2>2, NonNegativeRatio
  <2>4. /\ Plus(x, y) = Ratio(a * d + c * b, b * d)
        /\ b * d \in Positive /\ a * d + c * b \in Int
    BY <2>1, <2>2, PlusIsRatio
  <2>5. a * d >= 0 /\ c * b >= 0 /\ a * d \in Int /\ c * b \in Int
    BY <2>3 DEF Positive
  <2> QED BY <2>4, <2>5, NonNegativeRatio
<1> QED BY <1>1, <1>2

\* Fractions add up in any order and any grouping.
LEMMA FractionsMove ==
    /\ Zero \in Fractions /\ \A x \in Fractions : Plus(x, Zero) = x /\ Plus(Zero, x) = x
    /\ \A x, y \in Fractions : Plus(x, y) \in Fractions /\ Plus(x, y) = Plus(y, x)
    /\ \A x, y, z \in Fractions : Plus(x, Plus(y, z)) = Plus(Plus(x, y), z)
    /\ \A a, b, c, d \in Fractions : Plus(Plus(a, b), Plus(c, d)) = Plus(Plus(a, c), Plus(b, d))
<1>1. \A x, y \in Fractions : Addition[x][y] = Plus(x, y) /\ Plus(x, y) \in Fractions
  BY SumsAreFractions DEF Addition
<1>2. Zero \in Fractions /\ \A x \in Fractions : Plus(x, Zero) = x
  BY <1>1, FractionsAdd DEF Adding
<1>3. \A x, y \in Fractions : Plus(x, y) = Plus(y, x)
  BY <1>1, FractionsAdd DEF Adding
<1>4. ASSUME NEW x \in Fractions, NEW y \in Fractions, NEW z \in Fractions
      PROVE  Plus(x, Plus(y, z)) = Plus(Plus(x, y), z)
  <2>1. Addition[x][Addition[y][z]] = Addition[Addition[x][y]][z]
    BY FractionsAdd DEF Adding
  <2> QED BY <1>1, <2>1
<1>5. ASSUME NEW a \in Fractions, NEW b \in Fractions, NEW c \in Fractions, NEW d \in Fractions
      PROVE  Plus(Plus(a, b), Plus(c, d)) = Plus(Plus(a, c), Plus(b, d))
  <2>1. Plus(Plus(a, b), Plus(c, d)) = Plus(a, Plus(b, Plus(c, d)))
    BY <1>1, <1>4
  <2>2. Plus(b, Plus(c, d)) = Plus(Plus(b, c), d) /\ Plus(c, Plus(b, d)) = Plus(Plus(c, b), d)
    BY <1>4
  <2>3. Plus(Plus(a, c), Plus(b, d)) = Plus(a, Plus(c, Plus(b, d)))
    BY <1>1, <1>4
  <2> QED BY <1>3, <2>1, <2>2, <2>3
<1> QED BY <1>1, <1>2, <1>3, <1>4, <1>5

\* Adding keeps the order.
LEMMA PlusKeepsOrder ==
    \A x, y, u, v \in Fractions : AtMost(x, u) /\ AtMost(y, v) => AtMost(Plus(x, y), Plus(u, v))
<1> SUFFICES ASSUME NEW x \in Fractions, NEW y \in Fractions, NEW u \in Fractions,
                    NEW v \in Fractions, AtMost(x, u), AtMost(y, v)
             PROVE  AtMost(Plus(x, y), Plus(u, v))
  OBVIOUS
<1>1. PICK p \in NonNegative : Plus(x, p) = u
  BY LargerByDifference
<1>2. PICK q \in NonNegative : Plus(y, q) = v
  BY LargerByDifference
<1>3. Plus(p, q) \in NonNegative /\ p \in Fractions /\ q \in Fractions /\ Plus(p, q) \in Fractions
  BY NonNegativesAdd DEF NonNegative
<1>4. Plus(u, v) = Plus(Plus(x, y), Plus(p, q))
  BY <1>1, <1>2, <1>3, FractionsMove
<1>5. Plus(x, y) \in Fractions
  BY SumsAreFractions
<1> QED BY <1>3, <1>4, <1>5, LargerByDifference

-----------------------------------------------------------------------------
(* Sums, one summand at a time *)

\* A sum of integers, one summand at a time.
IntSum(S, w) == FoldOf(S, IntAddition, 0, w)

\* Taking one summand out takes its value off the sum.
LEMMA IntSumAdds ==
    ASSUME NEW S, IsFiniteSet(S), NEW w, \A x \in S : w[x] \in Int
    PROVE  /\ IntSum(S, w) \in Int
           /\ S = {} => IntSum(S, w) = 0
           /\ \A x \in S : IntSum(S \ {x}, w) \in Int /\ IntSum(S, w) = w[x] + IntSum(S \ {x}, w)
<1>1. /\ IntSum(S, w) \in Int /\ (S = {} => IntSum(S, w) = 0)
      /\ \A x \in S : IntSum(S, w) = IntAddition[w[x]][IntSum(S \ {x}, w)]
  BY IntegersAdd, FoldAdds DEF IntSum
<1>2. ASSUME NEW x \in S PROVE IntSum(S \ {x}, w) \in Int
  <2>1. IsFiniteSet(S \ {x}) /\ \A y \in S \ {x} : w[y] \in Int
    BY FS_RemoveElement
  <2> QED BY <2>1, IntegersAdd, FoldAdds DEF IntSum
<1>3. \A m, n \in Int : IntAddition[m][n] = m + n
  BY DEF IntAddition
<1> QED BY <1>1, <1>2, <1>3

\* MapThenSumSet is such a sum, and so is SumFunctionOnSet.
LEMMA SumIsTotal ==
    ASSUME NEW S, IsFiniteSet(S), NEW w, \A x \in S : w[x] \in Int
    PROVE  SumFunctionOnSet(w, S) = IntSum(S, w)
  BY SumIsFold DEF IntSum

\* A sum of multiples, and of ones.
LEMMA TotalOfMultiples ==
    ASSUME NEW S, IsFiniteSet(S), NEW w, \A x \in S : w[x] \in Int, NEW k \in Int
    PROVE  IntSum(S, [x \in S |-> k * w[x]]) = k * IntSum(S, w)
<1> DEFINE m == [n \in Int |-> k * n]
           v == [x \in S |-> k * w[x]]
<1>1. m[0] = 0
  OBVIOUS
<1>2. ASSUME NEW a \in Int, NEW b \in Int
      PROVE  m[a] \in Int /\ m[IntAddition[a][b]] = IntAddition[m[a]][m[b]]
  BY DEF IntAddition
<1>3. \A x \in S : w[x] \in Int /\ v[x] = m[w[x]]
  OBVIOUS
<1>4. \A n \in Int : m[n] = k * n
  OBVIOUS
<1> HIDE DEF m, v
<1>5. FoldOf(S, IntAddition, 0, v) = m[FoldOf(S, IntAddition, 0, w)]
  BY <1>1, <1>2, <1>3, IntegersAdd, FoldMaps
<1>6. FoldOf(S, IntAddition, 0, w) \in Int
  BY IntSumAdds DEF IntSum
<1> QED BY <1>4, <1>5, <1>6 DEF IntSum, v

\* As many ones as a set has elements add up to their number.
LEMMA TotalOfOnes ==
    ASSUME NEW S, IsFiniteSet(S)
    PROVE  IntSum(S, [x \in S |-> 1]) = Cardinality(S)
<1> DEFINE w == [x \in S |-> 1]
           Good == {T \in SUBSET S : IntSum(T, w) = Cardinality(T)}
<1>1. \A T \in SUBSET S : IsFiniteSet(T) /\ \A x \in T : w[x] \in Int /\ w[x] = 1
  BY FS_Subset
<1> HIDE DEF w
<1>2. {} \in Good
  BY <1>1, IntSumAdds, FS_EmptySet
<1>3. ASSUME NEW T \in SUBSET S, NEW x \in T, T \ {x} \in Good PROVE T \in Good
  <2>1. IntSum(T, w) = 1 + IntSum(T \ {x}, w)
    <3>1. IsFiniteSet(T) /\ \A y \in T : w[y] \in Int
      BY <1>1
    <3>2. x \in T /\ w[x] = 1
      BY <1>1, <1>3
    <3>3. IntSum(T, w) = w[x] + IntSum(T \ {x}, w)
      BY <3>1, <3>2, IntSumAdds
    <3> QED BY <3>2, <3>3
  <2>2. Cardinality(T \ {x}) = Cardinality(T) - 1 /\ Cardinality(T) \in Nat
    BY <1>1, FS_RemoveElement, FS_CardinalityType
  <2> QED BY <1>3, <2>1, <2>2
<1> HIDE DEF Good
<1>4. S \in Good
  BY <1>2, <1>3, FiniteInduction
<1> QED BY <1>4 DEF Good, w

\* Larger numbers have a larger sum.
LEMMA TotalsAreOrdered ==
    ASSUME NEW S, IsFiniteSet(S), NEW v, NEW w,
           \A x \in S : v[x] \in Int /\ w[x] \in Int /\ v[x] <= w[x]
    PROVE  IntSum(S, v) <= IntSum(S, w)
<1> DEFINE Good == {T \in SUBSET S : IntSum(T, v) <= IntSum(T, w)}
<1>1. \A T \in SUBSET S : IsFiniteSet(T) /\ \A x \in T : v[x] \in Int /\ w[x] \in Int /\ v[x] <= w[x]
  BY FS_Subset
<1>2. {} \in Good
  <2>1. IsFiniteSet({}) /\ \A x \in {} : v[x] \in Int /\ w[x] \in Int
    BY <1>1
  <2>2. IntSum({}, v) = 0
    BY <2>1, IntSumAdds
  <2>3. IntSum({}, w) = 0
    BY <2>1, IntSumAdds
  <2> QED BY <2>2, <2>3
<1>3. ASSUME NEW T \in SUBSET S, NEW x \in T, T \ {x} \in Good PROVE T \in Good
  <2>1. /\ IntSum(T, v) = v[x] + IntSum(T \ {x}, v) /\ IntSum(T \ {x}, v) \in Int
    BY <1>1, IntSumAdds
  <2>2. /\ IntSum(T, w) = w[x] + IntSum(T \ {x}, w) /\ IntSum(T \ {x}, w) \in Int
    BY <1>1, IntSumAdds
  <2>3. IntSum(T \ {x}, v) <= IntSum(T \ {x}, w)
    BY <1>3
  <2> QED BY <1>1, <2>1, <2>2, <2>3
<1> HIDE DEF Good
<1>4. S \in Good
  BY <1>2, <1>3, FiniteInduction
<1> QED BY <1>4 DEF Good

\* A sum of fractions.
FractionSum(S, w) == FoldOf(S, Addition, Zero, w)

\* The same of fractions.
LEMMA SumAdds ==
    ASSUME NEW S, IsFiniteSet(S), NEW w, \A x \in S : w[x] \in Fractions
    PROVE  /\ FractionSum(S, w) \in Fractions
           /\ S = {} => FractionSum(S, w) = Zero
           /\ \A x \in S : /\ FractionSum(S \ {x}, w) \in Fractions
                           /\ FractionSum(S, w) = Plus(w[x], FractionSum(S \ {x}, w))
<1>1. /\ FractionSum(S, w) \in Fractions /\ (S = {} => FractionSum(S, w) = Zero)
      /\ \A x \in S : FractionSum(S, w) = Addition[w[x]][FractionSum(S \ {x}, w)]
  BY FractionsAdd, FoldAdds DEF FractionSum
<1>2. ASSUME NEW x \in S PROVE FractionSum(S \ {x}, w) \in Fractions
  <2>1. IsFiniteSet(S \ {x}) /\ \A y \in S \ {x} : w[y] \in Fractions
    BY FS_RemoveElement
  <2> QED BY <2>1, FractionsAdd, FoldAdds DEF FractionSum
<1>3. \A a, b \in Fractions : Addition[a][b] = Plus(a, b)
  BY DEF Addition
<1> QED BY <1>1, <1>2, <1>3

\* Fractions over one denominator add up to one over it.
LEMMA SumOverOneDenominator ==
    ASSUME NEW S, IsFiniteSet(S), NEW a, \A x \in S : a[x] \in Int, NEW d \in Positive,
           NEW w, \A x \in S : w[x] = Ratio(a[x], d)
    PROVE  FractionSum(S, w) = Ratio(IntSum(S, a), d)
<1> DEFINE m == [n \in Int |-> Ratio(n, d)]
<1>1. m[0] = Zero
  <2>1. Zero = Ratio(0, 1) /\ 1 \in Positive /\ 0 * d = 0 * 1
    BY WholeIsRatio DEF Zero, Positive
  <2>2. Ratio(0, d) = Ratio(0, 1)
    BY <2>1, RatioIsCanonical
  <2> QED BY <2>1, <2>2
<1>2. ASSUME NEW p \in Int, NEW q \in Int
      PROVE  m[p] \in Fractions /\ m[IntAddition[p][q]] = Addition[m[p]][m[q]]
  <2>1. m[p] = Ratio(p, d) /\ m[q] = Ratio(q, d) /\ IntAddition[p][q] = p + q
        /\ m[p + q] = Ratio(p + q, d)
    BY DEF IntAddition
  <2>2. /\ d * d \in Positive /\ p * d + q * d \in Int
        /\ Plus(Ratio(p, d), Ratio(q, d)) = Ratio(p * d + q * d, d * d)
    BY PlusIsRatio
  <2>3. (p * d + q * d) * d = (p + q) * (d * d)
    BY DEF Positive
  <2>4. Ratio(p * d + q * d, d * d) = Ratio(p + q, d)
    BY <2>2, <2>3, RatioIsCanonical
  <2>5. m[p] \in Fractions /\ m[q] \in Fractions
    BY <2>1, RatioIsFraction
  <2> HIDE DEF m
  <2>6. Addition[m[p]][m[q]] = Plus(m[p], m[q])
    BY <2>5 DEF Addition
  <2> QED BY <2>1, <2>2, <2>4, <2>5, <2>6
<1>3. \A x \in S : a[x] \in Int /\ w[x] = m[a[x]]
  OBVIOUS
<1>4. \A n \in Int : m[n] = Ratio(n, d)
  OBVIOUS
<1> HIDE DEF m
<1>5. FoldOf(S, Addition, Zero, w) = m[FoldOf(S, IntAddition, 0, a)]
  BY <1>1, <1>2, <1>3, IntegersAdd, FractionsAdd, FoldMaps
<1>6. FoldOf(S, IntAddition, 0, a) \in Int
  BY IntSumAdds DEF IntSum
<1> QED BY <1>4, <1>5, <1>6 DEF FractionSum, IntSum

\* Larger fractions have a larger sum.
LEMMA SumsAreOrdered ==
    ASSUME NEW S, IsFiniteSet(S), NEW v, NEW w,
           \A x \in S : v[x] \in Fractions /\ w[x] \in Fractions /\ AtMost(v[x], w[x])
    PROVE  AtMost(FractionSum(S, v), FractionSum(S, w))
<1> DEFINE Good == {T \in SUBSET S : AtMost(FractionSum(T, v), FractionSum(T, w))}
<1>1. \A T \in SUBSET S : IsFiniteSet(T) /\ \A x \in T :
         v[x] \in Fractions /\ w[x] \in Fractions /\ AtMost(v[x], w[x])
  BY FS_Subset
<1>2. {} \in Good
  BY <1>1, SumAdds, FractionsAreOrdered
<1>3. ASSUME NEW T \in SUBSET S, NEW x \in T, T \ {x} \in Good PROVE T \in Good
  <2>1. /\ FractionSum(T, v) = Plus(v[x], FractionSum(T \ {x}, v)) /\ FractionSum(T \ {x}, v) \in Fractions
    BY <1>1, SumAdds
  <2>2. /\ FractionSum(T, w) = Plus(w[x], FractionSum(T \ {x}, w)) /\ FractionSum(T \ {x}, w) \in Fractions
    BY <1>1, SumAdds
  <2>3. AtMost(FractionSum(T \ {x}, v), FractionSum(T \ {x}, w)) /\ AtMost(v[x], w[x])
        /\ v[x] \in Fractions /\ w[x] \in Fractions
    BY <1>1, <1>3
  <2>4. AtMost(FractionSum(T, v), FractionSum(T, w))
    BY <2>1, <2>2, <2>3, PlusKeepsOrder
  <2> QED BY <2>4
<1> HIDE DEF Good
<1>4. S \in Good
  BY <1>2, <1>3, FiniteInduction
<1> QED BY <1>4 DEF Good

\* A sum does not need what adds nothing.
LEMMA SumWithoutZeros ==
    ASSUME NEW S, IsFiniteSet(S), NEW E \in SUBSET S, NEW v, NEW w,
           \A x \in E : v[x] \in Fractions /\ w[x] = v[x], \A x \in S \ E : w[x] = Zero
    PROVE  FractionSum(S, w) = FractionSum(E, v)
<1>1. Zero \in Fractions /\ \A x \in Fractions : Plus(x, Zero) = x /\ Plus(Zero, x) = x
  <2>1. \A x, y \in Fractions : Addition[x][y] = Plus(x, y)
    BY DEF Addition
  <2>2. Zero \in Fractions /\ \A x \in Fractions : Addition[x][Zero] = x /\ Addition[Zero][x] = x
    BY FractionsAdd DEF Adding
  <2> QED BY <2>1, <2>2
<1>2. \A x \in S : w[x] \in Fractions
  BY <1>1
<1> DEFINE Good == {T \in SUBSET S : FractionSum(T, w) = FractionSum(T \cap E, w)}
<1>3. \A T \in SUBSET S : IsFiniteSet(T) /\ IsFiniteSet(T \cap E)
  BY FS_Subset
<1>4. {} \in Good
  OBVIOUS
<1>5. ASSUME NEW T \in SUBSET S, NEW x \in T, T \ {x} \in Good PROVE T \in Good
  <2>1. FractionSum(T, w) = Plus(w[x], FractionSum(T \ {x}, w)) /\ FractionSum(T \ {x}, w) \in Fractions
    BY <1>2, <1>3, SumAdds
  <2>2. FractionSum(T \ {x}, w) = FractionSum((T \ {x}) \cap E, w)
    BY <1>5
  <2>3. CASE x \in E
    <3>1. (T \ {x}) \cap E = (T \cap E) \ {x} /\ x \in T \cap E
      BY <2>3
    <3>2. FractionSum(T \cap E, w) = Plus(w[x], FractionSum((T \cap E) \ {x}, w))
      BY <1>2, <1>3, <3>1, SumAdds
    <3> QED BY <2>1, <2>2, <3>1, <3>2
  <2>4. CASE x \notin E
    <3>1. (T \ {x}) \cap E = T \cap E /\ w[x] = Zero
      BY <2>4
    <3> QED BY <1>1, <2>1, <2>2, <3>1
  <2> QED BY <2>3, <2>4
<1> HIDE DEF Good
<1>6. S \in Good
  BY <1>4, <1>5, FiniteInduction
<1>7. S \cap E = E /\ IsFiniteSet(E)
  BY FS_Subset
<1>8. FractionSum(E, w) = FractionSum(E, v)
  BY <1>7, FoldDependsOnValues DEF FractionSum
<1> QED BY <1>6, <1>7, <1>8 DEF Good

\* Nothing negative adds up to anything negative.
LEMMA SumIsNonNegative ==
    ASSUME NEW S, IsFiniteSet(S), NEW w, \A x \in S : w[x] \in NonNegative
    PROVE  FractionSum(S, w) \in NonNegative
<1> DEFINE Good == {T \in SUBSET S : FractionSum(T, w) \in NonNegative}
<1>1. \A T \in SUBSET S : IsFiniteSet(T) /\ \A x \in T : w[x] \in Fractions /\ w[x] \in NonNegative
  BY FS_Subset DEF NonNegative
<1>2. {} \in Good
  BY <1>1, SumAdds, NonNegativesAdd
<1>3. ASSUME NEW T \in SUBSET S, NEW x \in T, T \ {x} \in Good PROVE T \in Good
  <2>1. FractionSum(T, w) = Plus(w[x], FractionSum(T \ {x}, w))
    BY <1>1, SumAdds
  <2> QED BY <1>1, <1>3, <2>1, NonNegativesAdd
<1> HIDE DEF Good
<1>4. S \in Good
  BY <1>2, <1>3, FiniteInduction
<1> QED BY <1>4 DEF Good
=============================================================================
