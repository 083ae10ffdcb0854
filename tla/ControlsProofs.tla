--------------------------- MODULE ControlsProofs ---------------------------
(***************************************************************************)
(* Proofs about what stands around an order, for any limits, symbols,      *)
(* orders, windows and faults: RiskChecks and RiskGates, the file of       *)
(* SessionCapacity and the ladder it feeds, the copies of OrderIntent, and *)
(* what MCControls promises of them.                                       *)
(*                                                                         *)
(* Each component has an invariant of its own.                             *)
(***************************************************************************)
EXTENDS MCControls, DecimalsProofs, SequenceTheorems

-----------------------------------------------------------------------------
(* Products, sums and sequences *)

\* More of the same is more.
LEMMA ProductGrows ==
    ASSUME NEW m \in Nat, NEW n \in Nat, m <= n, NEW b \in Nat
    PROVE  m * b <= n * b /\ m * b \in Nat /\ n * b \in Nat
<1> DEFINE Bad == {k \in Nat : m <= k /\ ~ (m * b <= k * b)}
<1>1. ASSUME Bad # {} PROVE FALSE
  <2>1. Bad \subseteq Nat
    OBVIOUS
  <2>2. PICK k \in Bad : \A j \in Bad : k <= j
    <3> HIDE DEF Bad
    <3> QED BY <1>1, <2>1, LeastNatural
  <2>3. k \in Nat /\ k - 1 \in Nat /\ m <= k - 1 /\ k - 1 \notin Bad
    <3>1. k \in Nat /\ m <= k /\ k # m
      OBVIOUS
    <3>2. ~ (k <= k - 1)
      BY <3>1
    <3> HIDE DEF Bad
    <3> QED BY <2>2, <3>1, <3>2
  <2> DEFINE j == k - 1
  <2>4. m * b <= j * b /\ j \in Nat /\ k = j + 1
    BY <2>3
  <2> HIDE DEF j
  <2>5. (j + 1) * b = j * b + b /\ j * b \in Nat /\ m * b \in Nat
    BY <2>4
  <2>6. m * b <= k * b
    BY <2>4, <2>5
  <2> QED BY <2>2, <2>6
<1>2. m * b \in Nat /\ n * b \in Nat
  OBVIOUS
<1> QED BY <1>1, <1>2

\* The sum of the numbers of a set, as FoldSet computes it.
TotalOf(w, S) == (CHOOSE it : Sums(it, S, w))[S]

\* Sums of the same numbers are the same, whatever else they are sums of.
LEMMA SumsAgree ==
    ASSUME NEW S, IsFiniteSet(S), NEW T \in SUBSET S, NEW v, NEW w, NEW f, NEW g,
           Sums(f, S, v), Sums(g, T, w), \A x \in T : v[x] = w[x]
    PROVE  f[T] = g[T]
<1> DEFINE Bad == {s \in SUBSET T : f[s] # g[s]}
<1>1. SUFFICES ASSUME Bad # {} PROVE FALSE
  OBVIOUS
<1>2. IsFiniteSet(T) /\ Bad \subseteq SUBSET T
  BY FS_Subset
<1>3. PICK s \in Bad : \A x \in s : s \ {x} \notin Bad
  <2> HIDE DEF Bad
  <2> QED BY <1>1, <1>2, SmallestPart
<1>4. s \in SUBSET S /\ s \in SUBSET T
  OBVIOUS
<1>5. s # {}
  BY <1>4 DEF Sums
<1>6. First(s) \in s
  BY <1>5 DEF First
<1>7. f[s \ {First(s)}] = g[s \ {First(s)}] /\ v[First(s)] = w[First(s)]
  BY <1>3, <1>4, <1>6
<1>8. /\ f[s] = f[s \ {First(s)}] + v[First(s)]
      /\ g[s] = g[s \ {First(s)}] + w[First(s)]
  BY <1>4, <1>5 DEF Sums
<1> QED BY <1>7, <1>8

\* A sum of numbers is a number.
LEMMA SumsAreNumbers ==
    ASSUME NEW S, IsFiniteSet(S), NEW w, \A x \in S : w[x] \in Int, NEW f, Sums(f, S, w)
    PROVE  \A T \in SUBSET S : f[T] \in Int
<1> DEFINE Bad == {T \in SUBSET S : f[T] \notin Int}
<1>1. SUFFICES ASSUME Bad # {} PROVE FALSE
  OBVIOUS
<1>2. PICK T \in Bad : \A x \in T : T \ {x} \notin Bad
  <2>1. Bad \subseteq SUBSET S
    OBVIOUS
  <2> HIDE DEF Bad
  <2> QED BY <1>1, <2>1, SmallestPart
<1>3. T # {}
  BY DEF Sums
<1>4. First(T) \in T /\ f[T] = f[T \ {First(T)}] + w[First(T)]
  BY <1>3 DEF First, Sums
<1>5. f[T \ {First(T)}] \in Int /\ w[First(T)] \in Int
  BY <1>2, <1>4
<1> QED BY <1>4, <1>5

\* The sum does not depend on the order in which elements are taken.
LEMMA SumsTake ==
    ASSUME NEW S, IsFiniteSet(S), NEW w, \A x \in S : w[x] \in Int, NEW f, Sums(f, S, w)
    PROVE  \A T \in SUBSET S : \A x \in T : f[T] = f[T \ {x}] + w[x]
<1> DEFINE Fine(T) == \A x \in T : f[T] = f[T \ {x}] + w[x]
           Bad == {T \in SUBSET S : ~Fine(T)}
<1>1. SUFFICES ASSUME Bad # {} PROVE FALSE
  OBVIOUS
<1>2. PICK T \in Bad : \A x \in T : T \ {x} \notin Bad
  <2>1. Bad \subseteq SUBSET S
    OBVIOUS
  <2> HIDE DEF Bad
  <2> QED BY <1>1, <2>1, SmallestPart
<1>3. CASE T = {}
  BY <1>3
<1>4. CASE T # {}
  <2> DEFINE y == First(T)
  <2>1. y \in T /\ T \in SUBSET S /\ f[T] = f[T \ {y}] + w[y]
    BY <1>4 DEF First, Sums
  <2> HIDE DEF y
  <2>2. \A x \in T : Fine(T \ {x}) /\ w[x] \in Int
    BY <1>2, <2>1
  <2>3. ASSUME NEW x \in T, x # y
        PROVE  f[T] = f[T \ {x}] + w[x]
    <3> DEFINE U == (T \ {x}) \ {y}
    <3>1. U = (T \ {y}) \ {x} /\ U \in SUBSET S
      BY <2>1
    <3>2. f[T \ {y}] = f[U] + w[x] /\ f[T \ {x}] = f[U] + w[y]
      BY <2>1, <2>2, <2>3, <3>1
    <3>3. f[U] \in Int /\ w[x] \in Int /\ w[y] \in Int
      BY <2>1, <2>2, <3>1, SumsAreNumbers
    <3> HIDE DEF U
    <3>4. f[U] + w[x] + w[y] = f[U] + w[y] + w[x]
      BY <3>3
    <3> QED BY <2>1, <3>2, <3>4
  <2> QED BY <2>1, <2>3
<1> QED BY <1>3, <1>4

\* The sum over a finite set: what FoldSet with + computes, with the numbers of
\* the elements given by a function.
LEMMA TotalIsSum ==
    ASSUME NEW S, IsFiniteSet(S), NEW w
    PROVE  \E f : Sums(f, S, w) /\ TotalOf(w, S) = f[S]
<1>1. \E f : Sums(f, S, w)
  BY SumsExist
<1>2. Sums(CHOOSE f : Sums(f, S, w), S, w)
  BY <1>1
<1> QED BY <1>2 DEF TotalOf

\* Nothing adds up to nothing, and one element more adds its number.
LEMMA TotalAdds ==
    ASSUME NEW S, IsFiniteSet(S), NEW w, \A x \in S : w[x] \in Int
    PROVE  /\ TotalOf(w, S) \in Int
           /\ S = {} => TotalOf(w, S) = 0
           /\ \A x \in S : TotalOf(w, S) = TotalOf(w, S \ {x}) + w[x]
<1>1. PICK f : Sums(f, S, w) /\ TotalOf(w, S) = f[S]
  BY TotalIsSum
<1>2. f[S] \in Int
  BY <1>1, SumsAreNumbers
<1>3. S = {} => f[S] = 0
  BY <1>1 DEF Sums
<1>4. ASSUME NEW x \in S PROVE f[S] = TotalOf(w, S \ {x}) + w[x]
  <2>1. IsFiniteSet(S \ {x}) /\ S \ {x} \in SUBSET S
    BY FS_RemoveElement
  <2>2. PICK g : Sums(g, S \ {x}, w) /\ TotalOf(w, S \ {x}) = g[S \ {x}]
    BY <2>1, TotalIsSum
  <2>3. f[S \ {x}] = g[S \ {x}]
    BY <1>1, <2>1, <2>2, SumsAgree
  <2>4. f[S] = f[S \ {x}] + w[x]
    BY <1>1, SumsTake
  <2> QED BY <2>2, <2>3, <2>4
<1> QED BY <1>1, <1>2, <1>3, <1>4

\* Only the numbers of its elements count.
LEMMA TotalDependsOnNumbers ==
    ASSUME NEW S, IsFiniteSet(S), NEW v, NEW w, \A x \in S : v[x] = w[x]
    PROVE  TotalOf(v, S) = TotalOf(w, S)
<1>1. PICK f : Sums(f, S, v) /\ TotalOf(v, S) = f[S]
  BY TotalIsSum
<1>2. PICK g : Sums(g, S, w) /\ TotalOf(w, S) = g[S]
  BY TotalIsSum
<1>3. S \in SUBSET S
  OBVIOUS
<1> QED BY <1>1, <1>2, <1>3, SumsAgree

\* Numbers that are at most b add up to at most b for each.
LEMMA TotalBounded ==
    ASSUME NEW S, IsFiniteSet(S), NEW w, NEW b \in Nat, \A x \in S : w[x] \in Int /\ w[x] <= b
    PROVE  TotalOf(w, S) <= Cardinality(S) * b
<1> DEFINE Bad == {T \in SUBSET S : ~(TotalOf(w, T) <= Cardinality(T) * b)}
<1>1. SUFFICES ASSUME Bad # {} PROVE FALSE
  OBVIOUS
<1>2. PICK T \in Bad : \A x \in T : T \ {x} \notin Bad
  <2>1. Bad \subseteq SUBSET S
    OBVIOUS
  <2> HIDE DEF Bad
  <2> QED BY <1>1, <2>1, SmallestPart
<1>3. IsFiniteSet(T) /\ \A x \in T : w[x] \in Int /\ w[x] <= b
  BY FS_Subset
<1>4. CASE T = {}
  <2>1. TotalOf(w, T) = 0 /\ Cardinality(T) = 0
    BY <1>3, <1>4, TotalAdds, FS_EmptySet
  <2> QED BY <2>1
<1>5. CASE T # {}
  <2>1. PICK x : x \in T
    BY <1>5
  <2> DEFINE rest == T \ {x}
  <2>2. TotalOf(w, T) = TotalOf(w, rest) + w[x]
    BY <1>3, <2>1, TotalAdds
  <2>3. IsFiniteSet(rest) /\ Cardinality(rest) = Cardinality(T) - 1 /\ Cardinality(T) \in Nat
        /\ Cardinality(rest) \in Nat
    BY <1>3, <2>1, FS_RemoveElement, FS_CardinalityType
  <2>4. TotalOf(w, rest) <= Cardinality(rest) * b
    BY <1>2, <2>1
  <2>5. TotalOf(w, rest) \in Int /\ TotalOf(w, T) \in Int
    BY <1>3, <2>3, TotalAdds
  <2> HIDE DEF rest
  <2> DEFINE m == Cardinality(rest)
  <2>6. (m + 1) * b = m * b + b /\ m * b \in Int
    BY <2>3
  <2>7. Cardinality(T) * b = m * b + b
    BY <2>3, <2>6
  <2>8. TotalOf(w, T) <= m * b + b
    BY <1>3, <2>1, <2>2, <2>4, <2>5, <2>6
  <2> QED BY <2>7, <2>8
<1> QED BY <1>4, <1>5
-----------------------------------------------------------------------------
(* The order history of RiskGate *)

\* The configuration's windows and cooldown are positive, and the deque has room.
HistoryConfigured ==
    /\ Windows \subseteq (Nat \ {0}) \X Nat
    /\ ReversalCooldown \in Nat \ {0}
    /\ MaxOrders \in Nat /\ MaxTime \in Nat
    /\ \A s \in Settings : s.maxRecords \in Nat \ {0}

PlacedOrders == [symbol : Stocks, side : Gate!Sides, at : 0 .. MaxTime]

HistoryTypes ==
    /\ now \in 0 .. MaxTime /\ proposal \in Gate!Intents \union {Gate!Free}
    /\ settings \in Settings
    /\ records \in Seq(PlacedOrders) /\ placed \in Seq(PlacedOrders)

Dropped == Len(placed) - Len(records)

\* The deque has the last orders, all of them while it has room, and they are in
\* the order of their times, none later than now.
HistoryKept ==
    /\ Len(records) <= settings.maxRecords /\ Dropped >= 0
    /\ Dropped > 0 => Len(records) = settings.maxRecords
    /\ \A k \in 1 .. Len(records) : records[k] = placed[k + Dropped]
    /\ \A i, j \in 1 .. Len(placed) : i <= j => placed[i].at <= placed[j].at
    /\ \A i \in 1 .. Len(placed) : placed[i].at <= now

\* What the gate let through passes the checks of the history again, however
\* late it is placed, and was let through with every hard cap set.
StillPasses ==
    proposal # Gate!Free => /\ ~Gate!OrderFrequency(proposal) /\ ~Gate!Whipsaw(proposal)
                            /\ settings.missing \intersect Gate!HardCaps = {}

HistoryInv ==
    /\ HistoryTypes /\ HistoryKept /\ StillPasses /\ Gate!NothingUncapped
    /\ Gate!FrequencyHolds /\ Gate!SessionHolds /\ Gate!NoWhipsaw

\* An order that evaluate lets through has passed every check.
LEMMA AllChecksPass ==
    ASSUME NEW i, Gate!Evaluate(i) = "none"
    PROVE  /\ ~Gate!Capacity(i) /\ ~Gate!PositionLimits(i)
           /\ ~Gate!OrderFrequency(i) /\ ~Gate!Whipsaw(i)
           /\ settings.missing \intersect Gate!HardCaps = {}
<1> DEFINE failed == {k \in 1 .. 13 : Gate!Checks(i)[k][1]}
<1>1. failed = {}
  <2> SUFFICES ASSUME failed # {} PROVE FALSE
    OBVIOUS
  <2>1. \E k \in failed : \A j \in failed : k <= j
    OBVIOUS
  <2>2. Gate!Min(failed) \in failed
    BY <2>1 DEF Gate!Min
  <2>3. \A k \in 1 .. 13 : Gate!Checks(i)[k][2] # "none"
    BY DEF Gate!Checks
  <2> QED
    BY <2>2, <2>3 DEF Gate!Evaluate
<1>2. 4 \notin failed /\ 5 \notin failed /\ 8 \notin failed /\ 10 \notin failed /\ 12 \notin failed
  BY <1>1
<1>3. 7 \notin failed /\ 9 \notin failed
  BY <1>1
<1>4. /\ ~Gate!Capacity(i) /\ ~Gate!PositionLimits(i)
      /\ ~Gate!OrderFrequency(i) /\ ~Gate!Whipsaw(i)
      /\ ~Gate!NoCapacity(i)
  BY <1>2 DEF Gate!Checks
<1>5. ~Gate!Lacks("position_limits") /\ ~Gate!Lacks("order_frequency")
  BY <1>3 DEF Gate!Checks
<1>6. ~Gate!Lacks("per_order") /\ ~Gate!Lacks("per_symbol")
  BY <1>4 DEF Gate!NoCapacity
<1> QED
  BY <1>4, <1>5, <1>6 DEF Gate!Lacks, Gate!HardCaps

\* The sets that are counted are finite.
LEMMA CountedSetsAreFinite ==
    ASSUME NEW q, Len(q) \in Nat, NEW P \in SUBSET (1 .. Len(q))
    PROVE  IsFiniteSet(P) /\ Cardinality(P) \in Nat
<1>1. IsFiniteSet(1 .. Len(q))
  BY FS_Interval
<1>2. IsFiniteSet(P)
  BY <1>1, FS_Subset
<1> QED
  BY <1>2, FS_CardinalityType

\* What a history holds was placed at some moment.
LEMMA OrdersHaveTimes ==
    ASSUME HistoryConfigured, NEW q \in Seq(PlacedOrders), NEW i \in 1 .. Len(q)
    PROVE  q[i].at \in Nat /\ q[i].side \in Gate!Sides
<1>1. q[i] \in PlacedOrders
  OBVIOUS
<1> QED
  BY <1>1 DEF PlacedOrders, HistoryConfigured

\* Both modules count alike.
LEMMA GateCounts == \A S : Gate!Cardinality(S) = Cardinality(S)
BY DEF Gate!Cardinality, Cardinality

\* The lengths are numbers.
LEMMA HistoryLengths ==
    ASSUME HistoryConfigured, HistoryTypes
    PROVE  /\ Len(records) \in Nat /\ Len(placed) \in Nat /\ Dropped \in Int
           /\ settings.maxRecords \in Nat \ {0} /\ now \in Nat
           /\ \A i \in 1 .. Len(placed) : placed[i].at \in Nat
           /\ \A i \in 1 .. Len(records) : records[i].at \in Nat
<1>1. Len(records) \in Nat /\ Len(placed) \in Nat /\ now \in Nat
  BY DEF HistoryTypes, HistoryConfigured
<1>2. settings.maxRecords \in Nat \ {0}
  BY DEF HistoryTypes, HistoryConfigured
<1> QED
  BY <1>1, <1>2, OrdersHaveTimes DEF HistoryTypes, Dropped

\* A window that is not full, and has no more room than the deque, has lost no
\* order: had one dropped out, the deque would be full of younger ones.
LEMMA RecentIsKept ==
    ASSUME HistoryConfigured, HistoryTypes, HistoryKept,
           NEW w \in Windows, w[2] <= settings.maxRecords,
           Gate!CountInWindow(w[1]) < w[2],
           NEW i \in 1 .. Len(placed), placed[i].at >= now - w[1]
    PROVE  i > Dropped
<1> DEFINE m == settings.maxRecords
<1>0. /\ Len(records) \in Nat /\ Len(placed) \in Nat /\ Dropped \in Int /\ m \in Nat \ {0}
      /\ now \in Nat /\ \A k \in 1 .. Len(placed) : placed[k].at \in Nat
  BY HistoryLengths
<1> SUFFICES ASSUME i <= Dropped PROVE FALSE
  BY <1>0
<1>1. w[1] \in Nat \ {0} /\ w[2] \in Nat
  BY DEF HistoryConfigured
<1>2. Len(records) = m /\ Dropped > 0 /\ Len(placed) = m + Dropped
  <2>1. Dropped > 0
    BY <1>0
  <2> QED
    BY <1>0, <2>1 DEF HistoryKept, Dropped
<1>3. ASSUME NEW k \in 1 .. m
      PROVE  records[k].at >= now - w[1]
  <2>1. k + Dropped \in 1 .. Len(placed) /\ i <= k + Dropped
    BY <1>0, <1>1, <1>2
  <2>2. placed[i].at <= placed[k + Dropped].at /\ records[k] = placed[k + Dropped]
    BY <1>2, <2>1 DEF HistoryKept
  <2>3. placed[i].at \in Nat /\ placed[k + Dropped].at \in Nat
    BY <1>0, <2>1
  <2> QED
    BY <1>0, <1>1, <2>2, <2>3
<1>4. Gate!Since(w[1]) = 1 .. m
  BY <1>2, <1>3 DEF Gate!Since
<1>5. Cardinality(1 .. m) = m
  <2> HIDE DEF m
  <2> QED BY <1>0, FS_Interval
<1> QED
  BY <1>0, <1>1, <1>4, <1>5, GateCounts DEF Gate!CountInWindow

\* Time only takes orders out of the windows.
LEMMA TickKeepsPassing ==
    ASSUME HistoryConfigured, HistoryTypes, StillPasses, Gate!Tick
    PROVE  StillPasses'
<1> USE DEF HistoryTypes
<1>1. UNCHANGED <<settings, records, proposal>> /\ now' = now + 1 /\ now \in Nat
  BY DEF Gate!Tick, HistoryConfigured, Gate!account
<1> SUFFICES ASSUME proposal # Gate!Free
             PROVE  ~Gate!OrderFrequency(proposal)' /\ ~Gate!Whipsaw(proposal)'
  BY <1>1 DEF StillPasses, Gate!HardCaps
<1>2. ~Gate!OrderFrequency(proposal) /\ ~Gate!Whipsaw(proposal)
  BY DEF StillPasses
<1>3. \A i \in 1 .. Len(records) : records[i].at \in Nat
  BY OrdersHaveTimes
<1>4. ASSUME NEW w \in Windows
      PROVE  Gate!CountInWindow(w[1])' < w[2]
  <2>1. w[1] \in Nat \ {0} /\ w[2] \in Nat
    BY DEF HistoryConfigured
  <2>2. Gate!Since(w[1])' \subseteq Gate!Since(w[1])
    BY <1>1, <1>3, <2>1 DEF Gate!Since
  <2>3. /\ IsFiniteSet(Gate!Since(w[1])) /\ Cardinality(Gate!Since(w[1])) \in Nat
        /\ Cardinality(Gate!Since(w[1])') \in Nat
    <3>1. Gate!Since(w[1]) \in SUBSET (1 .. Len(records)) /\ Gate!Since(w[1])' \in SUBSET (1 .. Len(records))
      BY <1>1 DEF Gate!Since
    <3> QED
      BY <3>1, CountedSetsAreFinite
  <2>4. Cardinality(Gate!Since(w[1])') <= Cardinality(Gate!Since(w[1]))
    BY <2>2, <2>3, FS_Subset
  <2>5. Cardinality(Gate!Since(w[1])) < w[2]
    BY <1>2, <2>1, <2>3, GateCounts DEF Gate!OrderFrequency, Gate!CountInWindow
  <2> QED
    BY <2>1, <2>3, <2>4, <2>5, GateCounts DEF Gate!CountInWindow
<1>5. ~Gate!OrderFrequency(proposal)'
  <2>1. ~(Len(records) >= MaxOrders)
    BY <1>2 DEF Gate!OrderFrequency
  <2>2. \A w \in Windows : ~(Gate!CountInWindow(w[1])' >= w[2])
    <3>1. ASSUME NEW w \in Windows
          PROVE  Gate!CountInWindow(w[1])' \in Nat /\ w[2] \in Nat
      <4>1. Gate!Since(w[1])' \in SUBSET (1 .. Len(records))
        BY <1>1 DEF Gate!Since
      <4> QED
        BY <4>1, CountedSetsAreFinite, GateCounts DEF Gate!CountInWindow, HistoryConfigured
    <3> QED
      BY <1>4, <3>1
  <2> QED
    BY <1>1, <2>1, <2>2 DEF Gate!OrderFrequency
<1>6. ~Gate!Whipsaw(proposal)'
  BY <1>1, <1>2, <1>3
     DEF Gate!Whipsaw, Gate!Lacks, Gate!HasRecent, Gate!Since, HistoryConfigured
<1> QED
  BY <1>5, <1>6

\* The order that is placed is the youngest; the deque drops the oldest when full.
LEMMA PlaceAppends ==
    ASSUME HistoryConfigured, HistoryTypes, HistoryKept, Gate!Place
    PROVE  /\ UNCHANGED <<settings, now>>
           /\ Len(placed') = Len(placed) + 1
           /\ \A i \in 1 .. Len(placed) : placed'[i] = placed[i]
           /\ placed'[Len(placed) + 1].at = now
           /\ placed'[Len(placed) + 1].symbol = proposal.symbol
           /\ placed'[Len(placed) + 1].side = proposal.side
           /\ proposal \in Gate!Intents
           /\ HistoryTypes' /\ HistoryKept'
<1> DEFINE record == [symbol |-> proposal.symbol, side |-> proposal.side, at |-> now]
           n == Len(placed)
           r == Len(records)
           m == settings.maxRecords
<1>1. proposal \in Gate!Intents /\ proposal' = Gate!Free /\ UNCHANGED <<settings, now>>
  BY DEF Gate!Place, HistoryTypes
<1>2. record \in PlacedOrders
  BY <1>1 DEF PlacedOrders, HistoryTypes, Gate!Intents
<1>3. /\ n \in Nat /\ r \in Nat /\ m \in Nat \ {0} /\ now \in Nat
      /\ \A i \in 1 .. n : placed[i].at \in Nat
  BY HistoryLengths
<1>4. placed' = Append(placed, record) /\ placed \in Seq(PlacedOrders)
  BY DEF Gate!Place, HistoryTypes
<1>5. /\ Len(placed') = n + 1 /\ placed' \in Seq(PlacedOrders)
      /\ \A i \in 1 .. n : placed'[i] = placed[i]
      /\ placed'[n + 1] = record
  BY <1>2, <1>4
<1>6. /\ records' \in Seq(PlacedOrders)
      /\ Len(records') = IF r < m THEN r + 1 ELSE m
      /\ \A k \in 1 .. Len(records') : records'[k] = placed'[k + (n + 1 - Len(records'))]
  <2>0. records \in Seq(PlacedOrders) /\ r <= m /\ r <= n
    BY <1>3 DEF HistoryTypes, HistoryKept, Dropped
  <2>1. CASE r < m
    <3>1. records' = Append(records, record) /\ r = n
      BY <1>3, <2>0, <2>1 DEF Gate!Place, HistoryKept, Dropped
    <3>2. /\ records' \in Seq(PlacedOrders) /\ Len(records') = r + 1
          /\ \A k \in 1 .. r : records'[k] = records[k]
          /\ records'[r + 1] = record
      BY <1>2, <2>0, <3>1
    <3>3. \A k \in 1 .. r : records[k] = placed[k]
      BY <1>3, <3>1 DEF HistoryKept, Dropped
    <3> QED
      BY <1>3, <1>5, <2>1, <3>1, <3>2, <3>3
  <2>2. CASE ~(r < m)
    <3>1. records' = Append(Tail(records), record) /\ r = m /\ records # <<>>
      BY <1>3, <2>0, <2>2 DEF Gate!Place
    <3>2. /\ Tail(records) \in Seq(PlacedOrders) /\ Len(Tail(records)) = m - 1
          /\ \A k \in 1 .. m - 1 : Tail(records)[k] = records[k + 1]
      BY <1>3, <2>0, <3>1
    <3>3. /\ records' \in Seq(PlacedOrders) /\ Len(records') = m
          /\ \A k \in 1 .. m - 1 : records'[k] = records[k + 1]
          /\ records'[m] = record
      BY <1>2, <1>3, <3>1, <3>2
    <3>4. ASSUME NEW k \in 1 .. m - 1
          PROVE  records[k + 1] = placed[k + 1 + (n - m)]
      <4>1. k + 1 \in 1 .. r
        BY <1>3, <3>1
      <4>2. records[k + 1] = placed[k + 1 + Dropped]
        BY <4>1 DEF HistoryKept
      <4> QED BY <3>1, <4>2 DEF Dropped
    <3>5. ASSUME NEW k \in 1 .. m
          PROVE  records'[k] = placed'[k + (n + 1 - m)]
      <4>1. CASE k = m
        BY <1>3, <1>5, <3>3, <4>1
      <4>2. CASE k \in 1 .. m - 1
        <5>1. \A x, y, z \in Nat : x <= y /\ z \in 1 .. x - 1 => /\ z + (y + 1 - x) = z + 1 + (y - x)
                                                            /\ z + (y + 1 - x) \in 1 .. y
          OBVIOUS
        <5>2. m \in Nat /\ k \in Nat /\ m <= n
          BY <1>3, <2>0, <3>1
        <5>3. k + (n + 1 - m) = k + 1 + (n - m) /\ k + (n + 1 - m) \in 1 .. n
          BY <1>3, <4>2, <5>1, <5>2
        <5> QED
          BY <1>5, <3>3, <3>4, <4>2, <5>3
      <4> QED
        BY <1>3, <4>1, <4>2
    <3> QED
      BY <2>2, <3>3, <3>5
  <2> QED
    BY <2>1, <2>2
<1>7. HistoryTypes'
  BY <1>1, <1>5, <1>6 DEF HistoryTypes
<1>8. HistoryKept'
  <2>1. Dropped' = n + 1 - Len(records')
    BY <1>5 DEF Dropped
  <2>2. /\ Len(records') <= m /\ Dropped' >= 0
        /\ Dropped' > 0 => Len(records') = m
    BY <1>3, <1>6, <2>1 DEF HistoryKept, Dropped
  <2>3. \A k \in 1 .. Len(records') : records'[k] = placed'[k + Dropped']
    BY <1>6, <2>1
  <2>4. /\ \A i, j \in 1 .. Len(placed') : i <= j => placed'[i].at <= placed'[j].at
        /\ \A i \in 1 .. Len(placed') : placed'[i].at <= now'
    <3>1. /\ \A i, j \in 1 .. n : i <= j => placed[i].at <= placed[j].at
          /\ \A i \in 1 .. n : placed[i].at <= now
      BY DEF HistoryKept
    <3>2. /\ \A i \in 1 .. n : placed'[i].at = placed[i].at
          /\ placed'[n + 1].at = now
      BY <1>5
    <3>3. \A i \in 1 .. n + 1 : i = n + 1 \/ i \in 1 .. n
      BY <1>3
    <3> HIDE DEF record
    <3>4. \A i \in 1 .. n + 1 : placed'[i].at <= now
      BY <1>3, <3>1, <3>2, <3>3
    <3>5. \A i, j \in 1 .. n + 1 : i <= j => placed'[i].at <= placed'[j].at
      <4> SUFFICES ASSUME NEW i \in 1 .. n + 1, NEW j \in 1 .. n + 1, i <= j
                   PROVE  placed'[i].at <= placed'[j].at
        OBVIOUS
      <4>1. CASE j = n + 1
        BY <3>2, <3>4, <4>1
      <4>2. CASE j \in 1 .. n
        <5>1. i \in 1 .. n
          BY <1>3, <4>2
        <5> QED BY <3>1, <3>2, <4>2, <5>1
      <4> QED BY <3>3, <4>1, <4>2
    <3> QED BY <1>1, <1>5, <3>4, <3>5
  <2> QED
    BY <1>1, <2>2, <2>3, <2>4 DEF HistoryKept
<1> QED
  BY <1>1, <1>5, <1>7, <1>8

\* One more order fits into every window that holds fewer than its threshold.
LEMMA PlaceKeepsFrequency ==
    ASSUME HistoryConfigured, HistoryInv, Gate!Place
    PROVE  Gate!FrequencyHolds' /\ Gate!SessionHolds'
<1> USE DEF HistoryInv
<1> DEFINE n == Len(placed)
<1>1. proposal # Gate!Free /\ ~Gate!OrderFrequency(proposal)
  BY DEF Gate!Place, StillPasses
<1>2. /\ n \in Nat /\ Len(records) \in Nat /\ now \in Nat /\ settings.maxRecords \in Nat
      /\ \A i \in 1 .. n : placed[i].at \in Nat
  BY HistoryLengths
<1>3. /\ UNCHANGED settings /\ Len(placed') = n + 1
      /\ \A i \in 1 .. n : placed'[i] = placed[i]
      /\ placed'[n + 1].at = now
  BY PlaceAppends
<1>4. ASSUME NEW w \in Windows, NEW t \in 0 .. MaxTime, w[2] <= settings.maxRecords
      PROVE  Cardinality({i \in 1 .. Len(placed') : placed'[i].at \in (t - w[1]) .. t}) <= w[2]
  <2> DEFINE before == {i \in 1 .. n : placed[i].at \in (t - w[1]) .. t}
             after == {i \in 1 .. Len(placed') : placed'[i].at \in (t - w[1]) .. t}
             since == Gate!Since(w[1])
             shifted == [i \in before |-> i - Dropped]
  <2>1. w[1] \in Nat \ {0} /\ w[2] \in Nat /\ t \in Nat
    BY DEF HistoryConfigured
  <2>2. /\ IsFiniteSet(before) /\ Cardinality(before) \in Nat
        /\ IsFiniteSet(since) /\ Cardinality(since) \in Nat
    <3>1. before \in SUBSET (1 .. Len(placed)) /\ since \in SUBSET (1 .. Len(records))
      BY DEF Gate!Since
    <3> QED
      BY <1>2, <3>1, CountedSetsAreFinite
  <2>3. Cardinality(before) <= w[2]
    <3> HIDE DEF before
    <3> QED
      BY <1>4, GateCounts DEF before, Gate!FrequencyHolds
  <2>4. CASE now \notin (t - w[1]) .. t
    <3>1. after = before
      BY <1>2, <1>3, <2>4
    <3> QED
      BY <2>3, <3>1
  <2>5. CASE now \in (t - w[1]) .. t
    <3>1. after = before \union {n + 1}
      BY <1>2, <1>3, <2>5
    <3>2. Gate!CountInWindow(w[1]) < w[2] /\ Cardinality(since) < w[2]
      BY <1>1, <2>1, <2>2, GateCounts DEF Gate!OrderFrequency, Gate!CountInWindow
    <3>3. ASSUME NEW i \in before
          PROVE  i - Dropped \in since
      <4>1. i \in 1 .. n /\ placed[i].at >= now - w[1]
        BY <1>2, <2>1, <2>5
      <4>2. i > Dropped
        BY <1>4, <3>2, <4>1, RecentIsKept
      <4>3. i - Dropped \in 1 .. Len(records) /\ Dropped \in Int
        BY <1>2, <4>1, <4>2, HistoryLengths DEF Dropped
      <4>4. records[i - Dropped] = placed[i]
        BY <4>1, <4>3 DEF HistoryKept
      <4> QED
        BY <4>1, <4>3, <4>4 DEF Gate!Since
    <3>4. shifted \in Injection(before, since)
      <4>1. shifted \in [before -> since]
        BY <3>3
      <4>2. \A i, j \in before : shifted[i] = shifted[j] => i = j
        BY HistoryLengths
      <4> QED
        BY <4>1, <4>2 DEF Injection, IsInjective
    <3> HIDE DEF before, after, since, shifted
    <3>5. Cardinality(before) <= Cardinality(since)
      BY <2>2, <3>4, FS_Injection
    <3>6. Cardinality(before \union {n + 1})
            = IF n + 1 \in before THEN Cardinality(before) ELSE Cardinality(before) + 1
      BY <2>2, FS_AddElement
    <3>7. Cardinality(after) <= w[2]
      BY <2>1, <2>2, <3>1, <3>2, <3>5, <3>6
    <3> QED
      BY <3>7 DEF after
  <2> QED
    BY <2>4, <2>5
<1>5. Gate!FrequencyHolds'
  BY <1>3, <1>4, GateCounts DEF Gate!FrequencyHolds
<1>6. Gate!SessionHolds'
  <2> SUFFICES ASSUME MaxOrders <= settings.maxRecords PROVE Len(placed') <= MaxOrders
    BY <1>3 DEF Gate!SessionHolds
  <2>1. Len(records) < MaxOrders /\ MaxOrders \in Nat
    BY <1>1, <1>2 DEF Gate!OrderFrequency, HistoryConfigured
  <2>2. Dropped = 0
    BY <1>2, <2>1 DEF HistoryKept, Dropped
  <2> QED
    BY <1>2, <1>3, <2>1, <2>2 DEF Dropped
<1> QED
  BY <1>5, <1>6

\* The order that is placed is not the reversal of a recent one.
LEMMA PlaceKeepsNoWhipsaw ==
    ASSUME HistoryConfigured, HistoryInv, Gate!Place
    PROVE  Gate!NoWhipsaw'
<1> USE DEF HistoryInv
<1> DEFINE n == Len(placed)
<1>1. /\ proposal # Gate!Free /\ ~Gate!OrderFrequency(proposal) /\ ~Gate!Whipsaw(proposal)
      /\ proposal \in Gate!Intents
  BY PlaceAppends DEF Gate!Place, StillPasses
<1>2. /\ n \in Nat /\ Len(records) \in Nat /\ now \in Nat /\ Dropped \in Int
      /\ \A i \in 1 .. n : placed[i].at \in Nat
  BY HistoryLengths
<1>3. /\ UNCHANGED settings /\ Len(placed') = n + 1
      /\ \A i \in 1 .. n : placed'[i] = placed[i]
      /\ placed'[n + 1].at = now
      /\ placed'[n + 1].symbol = proposal.symbol /\ placed'[n + 1].side = proposal.side
  BY PlaceAppends
<1> SUFFICES ASSUME Gate!CooldownRemembered
             PROVE  Gate!NoWhipsaw'
  BY <1>3 DEF Gate!NoWhipsaw, Gate!CooldownRemembered, Gate!Lacks
<1>4. PICK w \in Windows : w[1] >= ReversalCooldown /\ w[2] <= settings.maxRecords
  BY DEF Gate!CooldownRemembered
<1>5. /\ w[1] \in Nat /\ w[2] \in Nat /\ ReversalCooldown \in Nat \ {0}
  BY DEF HistoryConfigured
<1>6. Gate!CountInWindow(w[1]) < w[2]
  <2>1. Gate!Since(w[1]) \in SUBSET (1 .. Len(records))
    BY DEF Gate!Since
  <2>2. Gate!CountInWindow(w[1]) \in Nat
    BY <1>2, <2>1, CountedSetsAreFinite, GateCounts DEF Gate!CountInWindow
  <2> QED
    BY <1>1, <1>5, <2>2 DEF Gate!OrderFrequency
<1>7. ASSUME NEW i \in 1 .. n,
             placed[i].symbol = proposal.symbol, placed[i].side # proposal.side
      PROVE  now - placed[i].at > ReversalCooldown
  <2> SUFFICES ASSUME placed[i].at >= now - ReversalCooldown PROVE FALSE
    BY <1>2, <1>5
  <2>1. placed[i].at >= now - w[1]
    BY <1>2, <1>4, <1>5
  <2>2. i > Dropped
    BY <1>4, <1>6, <2>1, RecentIsKept
  <2>3. i - Dropped \in 1 .. Len(records) /\ records[i - Dropped] = placed[i]
    <3>1. i - Dropped \in 1 .. Len(records)
      BY <1>2, <2>2 DEF Dropped
    <3> QED
      BY <1>2, <3>1 DEF HistoryKept
  <2>4. placed[i].side = Gate!Opposite(proposal.side)
    BY <1>1, <1>7, OrdersHaveTimes DEF Gate!Opposite, HistoryTypes, Gate!Sides, Gate!Intents
  <2>5. i - Dropped \in Gate!Since(ReversalCooldown)
    BY <2>3 DEF Gate!Since
  <2>6. Gate!HasRecent(proposal.symbol, Gate!Opposite(proposal.side), ReversalCooldown)
    BY <1>5, <1>7, <2>3, <2>4, <2>5 DEF Gate!HasRecent
  <2> QED
    BY <1>1, <2>6 DEF Gate!Whipsaw, Gate!CooldownRemembered
<1>8. ASSUME NEW i \in 1 .. n + 1, NEW j \in 1 .. n + 1, i < j,
             placed'[i].symbol = placed'[j].symbol, placed'[i].side # placed'[j].side
      PROVE  placed'[j].at - placed'[i].at > ReversalCooldown
  <2>0. i \in 1 .. n /\ placed'[i] = placed[i]
    BY <1>2, <1>3, <1>8
  <2>1. CASE j = n + 1
    BY <1>3, <1>7, <1>8, <2>0, <2>1
  <2>2. CASE j \in 1 .. n
    BY <1>2, <1>3, <1>8, <2>0, <2>2 DEF Gate!NoWhipsaw
  <2> QED
    BY <1>2, <2>1, <2>2
<1> QED
  BY <1>3, <1>8 DEF Gate!NoWhipsaw

\* Whatever else happens leaves the history alone.
LEMMA HistoryInvStep ==
    ASSUME HistoryConfigured, HistoryInv, [Gate!Next]_(Gate!vars)
    PROVE  HistoryInv'
<1> USE DEF HistoryInv
<1>1. ASSUME NEW i \in Gate!Intents, Gate!Ask(i)
      PROVE  HistoryInv'
  <2>1. UNCHANGED <<settings, now, records, placed>>
    BY <1>1 DEF Gate!Ask, Gate!account
  <2>2. proposal' = Gate!Free \/ (proposal' = i /\ Gate!Evaluate(i) = "none")
    BY <1>1 DEF Gate!Ask
  <2>3. StillPasses'
    <3>1. CASE proposal' = Gate!Free
      BY <3>1 DEF StillPasses, Gate!Free
    <3>2. CASE proposal' = i /\ Gate!Evaluate(i) = "none"
      <4>1. /\ ~Gate!OrderFrequency(i) /\ ~Gate!Whipsaw(i)
            /\ settings.missing \intersect Gate!HardCaps = {}
        BY <3>2, AllChecksPass
      <4> QED
        BY <2>1, <3>2, <4>1
           DEF StillPasses, Gate!OrderFrequency, Gate!Whipsaw, Gate!CountInWindow,
               Gate!HasRecent, Gate!Since, Gate!Opposite, Gate!Lacks, Gate!HardCaps
    <3> QED
      BY <2>2, <3>1, <3>2
  <2>4. HistoryTypes'
    BY <2>1, <2>2 DEF HistoryTypes, Gate!Free
  <2>5. /\ HistoryKept' /\ Gate!FrequencyHolds' /\ Gate!NoWhipsaw'
        /\ Gate!SessionHolds' /\ Gate!NothingUncapped'
    BY <2>1 DEF HistoryKept, Dropped, Gate!FrequencyHolds, Gate!NoWhipsaw, Gate!SessionHolds,
                Gate!NothingUncapped, Gate!CooldownRemembered, Gate!Lacks, Gate!HardCaps
  <2> QED
    BY <2>3, <2>4, <2>5
<1>2. CASE Gate!Place
  <2>1. proposal' = Gate!Free
    BY <1>2 DEF Gate!Place
  <2>2. StillPasses'
    BY <2>1 DEF StillPasses, Gate!Free
  <2>3. Gate!NothingUncapped'
    <3>1. settings.missing \intersect Gate!HardCaps = {} /\ UNCHANGED settings
      BY <1>2, PlaceAppends DEF Gate!Place, StillPasses
    <3> QED
      BY <3>1 DEF Gate!NothingUncapped, Gate!HardCaps
  <2> QED
    BY <1>2, <2>2, <2>3, PlaceAppends, PlaceKeepsFrequency, PlaceKeepsNoWhipsaw
<1>3. CASE Gate!Tick
  <2>1. /\ UNCHANGED <<settings, records, proposal, placed>>
        /\ now' \in 0 .. MaxTime /\ now' > now
    BY <1>3 DEF Gate!Tick, Gate!account, HistoryTypes, HistoryConfigured
  <2>2. /\ HistoryTypes' /\ Gate!FrequencyHolds' /\ Gate!NoWhipsaw'
        /\ Gate!SessionHolds' /\ Gate!NothingUncapped'
    BY <2>1 DEF HistoryTypes, Gate!FrequencyHolds, Gate!NoWhipsaw, Gate!Free, Gate!SessionHolds,
                Gate!NothingUncapped, Gate!CooldownRemembered, Gate!Lacks, Gate!HardCaps
  <2>3. HistoryKept'
    <3>1. \A i \in 1 .. Len(placed) : placed[i].at <= now'
      BY <2>1, HistoryLengths DEF HistoryKept, HistoryTypes
    <3> QED
      BY <2>1, <3>1 DEF HistoryKept, Dropped
  <2> QED
    BY <1>3, <2>2, <2>3, TickKeepsPassing
<1>4. ASSUME Gate!Fill \/ Gate!World \/ UNCHANGED Gate!vars
      PROVE  HistoryInv'
  <2>1. UNCHANGED <<settings, now, records, proposal, placed>>
    BY <1>4 DEF Gate!Fill, Gate!World, Gate!vars, Gate!account
  <2>2. StillPasses'
    BY <2>1 DEF StillPasses, Gate!OrderFrequency, Gate!Whipsaw, Gate!CountInWindow,
                Gate!HasRecent, Gate!Since, Gate!Opposite, Gate!Free, Gate!Lacks, Gate!HardCaps
  <2> QED
    BY <2>1, <2>2
       DEF HistoryTypes, HistoryKept, Dropped, Gate!FrequencyHolds, Gate!NoWhipsaw, Gate!Free,
           Gate!SessionHolds, Gate!NothingUncapped, Gate!CooldownRemembered, Gate!Lacks,
           Gate!HardCaps
<1> QED
  BY <1>1, <1>2, <1>3, <1>4 DEF Gate!Next

\* It holds at the start and every step keeps it.
LEMMA HistoryInvHolds == ASSUME HistoryConfigured PROVE Gate!Spec => []HistoryInv
<1>1. Gate!Init => HistoryInv
  <2> SUFFICES ASSUME Gate!Init PROVE HistoryInv
    OBVIOUS
  <2>1. Gate!FrequencyHolds
    <3>1. ASSUME NEW w \in Windows, NEW t \in 0 .. MaxTime
          PROVE  Cardinality({i \in 1 .. Len(placed) : placed[i].at \in (t - w[1]) .. t}) <= w[2]
      <4>1. {i \in 1 .. Len(placed) : placed[i].at \in (t - w[1]) .. t} = {}
        BY DEF Gate!Init
      <4>2. Cardinality({i \in 1 .. Len(placed) : placed[i].at \in (t - w[1]) .. t}) = 0
        BY <4>1, FS_EmptySet
      <4> QED
        BY <4>2 DEF HistoryConfigured
    <3> QED
      BY <3>1, GateCounts DEF Gate!FrequencyHolds
  <2>2. /\ placed = <<>> /\ records = <<>> /\ settings \in Settings /\ now = 0
        /\ proposal = Gate!Free
    BY DEF Gate!Init
  <2>3. HistoryTypes /\ StillPasses
    BY <2>2 DEF HistoryTypes, StillPasses, HistoryConfigured
  <2>4. HistoryKept
    BY <2>2, <2>3, HistoryLengths DEF HistoryKept, Dropped
  <2>5. Gate!SessionHolds /\ Gate!NothingUncapped /\ Gate!NoWhipsaw
    BY <2>2 DEF Gate!SessionHolds, Gate!NothingUncapped, Gate!NoWhipsaw, HistoryConfigured
  <2> QED
    BY <2>1, <2>3, <2>4, <2>5 DEF HistoryInv
<1>2. HistoryInv /\ [Gate!Next]_(Gate!vars) => HistoryInv'
  BY HistoryInvStep
<1> QED
  BY <1>1, <1>2, PTL DEF Gate!Spec

\* An approved order is placed later than it was checked, and the deque drops the
\* oldest: still no window ever holds more orders than its threshold, nor a session
\* than its limit, if the deque is as long as that number, and no order reverses
\* another one of its symbol within the cooldown, if a window as long as the
\* cooldown is (risk/_checks.py, risk/_history.py).
THEOREM OrderHistoryHolds ==
    ASSUME HistoryConfigured
    PROVE  Gate!Spec => [](Gate!FrequencyHolds /\ Gate!SessionHolds /\ Gate!NoWhipsaw)
  BY HistoryInvHolds, PTL DEF HistoryInv
-----------------------------------------------------------------------------
(* What is held and on order *)

\* A session starts above its reserve; amounts and limits are not negative.
LimitsConfigured ==
    /\ Notionals \subseteq Nat /\ PerOrder \in Nat /\ PerSymbol \in Nat
    /\ MaxOpen \in Nat \ {0} /\ CashReserve \in Int /\ Cash \in Int /\ CashReserve <= Cash

\* The worth of orders is a sum over them.
LEMMA OrderedIsTotal ==
    ASSUME NEW S, IsFiniteSet(S), NEW w, \A o \in S : w[o] = o.notional
    PROVE  Gate!Ordered(S) = TotalOf(w, S)
<1> DEFINE Worths(it) == it = [s \in SUBSET S |-> IF s = {} THEN 0
                                 ELSE it[s \ {First(s)}] + First(s).notional]
<1>1. Gate!Ordered(S) = (CHOOSE it : Worths(it))[S]
  BY DEF Gate!Ordered, Gate!FoldSet, Gate!MapThenFoldSet, First
<1>2. \A s \in SUBSET S : s # {} => w[First(s)] = First(s).notional
  BY DEF First
<1>3. \A it : Worths(it) <=> Sums(it, S, w)
  BY <1>2 DEF Sums
<1>4. \E it : Worths(it)
  BY <1>3, SumsExist
<1>5. PICK f : Worths(f) /\ Gate!Ordered(S) = f[S]
  BY <1>1, <1>4
<1>6. PICK g : Sums(g, S, w) /\ TotalOf(w, S) = g[S]
  BY TotalIsSum
<1>7. Sums(f, S, w) /\ S \in SUBSET S
  BY <1>3, <1>5
<1> QED BY <1>5, <1>6, <1>7, SumsAgree

\* So it grows by the worth of an order that is added.
LEMMA OrderedAdds ==
    ASSUME NEW S, IsFiniteSet(S), \A o \in S : o.notional \in Int
    PROVE  /\ Gate!Ordered(S) \in Int
           /\ S = {} => Gate!Ordered(S) = 0
           /\ \A o \in S : Gate!Ordered(S) = Gate!Ordered(S \ {o}) + o.notional
<1> DEFINE w == [o \in S |-> o.notional]
<1>1. Gate!Ordered(S) = TotalOf(w, S)
  BY OrderedIsTotal
<1>2. \A o \in S : Gate!Ordered(S \ {o}) = TotalOf(w, S \ {o})
  BY OrderedIsTotal, FS_RemoveElement
<1>3. \A o \in S : w[o] \in Int /\ w[o] = o.notional
  OBVIOUS
<1> HIDE DEF w
<1> QED BY <1>1, <1>2, <1>3, TotalAdds

\* And is at most as many full orders.
LEMMA OrderedBounded ==
    ASSUME NEW S, IsFiniteSet(S), NEW b \in Nat, NEW n \in Nat, Cardinality(S) <= n,
           \A o \in S : o.notional \in Int /\ o.notional <= b
    PROVE  Gate!Ordered(S) <= n * b
<1> DEFINE w == [o \in S |-> o.notional]
<1>1. Gate!Ordered(S) = TotalOf(w, S)
  BY OrderedIsTotal
<1>2. \A o \in S : w[o] \in Int /\ w[o] <= b
  OBVIOUS
<1> HIDE DEF w
<1>3. TotalOf(w, S) <= Cardinality(S) * b /\ TotalOf(w, S) \in Int
  BY <1>2, TotalBounded, TotalAdds
<1>4. Cardinality(S) \in Nat
  BY FS_CardinalityType
<1>5. Cardinality(S) * b <= n * b /\ Cardinality(S) * b \in Int /\ n * b \in Int
  BY <1>4, ProductGrows
<1> QED BY <1>1, <1>3, <1>5

Slack == (MaxOpen - 1) * PerOrder
BuysOf(s) == {o \in Gate!OpenBuys : o.symbol = s}
Exposed(s) == positions[s] + Gate!Ordered(BuysOf(s))
Left == cash - Gate!Ordered(Gate!OpenBuys)
Reserved == ~Gate!Lacks("cash_reserve")

AccountTypes ==
    /\ \E S : placed \in Seq(S)
    /\ cash \in Int /\ positions \in [Stocks -> Int]
    /\ IsFiniteSet(open)
    /\ \A o \in open : /\ o.id \in 1 .. Len(placed) /\ o.symbol \in Stocks
                       /\ o.notional \in 0 .. PerOrder
    /\ proposal \in Gate!Intents \union {Gate!Free}

\* What the gate let through fits, with everything on order, until it is placed.
StillFits ==
    proposal # Gate!Free =>
      /\ proposal.notional \in 0 .. PerOrder
      /\ proposal.side = "buy" =>
           /\ Exposed(proposal.symbol) + proposal.notional <= PerSymbol + Slack
           /\ Reserved => Left - proposal.notional >= CashReserve - Slack

ExposureInv == AccountTypes /\ StillFits /\ Gate!ExposureBounded /\ Gate!CashBounded

\* The buys on order are finitely many, with worths.
LEMMA BuysAreFinite ==
    ASSUME LimitsConfigured, AccountTypes
    PROVE  /\ IsFiniteSet(Gate!OpenBuys) /\ \A o \in Gate!OpenBuys : o.notional \in Int
           /\ \A s : IsFiniteSet(BuysOf(s)) /\ \A o \in BuysOf(s) : o.notional \in Int
           /\ Gate!Ordered(Gate!OpenBuys) \in Int /\ Left \in Int
           /\ \A s \in Stocks : Gate!Ordered(BuysOf(s)) \in Int /\ Exposed(s) \in Int
<1>1. Gate!OpenBuys \in SUBSET open /\ \A s : BuysOf(s) \in SUBSET open
  BY DEF Gate!OpenBuys, BuysOf
<1>2. /\ IsFiniteSet(Gate!OpenBuys) /\ \A s : IsFiniteSet(BuysOf(s))
      /\ \A o \in open : o.notional \in Int
  BY <1>1, FS_Subset DEF AccountTypes, LimitsConfigured
<1>3. Gate!Ordered(Gate!OpenBuys) \in Int /\ \A s : Gate!Ordered(BuysOf(s)) \in Int
  BY <1>1, <1>2, OrderedAdds
<1> QED BY <1>1, <1>2, <1>3 DEF Left, Exposed, AccountTypes

\* What the gate lets through fits.
LEMMA AskFits ==
    ASSUME LimitsConfigured, ExposureInv, NEW i \in Gate!Intents, Gate!Ask(i)
    PROVE  ExposureInv'
<1>1. /\ UNCHANGED <<settings, placed, cash, positions, open>>
      /\ proposal' = Gate!Free \/ (proposal' = i /\ Gate!Evaluate(i) = "none")
  BY DEF Gate!Ask, Gate!account
<1>2. AccountTypes'
  BY <1>1 DEF ExposureInv, AccountTypes
<1>3. /\ Gate!ExposureBounded' /\ Gate!CashBounded'
  BY <1>1 DEF ExposureInv, Gate!ExposureBounded, Gate!CashBounded, Gate!OpenBuys, Gate!Lacks
<1>4. ASSUME proposal' # Gate!Free
      PROVE  /\ i.notional \in 0 .. PerOrder
             /\ i.side = "buy" => /\ Exposed(i.symbol) + i.notional <= PerSymbol + Slack
                                  /\ Reserved => Left - i.notional >= CashReserve - Slack
  <2>1. ~Gate!Capacity(i) /\ ~Gate!PositionLimits(i)
    BY <1>1, <1>4, AllChecksPass
  <2>2. i.notional \in Nat /\ i.symbol \in Stocks
    BY DEF Gate!Intents, LimitsConfigured
  <2>3. i.notional \in 0 .. PerOrder
    BY <2>1, <2>2 DEF Gate!Capacity, LimitsConfigured
  <2>4. CASE i.side = "buy"
    <3>1. /\ positions[i.symbol] + i.notional <= PerSymbol
          /\ Reserved => cash - i.notional >= CashReserve
          /\ positions[i.symbol] \in Int /\ cash \in Int
      BY <2>1, <2>2, <2>4 DEF Gate!Capacity, Reserved, LimitsConfigured, ExposureInv, AccountTypes
    <3>2. Cardinality(open) <= MaxOpen - 1 /\ MaxOpen - 1 \in Nat
      <4>1. IsFiniteSet(open) /\ Cardinality(open) \in Nat
        BY FS_CardinalityType DEF ExposureInv, AccountTypes
      <4>2. ~ (Cardinality(open) >= MaxOpen)
        BY <2>1, GateCounts DEF Gate!PositionLimits
      <4> QED BY <4>1, <4>2 DEF LimitsConfigured
    <3>3. ASSUME NEW S \in SUBSET open PROVE Gate!Ordered(S) <= Slack /\ Gate!Ordered(S) \in Int
      <4>1. /\ IsFiniteSet(S) /\ Cardinality(S) <= MaxOpen - 1
            /\ \A o \in S : o.notional \in Int /\ o.notional <= PerOrder
        <5>1. IsFiniteSet(S) /\ Cardinality(S) <= Cardinality(open)
          BY FS_Subset DEF ExposureInv, AccountTypes
        <5>2. Cardinality(S) \in Nat /\ Cardinality(open) \in Nat
          BY <5>1, FS_CardinalityType DEF ExposureInv, AccountTypes
        <5> QED BY <3>2, <5>1, <5>2 DEF ExposureInv, AccountTypes, LimitsConfigured
      <4>2. PerOrder \in Nat
        BY DEF LimitsConfigured
      <4> QED BY <3>2, <4>1, <4>2, OrderedBounded, OrderedAdds DEF Slack
    <3>4. BuysOf(i.symbol) \in SUBSET open /\ Gate!OpenBuys \in SUBSET open
      BY DEF BuysOf, Gate!OpenBuys
    <3>5. Slack \in Int /\ PerSymbol \in Int /\ CashReserve \in Int
      BY <3>2 DEF Slack, LimitsConfigured
    <3> QED
      BY <2>2, <2>3, <3>1, <3>3, <3>4, <3>5 DEF Exposed, Left
  <2> QED BY <2>3, <2>4
<1>5. \A s : Exposed(s)' = Exposed(s) /\ Left' = Left /\ Reserved' = Reserved
  BY <1>1 DEF Exposed, Left, BuysOf, Gate!OpenBuys, Reserved, Gate!Lacks
<1>6. StillFits'
  <2>1. CASE proposal' = Gate!Free
    BY <2>1 DEF StillFits, Gate!Free
  <2>2. CASE proposal' # Gate!Free
    <3>1. proposal' = i /\ Exposed(i.symbol)' = Exposed(i.symbol) /\ Left' = Left
      BY <1>1, <1>5, <2>2
    <3>2. Reserved' => Reserved
      BY <1>5
    <3>3. /\ proposal'.notional \in 0 .. PerOrder
          /\ proposal'.side = "buy" =>
               /\ Exposed(i.symbol)' + proposal'.notional <= PerSymbol + Slack
               /\ Reserved' => Left' - proposal'.notional >= CashReserve - Slack
      BY <1>4, <2>2, <3>1, <3>2
    <3>4. Exposed(proposal.symbol)' = Exposed(i.symbol)'
      BY <3>1 DEF Exposed, BuysOf
    <3> HIDE DEF Exposed, Left, Reserved
    <3> QED BY <3>3, <3>4 DEF StillFits
  <2> QED BY <2>1, <2>2
<1> QED BY <1>2, <1>3, <1>6 DEF ExposureInv

\* The invariant says so of what is exposed and left.
LEMMA ExposureSaid ==
    /\ Gate!ExposureBounded <=> \A s \in Stocks : Exposed(s) <= PerSymbol + Slack
    /\ Gate!CashBounded <=> (Reserved => Left >= CashReserve - Slack)
BY DEF Gate!ExposureBounded, Gate!CashBounded, Exposed, Left, BuysOf, Slack, Reserved

\* An order that is placed is new, and adds its worth if it buys.
LEMMA PlaceFits ==
    ASSUME LimitsConfigured, ExposureInv, Gate!Place
    PROVE  ExposureInv'
<1>1. PICK new, record :
        /\ new = [id |-> Len(placed) + 1, symbol |-> proposal.symbol,
                  side |-> proposal.side, notional |-> proposal.notional]
        /\ proposal # Gate!Free /\ proposal' = Gate!Free /\ UNCHANGED <<settings, cash, positions>>
        /\ open' = open \union {new} /\ placed' = Append(placed, record)
  BY DEF Gate!Place
<1>2. /\ Len(placed') = Len(placed) + 1 /\ Len(placed) \in Nat
      /\ \E S : placed' \in Seq(S)
  <2>1. PICK S : placed \in Seq(S)
    BY DEF ExposureInv, AccountTypes
  <2>2. placed \in Seq(S \union {record}) /\ record \in S \union {record}
    BY <2>1, SeqMonotonic
  <2>3. placed' \in Seq(S \union {record}) /\ Len(placed') = Len(placed) + 1
        /\ Len(placed) \in Nat
    BY <1>1, <2>2
  <2> QED BY <2>3
<1>3. /\ new.symbol \in Stocks /\ new.notional \in 0 .. PerOrder
      /\ new.symbol = proposal.symbol /\ new.notional = proposal.notional
      /\ new.side = proposal.side /\ new.id = Len(placed) + 1
  BY <1>1 DEF ExposureInv, AccountTypes, StillFits, Gate!Intents
<1>4. new \notin open
  <2>1. \A o \in open : o.id \in 1 .. Len(placed)
    BY DEF ExposureInv, AccountTypes
  <2>2. new.id \notin 1 .. Len(placed)
    BY <1>2, <1>3
  <2> QED BY <2>1, <2>2
<1>5. AccountTypes'
  <2>1. \A o \in open' : /\ o.id \in 1 .. Len(placed') /\ o.symbol \in Stocks
                         /\ o.notional \in 0 .. PerOrder
    BY <1>1, <1>2, <1>3 DEF ExposureInv, AccountTypes
  <2>2. cash' \in Int /\ positions' \in [Stocks -> Int] /\ IsFiniteSet(open')
    BY <1>1, FS_AddElement DEF ExposureInv, AccountTypes
  <2> QED BY <1>1, <1>2, <2>1, <2>2 DEF AccountTypes
<1>6. /\ IsFiniteSet(Gate!OpenBuys') /\ \A o \in Gate!OpenBuys' : o.notional \in Int
      /\ \A s : IsFiniteSet(BuysOf(s)') /\ \A o \in BuysOf(s)' : o.notional \in Int
  <2>1. Gate!OpenBuys' \in SUBSET open' /\ \A s : BuysOf(s)' \in SUBSET open'
    BY DEF Gate!OpenBuys, BuysOf
  <2>2. IsFiniteSet(open') /\ \A o \in open' : o.notional \in Int
    BY <1>5 DEF AccountTypes, LimitsConfigured
  <2> QED BY <2>1, <2>2, FS_Subset
<1>7. /\ \A s \in Stocks : Exposed(s) <= PerSymbol + Slack /\ Exposed(s) \in Int
      /\ Reserved => Left >= CashReserve - Slack
      /\ Left \in Int /\ Reserved' = Reserved
  BY <1>1, BuysAreFinite, ExposureSaid DEF ExposureInv, Reserved, Gate!Lacks
<1>8. CASE new.side = "buy"
  <2>1. Gate!OpenBuys' \ {new} = Gate!OpenBuys /\ new \in Gate!OpenBuys'
    BY <1>1, <1>4, <1>8 DEF Gate!OpenBuys
  <2>2. Gate!Ordered(Gate!OpenBuys') = Gate!Ordered(Gate!OpenBuys) + new.notional
    BY <1>6, <2>1, OrderedAdds
  <2>3. Left' = Left - new.notional
    BY <1>1, <1>3, <2>2, BuysAreFinite DEF Left, ExposureInv, AccountTypes
  <2>4. ASSUME NEW s \in Stocks
        PROVE  Exposed(s)' <= PerSymbol + Slack
    <3>1. CASE s = new.symbol
      <4>1. BuysOf(s)' \ {new} = BuysOf(s) /\ new \in BuysOf(s)'
        BY <1>1, <1>4, <1>8, <3>1 DEF Gate!OpenBuys, BuysOf
      <4>2. Gate!Ordered(BuysOf(s)') = Gate!Ordered(BuysOf(s)) + new.notional
        BY <1>6, <4>1, OrderedAdds
      <4>3. Exposed(s)' = Exposed(s) + new.notional
        BY <1>1, <1>3, <4>2, BuysAreFinite DEF Exposed, ExposureInv, AccountTypes
      <4>4. Exposed(s) + new.notional <= PerSymbol + Slack
        BY <1>1, <1>3, <1>8, <3>1 DEF ExposureInv, StillFits
      <4> QED BY <4>3, <4>4
    <3>2. CASE s # new.symbol
      <4>1. BuysOf(s)' = BuysOf(s)
        BY <1>1, <3>2 DEF Gate!OpenBuys, BuysOf
      <4>2. Exposed(s)' = Exposed(s)
        BY <1>1, <4>1 DEF Exposed
      <4> QED BY <1>7, <4>2
    <3> QED BY <3>1, <3>2
  <2>5. Reserved' => Left' >= CashReserve - Slack
    BY <1>1, <1>3, <1>7, <1>8, <2>3 DEF ExposureInv, StillFits
  <2>6. Gate!ExposureBounded' /\ Gate!CashBounded'
    BY <2>4, <2>5
       DEF Gate!ExposureBounded, Gate!CashBounded, Exposed, Left, BuysOf, Slack, Reserved
  <2> QED BY <1>1, <1>5, <2>6 DEF ExposureInv, StillFits
<1>9. CASE new.side # "buy"
  <2>1. Gate!OpenBuys' = Gate!OpenBuys
    BY <1>1, <1>9 DEF Gate!OpenBuys
  <2>2. Gate!ExposureBounded' /\ Gate!CashBounded'
    BY <1>1, <2>1 DEF ExposureInv, Gate!ExposureBounded, Gate!CashBounded, Gate!Lacks
  <2> QED BY <1>1, <1>5, <2>2 DEF ExposureInv, StillFits
<1> QED BY <1>8, <1>9

\* A fill moves worth from the orders to the position, or lowers the position.
LEMMA FillFits ==
    ASSUME LimitsConfigured, ExposureInv, Gate!Fill
    PROVE  ExposureInv'
<1>1. PICK o \in open :
        /\ open' = open \ {o}
        /\ positions' = [positions EXCEPT ![o.symbol] =
                            @ + (IF o.side = "buy" THEN o.notional ELSE 0 - o.notional)]
        /\ cash' = cash - (IF o.side = "buy" THEN o.notional ELSE 0 - o.notional)
        /\ UNCHANGED <<settings, placed, proposal>>
  BY DEF Gate!Fill
<1>2. /\ o.symbol \in Stocks /\ o.notional \in Nat /\ o.notional \in 0 .. PerOrder
      /\ positions \in [Stocks -> Int] /\ cash \in Int
  BY DEF ExposureInv, AccountTypes, LimitsConfigured
<1>3. AccountTypes'
  <2>1. IsFiniteSet(open')
    BY <1>1, FS_RemoveElement DEF ExposureInv, AccountTypes
  <2>2. cash' \in Int /\ positions' \in [Stocks -> Int]
    BY <1>1, <1>2
  <2> QED BY <1>1, <2>1, <2>2 DEF ExposureInv, AccountTypes
<1>4. /\ \A s \in Stocks : Exposed(s) <= PerSymbol + Slack /\ Exposed(s) \in Int
      /\ Reserved => Left >= CashReserve - Slack
      /\ Left \in Int /\ Reserved' = Reserved
      /\ PerSymbol + Slack \in Int /\ CashReserve - Slack \in Int
  BY <1>1, BuysAreFinite, ExposureSaid
     DEF ExposureInv, Slack, LimitsConfigured, Reserved, Gate!Lacks
<1>5. /\ \A s \in Stocks : Exposed(s)' <= Exposed(s) /\ Exposed(s)' \in Int
      /\ Left' >= Left /\ Left' \in Int
  <2>1. CASE o.side = "buy"
    <3>1. /\ o \in Gate!OpenBuys /\ Gate!OpenBuys' = Gate!OpenBuys \ {o}
          /\ o \in BuysOf(o.symbol)
          /\ \A s : BuysOf(s)' = BuysOf(s) \ {o}
      BY <1>1, <2>1 DEF Gate!OpenBuys, BuysOf
    <3>2. Gate!Ordered(Gate!OpenBuys) = Gate!Ordered(Gate!OpenBuys') + o.notional
      BY <3>1, BuysAreFinite, OrderedAdds DEF ExposureInv
    <3>3. /\ Gate!Ordered(Gate!OpenBuys') \in Int
          /\ \A s \in Stocks : Gate!Ordered(BuysOf(s)') \in Int
      <4>1. Gate!OpenBuys' \in SUBSET open' /\ \A s : BuysOf(s)' \in SUBSET open'
        BY DEF Gate!OpenBuys, BuysOf
      <4>2. IsFiniteSet(open') /\ \A o2 \in open' : o2.notional \in Int
        BY <1>3 DEF AccountTypes, LimitsConfigured
      <4>3. \A S \in SUBSET open' : Gate!Ordered(S) \in Int
        BY <4>2, FS_Subset, OrderedAdds
      <4> QED BY <4>1, <4>3
    <3>4. ASSUME NEW s \in Stocks
          PROVE  Exposed(s)' = Exposed(s)
      <4>1. CASE s = o.symbol
        <5>1. Gate!Ordered(BuysOf(s)) = Gate!Ordered(BuysOf(s)') + o.notional
          BY <3>1, <4>1, BuysAreFinite, OrderedAdds DEF ExposureInv
        <5> QED BY <1>1, <1>2, <2>1, <3>3, <4>1, <5>1 DEF Exposed
      <4>2. CASE s # o.symbol
        <5>1. BuysOf(s)' = BuysOf(s)
          BY <1>1, <4>2 DEF Gate!OpenBuys, BuysOf
        <5> QED BY <1>1, <4>2, <5>1 DEF Exposed
      <4> QED BY <4>1, <4>2
    <3>5. Left' = Left
      BY <1>1, <1>2, <2>1, <3>2, <3>3 DEF Left
    <3> QED BY <1>4, <3>4, <3>5
  <2>2. CASE o.side # "buy"
    <3>1. Gate!OpenBuys' = Gate!OpenBuys /\ \A s : BuysOf(s)' = BuysOf(s)
      BY <1>1, <2>2 DEF Gate!OpenBuys, BuysOf
    <3>2. /\ Gate!Ordered(Gate!OpenBuys) \in Int
          /\ \A s \in Stocks : Gate!Ordered(BuysOf(s)) \in Int
      BY BuysAreFinite DEF ExposureInv
    <3>3. \A s \in Stocks : positions'[s] <= positions[s] /\ positions'[s] \in Int
      BY <1>1, <1>2, <2>2
    <3>4. cash' >= cash /\ cash' \in Int
      BY <1>1, <1>2, <2>2
    <3> QED BY <1>2, <3>1, <3>2, <3>3, <3>4 DEF Exposed, Left
  <2> QED BY <2>1, <2>2
<1>6. Gate!ExposureBounded' /\ Gate!CashBounded'
  <2>1. /\ \A s \in Stocks : Exposed(s)' <= PerSymbol + Slack
        /\ Reserved' => Left' >= CashReserve - Slack
    BY <1>4, <1>5
  <2> QED
    BY <2>1
       DEF Gate!ExposureBounded, Gate!CashBounded, Exposed, Left, BuysOf, Slack, Reserved
<1>7. StillFits'
  BY <1>1, <1>2, <1>4, <1>5
     DEF ExposureInv, StillFits, AccountTypes, Gate!Intents, LimitsConfigured
<1> QED BY <1>3, <1>6, <1>7 DEF ExposureInv

\* Nothing else touches what is held, on order or let through.
LEMMA ExposureInvStep ==
    ASSUME LimitsConfigured, ExposureInv, [Gate!Next]_Gate!vars
    PROVE  ExposureInv'
<1>1. CASE \E i \in Gate!Intents : Gate!Ask(i)
  BY <1>1, AskFits
<1>2. CASE Gate!Place
  BY <1>2, PlaceFits
<1>3. CASE Gate!Fill
  BY <1>3, FillFits
<1>4. CASE UNCHANGED <<settings, placed, cash, positions, open, proposal>>
  BY <1>4 DEF ExposureInv, AccountTypes, StillFits, Gate!ExposureBounded, Gate!CashBounded,
              Exposed, Left, BuysOf, Gate!OpenBuys, Reserved, Gate!Lacks
<1>5. Gate!World \/ Gate!Tick \/ UNCHANGED Gate!vars
          => UNCHANGED <<settings, placed, cash, positions, open, proposal>>
  BY DEF Gate!World, Gate!Tick, Gate!vars, Gate!account, Gate!safety
<1> QED BY <1>1, <1>2, <1>3, <1>4, <1>5 DEF Gate!Next

\* It holds at the start and every step keeps it.
LEMMA ExposureInvHolds == ASSUME LimitsConfigured PROVE Gate!Spec => []ExposureInv
<1>1. Gate!Init => ExposureInv
  <2> SUFFICES ASSUME Gate!Init PROVE ExposureInv
    OBVIOUS
  <2>1. /\ open = {} /\ placed = <<>> /\ cash = Cash /\ proposal = Gate!Free
        /\ positions = [s \in Stocks |-> 0]
    BY DEF Gate!Init
  <2>2. AccountTypes
    <3>1. placed \in Seq({})
      BY <2>1
    <3> QED BY <2>1, <3>1, FS_EmptySet DEF AccountTypes, LimitsConfigured
  <2>3. Gate!Ordered({}) = 0
    BY FS_EmptySet, OrderedAdds
  <2>4. Gate!OpenBuys = {} /\ \A s : BuysOf(s) = {}
    BY <2>1 DEF Gate!OpenBuys, BuysOf
  <2>5. Slack \in Nat
    BY ProductGrows DEF Slack, LimitsConfigured
  <2>6. (\A s \in Stocks : Exposed(s) = 0) /\ Left = Cash
    <3>1. cash - Gate!Ordered({}) = Cash
      BY <2>1, <2>3 DEF LimitsConfigured
    <3>2. \A s \in Stocks : positions[s] + Gate!Ordered({}) = 0
      BY <2>1, <2>3
    <3> QED BY <2>4, <3>1, <3>2 DEF Exposed, Left
  <2>7. Gate!ExposureBounded /\ Gate!CashBounded
    <3>1. (\A s \in Stocks : Exposed(s) <= PerSymbol + Slack) /\ Left >= CashReserve - Slack
      BY <2>5, <2>6 DEF LimitsConfigured
    <3> QED BY <3>1, ExposureSaid
  <2> QED BY <2>1, <2>2, <2>7 DEF ExposureInv, StillFits
<1>2. ExposureInv /\ [Gate!Next]_Gate!vars => ExposureInv'
  BY ExposureInvStep
<1> QED BY <1>1, <1>2, PTL DEF Gate!Spec

\* What a symbol holds and has on order stays within the cap and one full order
\* for each further open order, and so does the cash above its reserve if the
\* settings have one, though check_capacity sees positions and no orders:
\* ExposureBounded and CashBounded.
THEOREM ExposureHolds ==
    ASSUME LimitsConfigured
    PROVE  Gate!Spec => [](Gate!ExposureBounded /\ Gate!CashBounded)
  BY ExposureInvHolds, PTL DEF ExposureInv
-----------------------------------------------------------------------------
(* All the checks of RiskGate *)

\* What is left of the types.
GateTypes ==
    /\ killFile \in BOOLEAN /\ stopped \in BOOLEAN /\ phase \in {"REGULAR", "other"}
    /\ loss \in 0 .. LossCap /\ reason \in Gate!Reasons
    /\ \A o \in open : o.notional \in Notionals
    /\ proposal # Gate!Free => proposal.notional \in Notionals

\* A reason is one that a check gives; an order has the worth of its intent.
LEMMA GateTypesStep ==
    ASSUME LossCap \in Nat, GateTypes, [Gate!Next]_Gate!vars
    PROVE  GateTypes'
<1>1. ASSUME NEW i \in Gate!Intents, Gate!Ask(i)
      PROVE  GateTypes'
  <2>1. Gate!Evaluate(i) \in Gate!Reasons
    <3> DEFINE failed == {k \in 1 .. 13 : Gate!Checks(i)[k][1]}
    <3>1. CASE failed = {}
      BY <3>1 DEF Gate!Evaluate, Gate!Reasons
    <3>2. CASE failed # {}
      <4>1. \E k \in failed : \A j \in failed : k <= j
        BY <3>2
      <4>2. Gate!Min(failed) \in failed
        BY <4>1 DEF Gate!Min
      <4>3. \A k \in 1 .. 13 : Gate!Checks(i)[k][2] \in Gate!Reasons
        BY DEF Gate!Checks, Gate!Reasons
      <4> QED
        BY <3>2, <4>2, <4>3 DEF Gate!Evaluate
    <3> QED
      BY <3>1, <3>2
  <2>2. reason' \in Gate!Reasons
    BY <1>1, <2>1 DEF Gate!Ask, Gate!Reasons
  <2>3. proposal' # Gate!Free => proposal'.notional \in Notionals
    BY <1>1 DEF Gate!Ask, Gate!Intents
  <2>4. /\ UNCHANGED <<killFile, phase, loss, open>>
        /\ stopped' = (stopped \/ killFile)
    BY <1>1 DEF Gate!Ask, Gate!account
  <2> QED
    BY <2>2, <2>3, <2>4 DEF GateTypes
<1>2. CASE Gate!Place
  BY <1>2 DEF Gate!Place, Gate!safety, GateTypes
<1>3. CASE Gate!Fill
  <2>1. open' \subseteq open /\ UNCHANGED <<killFile, stopped, phase, loss, reason, proposal>>
    BY <1>3 DEF Gate!Fill, Gate!safety
  <2> QED
    BY <2>1 DEF GateTypes
<1>4. CASE Gate!World
  <2>1. UNCHANGED <<stopped, open, reason, proposal>>
    BY <1>4 DEF Gate!World, Gate!account
  <2>2. killFile' \in BOOLEAN /\ phase' \in {"REGULAR", "other"} /\ loss' \in 0 .. LossCap
    <3>1. killFile' \in BOOLEAN
      BY <1>4, Zenon DEF Gate!World, GateTypes
    <3>2. phase' \in {"REGULAR", "other"} /\ (loss' = loss \/ loss' = LossCap)
      BY <1>4 DEF Gate!World, GateTypes
    <3> QED
      BY <3>1, <3>2 DEF GateTypes
  <2> QED
    BY <2>1, <2>2 DEF GateTypes
<1>5. CASE Gate!Tick \/ UNCHANGED Gate!vars
  BY <1>5 DEF Gate!Tick, Gate!vars, Gate!safety, Gate!account, GateTypes
<1> QED
  BY <1>1, <1>2, <1>3, <1>4, <1>5 DEF Gate!Next

\* All that the run of the controls says of the checks, for any symbols, worths,
\* windows and limits: what was read may be older than the order it lets pass.
THEOREM ChecksBoundOrdersAlways ==
    ASSUME HistoryConfigured, LimitsConfigured, LossCap \in Nat
    PROVE  Gate!Spec => []Gate!ChecksBoundOrders
<1>1. Gate!Init => GateTypes
  <2>1. 0 \in 0 .. LossCap
    OBVIOUS
  <2>2. Gate!Init => killFile \in BOOLEAN /\ stopped \in BOOLEAN
    BY DEF Gate!Init
  <2>3. Gate!Init => phase \in {"REGULAR", "other"} /\ reason \in Gate!Reasons
    BY DEF Gate!Init, Gate!Reasons
  <2> QED
    BY <2>1, <2>2, <2>3 DEF Gate!Init, GateTypes
<1>2. GateTypes /\ [Gate!Next]_Gate!vars => GateTypes'
  BY GateTypesStep
<1>3. HistoryInv /\ ExposureInv /\ GateTypes => Gate!ChecksBoundOrders
  <2> SUFFICES ASSUME HistoryInv, ExposureInv, GateTypes PROVE Gate!ChecksBoundOrders
    OBVIOUS
  <2>1. Len(records) <= settings.maxRecords
    BY DEF HistoryInv, HistoryKept
  <2>2. \A i \in 1 .. Len(placed) : placed[i].at \in 0 .. MaxTime
    <3>1. placed \in Seq(PlacedOrders)
      BY DEF HistoryInv, HistoryTypes
    <3>2. \A i \in 1 .. Len(placed) : placed[i] \in PlacedOrders
      BY <3>1
    <3> QED
      BY <3>2 DEF PlacedOrders
  <2>3. Gate!TypeOK
    BY <2>1, <2>2
       DEF HistoryInv, HistoryTypes, ExposureInv, AccountTypes, GateTypes, Gate!TypeOK
  <2> QED
    BY <2>3 DEF HistoryInv, ExposureInv, Gate!ChecksBoundOrders
<1> QED
  BY <1>1, <1>2, <1>3, HistoryInvHolds, ExposureInvHolds, PTL DEF Gate!Spec
-----------------------------------------------------------------------------
(* The cooldown of the risk gates *)

WatchlistConfigured == Len(Watchlist) \in Nat /\ Cooldown \in Nat

AnswerTimes == {Runner!Never} \union Nat

\* The gate has passed the order, now or some time ago.
CooledDown ==
    /\ stage \in {"approval", "submit"} => time - lastFor[order.symbol] >= Cooldown
    /\ stage = "answer" => /\ sent # <<>>
                           /\ sent[Len(sent)].at - lastFor[order.symbol] >= Cooldown

\* The runner's own times are those of the answers it has seen since it started.
CooldownInv ==
    /\ time \in Nat /\ place \in Nat \ {0}
    /\ lastFor \in [Runner!Symbols -> AnswerTimes] /\ answered = lastFor
    /\ \E S : sent \in Seq(S)
    /\ sent # <<>> => sent[Len(sent)].at \in Nat
    /\ stage # "idle" => order.symbol \in Runner!Symbols
    /\ "order_rate_limit" \in gates => CooledDown

\* Each step of the runner, the broker and the day keeps it.
LEMMA CooldownInvStep ==
    ASSUME CooldownInv, [Runner!Next]_(Runner!vars), WatchlistConfigured
    PROVE  CooldownInv'
<1>1. CASE Runner!Submit
  <2>1. PICK S : sent \in Seq(S)
    BY DEF CooldownInv
  <2> DEFINE it == [order |-> order, at |-> time]
  <2>2. /\ sent' = Append(sent, it) /\ stage' = "answer" /\ stage = "submit"
        /\ UNCHANGED <<time, place, gates, order, lastFor, answered>>
    BY <1>1 DEF Runner!Submit, Runner!runner
  <2>3. sent \in Seq(S \union {it}) /\ it \in S \union {it}
    BY <2>1, SeqMonotonic
  <2>4. /\ sent' \in Seq(S \union {it}) /\ Len(sent') = Len(sent) + 1
        /\ sent'[Len(sent')] = it /\ sent' # <<>>
    BY <2>2, <2>3
  <2> QED BY <2>2, <2>4 DEF CooldownInv, CooledDown
<1>2. CASE Runner!Answer
  <2>1. /\ stage = "answer" /\ stage' = "idle" /\ place' = place + 1
        /\ UNCHANGED <<time, gates, sent>>
        /\ \/ UNCHANGED <<lastFor, answered>>
           \/ /\ lastFor' = [lastFor EXCEPT ![order.symbol] = time]
              /\ answered' = [answered EXCEPT ![order.symbol] = time]
    BY <1>2 DEF Runner!Answer, Runner!Accepted, Runner!EndSymbol
  <2> QED BY <2>1 DEF CooldownInv, CooledDown, AnswerTimes
<1>3. CASE Runner!Restart
  BY <1>3, WatchlistConfigured
     DEF WatchlistConfigured, Runner!Restart, CooldownInv, CooledDown, AnswerTimes
<1>4. CASE Runner!RunGates
  <2>1. /\ stage = "risk" /\ UNCHANGED <<time, gates, sent, lastFor, answered>>
        /\ \/ stage' = "idle" /\ place' = place + 1
           \/ /\ stage' = "approval" /\ UNCHANGED <<order, place>>
              /\ \A gate \in gates : ~Runner!Rejects(gate, book)
    BY <1>4 DEF Runner!RunGates, Runner!EndSymbol, Runner!history
  <2>2. ASSUME stage' = "approval", "order_rate_limit" \in gates
        PROVE  time - lastFor[order.symbol] >= Cooldown
    <3>1. ~Runner!Rejects("order_rate_limit", book)
      BY <2>1, <2>2
    <3>2. ~Runner!RateLimit(book)
      BY <3>1 DEF Runner!Rejects
    <3>3. lastFor[order.symbol] \in Int
      BY <2>1 DEF CooldownInv, AnswerTimes, Runner!Never
    <3> QED BY <3>2, <3>3 DEF Runner!RateLimit, CooldownInv, WatchlistConfigured
  <2> QED BY <2>1, <2>2 DEF CooldownInv, CooledDown
<1>5. CASE Runner!Tick
  <2>1. time' = time + 1 /\ UNCHANGED <<gates, place, stage, order, sent, lastFor, answered>>
    BY <1>5 DEF Runner!Tick, Runner!runner, Runner!history
  <2>2. ASSUME stage # "idle" PROVE lastFor[order.symbol] \in Int
    BY <2>2 DEF CooldownInv, AnswerTimes, Runner!Never
  <2> QED BY <2>1, <2>2 DEF WatchlistConfigured, CooldownInv, CooledDown
<1>6. CASE Runner!ProcessSymbol
  <2>1. /\ UNCHANGED <<time, gates, sent, lastFor, answered>>
        /\ \/ stage' = "idle" /\ place' = place + 1
           \/ /\ stage' = "account" /\ place' = place
              /\ order'.symbol = Watchlist[place] /\ place \in 1 .. Len(Watchlist)
    BY <1>6
       DEF WatchlistConfigured, CooldownInv, Runner!ProcessSymbol, Runner!EndSymbol,
           Runner!history
  <2>2. Watchlist[place] \in Runner!Symbols \/ stage' = "idle"
    BY <2>1 DEF Runner!Symbols
  <2> QED BY <2>1, <2>2 DEF CooldownInv, CooledDown
<1>7. CASE Runner!FetchAccount
  BY <1>7 DEF Runner!FetchAccount, Runner!EndSymbol, Runner!history, CooldownInv, CooledDown
<1>8. CASE Runner!Approve
  BY <1>8 DEF Runner!Approve, Runner!EndSymbol, Runner!history, CooldownInv, CooledDown
<1>9. CASE \/ Runner!StartCycle \/ Runner!Abort \/ Runner!Arrive \/ Runner!Fill
           \/ Runner!CloseOrStop \/ UNCHANGED Runner!vars
  <2>1. /\ UNCHANGED <<time, gates, stage, order, sent, lastFor, answered>>
        /\ place' \in {place, 1, Len(Watchlist) + 1}
    BY <1>9 DEF Runner!StartCycle, Runner!Abort, Runner!Arrive, Runner!Fill,
                Runner!CloseOrStop, Runner!vars, Runner!runner, Runner!history
  <2> QED BY <2>1 DEF WatchlistConfigured, CooldownInv, CooledDown
<1> QED
  BY <1>1, <1>2, <1>3, <1>4, <1>5, <1>6, <1>7, <1>8, <1>9 DEF Runner!Next

\* With OrderRateLimitGate in the chain, a symbol whose order was answered
\* rests for its cooldown before the next order of it is sent, however long the
\* approval takes and whatever else is ordered (risk/gates, signals/runner.py).
THEOREM CooldownHolds ==
    ASSUME WatchlistConfigured
    PROVE  Runner!Spec => []("order_rate_limit" \in gates => Runner!CooldownAfterKnownOrder)
<1>1. Runner!Init => CooldownInv
  BY DEF WatchlistConfigured, Runner!Init, CooldownInv, CooledDown, AnswerTimes
<1>2. CooldownInv /\ [Runner!Next]_(Runner!vars) => CooldownInv'
  BY CooldownInvStep
<1>3. CooldownInv => ("order_rate_limit" \in gates => Runner!CooldownAfterKnownOrder)
  BY DEF CooldownInv, CooledDown, Runner!CooldownAfterKnownOrder
<1> QED
  BY <1>1, <1>2, <1>3, PTL DEF Runner!Spec
-----------------------------------------------------------------------------
(* What the runner holds and has on order *)

\* Orders cost something up to a largest one; times, limits and bounds are
\* not negative.
RunnerConfigured ==
    /\ WatchlistConfigured
    /\ Costs \subseteq Nat /\ \E c \in Costs : \A d \in Costs : d <= c
    /\ PerSymbol \in Nat /\ LossLimit \in Nat
    /\ SymbolInterval \in Nat /\ CycleInterval \in Nat
    /\ MaxSent \in Nat /\ MaxClock \in Nat

\* An order has one number, and is at one place on its way.  Each lost answer
\* is that of an order sent.
RunnerTypes ==
    /\ Runner!TypeOK
    /\ \E S : sent \in Seq(S)
    /\ Len(sent) <= MaxSent
    /\ IsFiniteSet(book) /\ IsFiniteSet(flying) /\ book \cap flying = {}
    /\ \A o \in book \union flying : o.id \in 1 .. Len(sent)
    /\ \A o, p \in flying : o.id = p.id => o = p
    /\ stage # "idle" => order \in Runner!Orders /\ place <= Len(Watchlist)
    /\ stage = "answer" =>
         /\ sent # <<>>
         /\ \A o \in flying : o.id = Len(sent) => o.order = order
    /\ \A s \in Runner!Symbols :
         unanswered[s] <= Len(sent) - (IF stage = "answer" THEN 1 ELSE 0)

\* What a sale of more than is held leaves.
LEMMA GreaterOfTwo ==
    ASSUME NEW a \in Int
    PROVE  Runner!Max({0, a}) \in Nat /\ Runner!Max({0, a}) = IF a > 0 THEN a ELSE 0
<1>1. PICK m \in {0, a} : \A y \in {0, a} : m >= y
  OBVIOUS
<1>2. /\ Runner!Max({0, a}) \in {0, a}
      /\ \A y \in {0, a} : Runner!Max({0, a}) >= y
  BY <1>1 DEF Runner!Max
<1> QED BY <1>2

\* The types of what the runner, the broker and the day keep.
LEMMA RunnerTypesStep ==
    ASSUME RunnerConfigured, RunnerTypes, [Runner!Next]_(Runner!vars)
    PROVE  RunnerTypes'
<1>0. Len(Watchlist) \in Nat /\ Len(sent) \in Nat
  BY DEF RunnerConfigured, WatchlistConfigured, RunnerTypes
<1>1. CASE Runner!StartCycle
  BY <1>0, <1>1 DEF Runner!StartCycle, Runner!world, Runner!broker, Runner!reads,
                    Runner!history, RunnerConfigured, RunnerTypes, Runner!TypeOK
<1>2. CASE Runner!Abort
  BY <1>0, <1>2 DEF Runner!Abort, Runner!world, Runner!broker, Runner!reads,
                    Runner!history, RunnerConfigured, RunnerTypes, Runner!TypeOK
<1> DEFINE Ends == /\ stage' = "idle" /\ order' = Runner!NoIntent
                   /\ account' = Runner!Nothing /\ knownLoss' = 0
                   /\ place' = place + 1 /\ waitUntil' \in Nat
<1>3. Runner!EndSymbol => Ends
  BY <1>0 DEF Runner!EndSymbol, Runner!Pause, RunnerConfigured, RunnerTypes, Runner!TypeOK
<1>4. CASE Runner!ProcessSymbol
  <2>1. /\ UNCHANGED <<time, gates, stopFile, marketOpen, lost, owned, book, flying>>
        /\ UNCHANGED <<openAtStart, lastAny, lastFor, sent, answered, unanswered>>
        /\ stage = "idle" /\ place <= Len(Watchlist)
        /\ \/ Ends
           \/ /\ order' \in Runner!Orders /\ knownLoss' \in {0, lost}
              /\ stage' = "account" /\ UNCHANGED <<account, place, waitUntil>>
    <3>1. ASSUME NEW side \in {"buy", "sell"}, NEW cost \in Costs, place <= Len(Watchlist)
          PROVE  [symbol |-> Watchlist[place], side |-> side, cost |-> cost] \in Runner!Orders
      <4>1. place \in 1 .. Len(Watchlist)
        BY <1>0, <3>1 DEF RunnerTypes, Runner!TypeOK
      <4> QED BY <4>1 DEF Runner!Orders, Runner!Symbols
    <3> QED
      BY <1>3, <1>4, <3>1
         DEF Runner!ProcessSymbol, Runner!world, Runner!broker, Runner!history
  <2>2. CASE Ends
    BY <1>0, <2>1, <2>2
       DEF RunnerConfigured, Runner!Nothing, Runner!Stages, RunnerTypes, Runner!TypeOK
  <2>3. CASE ~Ends
    BY <1>0, <2>1, <2>3 DEF RunnerConfigured, Runner!Stages, RunnerTypes, Runner!TypeOK
  <2> QED BY <2>2, <2>3
<1>5. CASE Runner!FetchAccount
  <2>1. /\ UNCHANGED <<time, gates, stopFile, marketOpen, lost, owned, book, flying>>
        /\ UNCHANGED <<openAtStart, lastAny, lastFor, sent, answered, unanswered>>
        /\ stage = "account"
        /\ \/ Ends
           \/ /\ account' = owned /\ stage' = "risk"
              /\ UNCHANGED <<knownLoss, order, place, waitUntil>>
    BY <1>3, <1>5 DEF Runner!FetchAccount, Runner!world, Runner!broker, Runner!history
  <2>2. CASE Ends
    BY <1>0, <2>1, <2>2
       DEF RunnerConfigured, Runner!Nothing, Runner!Stages, RunnerTypes, Runner!TypeOK
  <2>3. CASE ~Ends
    BY <1>0, <2>1, <2>3 DEF RunnerConfigured, Runner!Stages, RunnerTypes, Runner!TypeOK
  <2> QED BY <2>2, <2>3
<1>6. CASE Runner!RunGates \/ Runner!Approve
  <2>1. /\ UNCHANGED <<time, gates, marketOpen, stopFile, lost, owned, book, flying>>
        /\ UNCHANGED <<openAtStart, lastAny, lastFor, sent, answered, unanswered>>
        /\ stage \in {"risk", "approval"}
        /\ \/ Ends
           \/ /\ stage' \in {"approval", "submit"}
              /\ UNCHANGED <<account, knownLoss, order, place, waitUntil>>
    BY <1>3, <1>6 DEF Runner!RunGates, Runner!Approve, Runner!world, Runner!broker,
                      Runner!history, Runner!reads
  <2>2. CASE Ends
    BY <1>0, <2>1, <2>2
       DEF RunnerConfigured, Runner!Nothing, Runner!Stages, RunnerTypes, Runner!TypeOK
  <2>3. CASE ~Ends
    BY <1>0, <2>1, <2>3 DEF RunnerConfigured, Runner!Stages, RunnerTypes, Runner!TypeOK
  <2> QED BY <2>2, <2>3
<1>7. CASE Runner!Submit
  <2> DEFINE it == [order |-> order, at |-> time]
             new == [id |-> Len(sent) + 1, order |-> order]
  <2>1. PICK S : sent \in Seq(S)
    BY DEF RunnerTypes
  <2>2. /\ sent' = Append(sent, it) /\ flying' = flying \union {new}
        /\ stage = "submit" /\ stage' = "answer" /\ Len(sent) < MaxSent
        /\ UNCHANGED <<time, gates, marketOpen, stopFile, lost, owned, book>>
        /\ UNCHANGED <<order, place, openAtStart, account, knownLoss>>
        /\ UNCHANGED <<lastAny, lastFor, waitUntil, answered, unanswered>>
    BY <1>7 DEF Runner!Submit, Runner!world, Runner!runner, Runner!reads
  <2>3. /\ it.order = order /\ new.order = order /\ new.id = Len(sent) + 1
        /\ order \in Runner!Orders /\ place <= Len(Watchlist)
    BY <2>2 DEF RunnerTypes
  <2> HIDE DEF it, new
  <2>4. sent \in Seq(S \union {it}) /\ it \in S \union {it}
    BY <2>1, SeqMonotonic
  <2>5. /\ sent' \in Seq(S \union {it}) /\ Len(sent') = Len(sent) + 1 /\ sent' # <<>>
        /\ sent'[Len(sent) + 1] = it /\ \A i \in 1 .. Len(sent) : sent'[i] = sent[i]
    BY <2>2, <2>4
  <2>6. \A i \in 1 .. Len(sent') : sent'[i].order \in Runner!Orders
    <3>1. \A i \in 1 .. Len(sent) : sent[i].order \in Runner!Orders
      BY DEF RunnerTypes, Runner!TypeOK
    <3>2. \A i \in 1 .. Len(sent') : i \in 1 .. Len(sent) \/ i = Len(sent) + 1
      BY <1>0, <2>5
    <3> QED BY <2>3, <2>5, <3>1, <3>2
  <2>7. new \notin flying /\ new \notin book
    BY <1>0, <2>3 DEF RunnerTypes
  <2>8. IsFiniteSet(flying') /\ book \cap flying' = {}
    BY <2>2, <2>7, FS_AddElement DEF RunnerTypes
  <2>9. \A o \in book \union flying' :
          o.order \in Runner!Orders /\ o.id \in 1 .. MaxSent /\ o.id \in 1 .. Len(sent')
    BY <1>0, <2>2, <2>3, <2>5 DEF RunnerConfigured, RunnerTypes, Runner!TypeOK
  <2>10. /\ \A o, p \in flying' : o.id = p.id => o = p
         /\ \A o \in flying' : o.id = Len(sent') => o.order = order
    BY <1>0, <2>2, <2>3, <2>5 DEF RunnerTypes
  <2>11. \A s \in Runner!Symbols : unanswered[s] <= Len(sent') - 1
    BY <1>0, <2>2, <2>5 DEF RunnerTypes, Runner!TypeOK
  <2>12. Len(sent') <= MaxSent
    BY <1>0, <2>2, <2>5 DEF RunnerConfigured
  <2>13. Runner!TypeOK'
    BY <2>2, <2>6, <2>9 DEF RunnerTypes, Runner!TypeOK, Runner!Stages
  <2> QED
    BY <2>2, <2>3, <2>5, <2>8, <2>9, <2>10, <2>11, <2>12, <2>13 DEF RunnerTypes
<1>8. CASE Runner!Answer
  <2>1. /\ UNCHANGED <<time, gates, marketOpen, stopFile, lost, owned, book>>
        /\ UNCHANGED <<openAtStart, sent>> /\ Ends /\ stage = "answer"
        /\ flying' \in SUBSET flying
        /\ lastAny' \in {lastAny, time}
        /\ \/ UNCHANGED <<lastFor, answered>>
           \/ /\ lastFor' = [lastFor EXCEPT ![order.symbol] = time]
              /\ answered' = [answered EXCEPT ![order.symbol] = time]
        /\ \/ UNCHANGED unanswered
           \/ unanswered' = [unanswered EXCEPT ![order.symbol] = @ + 1]
    BY <1>3, <1>8 DEF Runner!Answer, Runner!Accepted, Runner!world
  <2>2. IsFiniteSet(flying')
    BY <2>1, FS_Subset DEF RunnerTypes
  <2>3. order.symbol \in Runner!Symbols
    BY <2>1 DEF RunnerTypes, Runner!Orders
  <2>4. \A s \in Runner!Symbols : unanswered[s] \in Nat /\ unanswered[s] + 1 <= Len(sent)
    BY <1>0, <2>1 DEF RunnerTypes, Runner!TypeOK
  <2>5. \A s \in Runner!Symbols : unanswered'[s] \in {unanswered[s], unanswered[s] + 1}
    BY <2>1 DEF RunnerTypes, Runner!TypeOK
  <2>6. \A s \in Runner!Symbols : unanswered'[s] \in 0 .. MaxSent /\ unanswered'[s] <= Len(sent)
    BY <1>0, <2>4, <2>5 DEF RunnerTypes, RunnerConfigured
  <2>7. unanswered' \in [Runner!Symbols -> 0 .. MaxSent]
    BY <2>1, <2>6 DEF RunnerTypes, Runner!TypeOK
  <2>8. /\ lastAny' \in {Runner!Never} \union 0 .. MaxClock
        /\ lastFor' \in [Runner!Symbols -> {Runner!Never} \union 0 .. MaxClock]
        /\ answered' \in [Runner!Symbols -> {Runner!Never} \union 0 .. MaxClock]
    BY <2>1, <2>3 DEF RunnerTypes, Runner!TypeOK
  <2>9. account' \in [Runner!Symbols -> Nat] /\ knownLoss' \in 0 .. LossLimit
    BY <2>1 DEF Runner!Nothing, RunnerConfigured
  <2>10. place' \in 1 .. Len(Watchlist) + 1
    BY <1>0, <2>1 DEF RunnerTypes, Runner!TypeOK
  <2>11. Runner!TypeOK'
    BY <2>1, <2>7, <2>8, <2>9, <2>10 DEF RunnerTypes, Runner!TypeOK, Runner!Stages
  <2> QED BY <1>0, <2>1, <2>2, <2>6, <2>11 DEF RunnerTypes
<1>9. CASE Runner!Restart
  <2>1. /\ UNCHANGED <<time, gates, marketOpen, stopFile, lost, owned, book, flying>>
        /\ UNCHANGED <<openAtStart, sent>>
        /\ stage' = "idle" /\ order' = Runner!NoIntent /\ place' = Len(Watchlist) + 1
        /\ lastAny' = Runner!Never /\ lastFor' = [s \in Runner!Symbols |-> Runner!Never]
        /\ waitUntil' = time /\ answered' = [s \in Runner!Symbols |-> Runner!Never]
        /\ account' = Runner!Nothing /\ knownLoss' = 0
        /\ unanswered' = IF stage = "answer"
                         THEN [unanswered EXCEPT ![order.symbol] = @ + 1] ELSE unanswered
    BY <1>9 DEF Runner!Restart, Runner!world, Runner!broker
  <2>2. \A s \in Runner!Symbols :
          /\ unanswered[s] \in Nat /\ unanswered[s] <= Len(sent)
          /\ stage = "answer" => unanswered[s] + 1 <= Len(sent)
    BY <1>0 DEF RunnerTypes, Runner!TypeOK
  <2>3. \A s \in Runner!Symbols :
          \/ unanswered'[s] = unanswered[s]
          \/ stage = "answer" /\ unanswered'[s] = unanswered[s] + 1
    BY <2>1 DEF RunnerTypes, Runner!TypeOK
  <2>4. \A s \in Runner!Symbols : unanswered'[s] \in 0 .. MaxSent /\ unanswered'[s] <= Len(sent)
    BY <1>0, <2>2, <2>3 DEF RunnerTypes, RunnerConfigured
  <2>5. unanswered' \in [Runner!Symbols -> 0 .. MaxSent]
    BY <2>1, <2>4 DEF RunnerTypes, Runner!TypeOK
  <2>6. account' \in [Runner!Symbols -> Nat] /\ knownLoss' \in 0 .. LossLimit
    BY <2>1 DEF Runner!Nothing, RunnerConfigured
  <2>7. Runner!TypeOK'
    BY <1>0, <2>1, <2>5, <2>6 DEF RunnerTypes, Runner!TypeOK, Runner!Stages
  <2> QED BY <1>0, <2>1, <2>4, <2>7 DEF RunnerTypes
<1>10. CASE Runner!Arrive
  <2>1. PICK o \in flying :
          /\ flying' = flying \ {o} /\ book' = book \union {o}
          /\ UNCHANGED <<time, gates, marketOpen, stopFile, lost, owned, stage, order>>
          /\ UNCHANGED <<place, openAtStart, lastAny, lastFor, waitUntil, account, knownLoss>>
          /\ UNCHANGED <<sent, answered, unanswered>>
    BY <1>10 DEF Runner!Arrive, Runner!world, Runner!runner, Runner!reads, Runner!history
  <2>2. IsFiniteSet(flying') /\ IsFiniteSet(book')
    BY <2>1, FS_AddElement, FS_RemoveElement DEF RunnerTypes
  <2>3. book' \union flying' = book \union flying /\ book' \cap flying' = {}
    BY <2>1 DEF RunnerTypes
  <2> QED BY <2>1, <2>2, <2>3 DEF RunnerTypes, Runner!TypeOK
<1>11. CASE Runner!Fill
  <2>1. PICK o \in book :
          /\ book' = book \ {o}
          /\ owned' = [owned EXCEPT ![o.order.symbol] =
                     IF o.order.side = "buy" THEN owned[o.order.symbol] + o.order.cost
                     ELSE Runner!Max({0, owned[o.order.symbol] - o.order.cost})]
          /\ lost' \in {lost, LossLimit}
          /\ UNCHANGED <<time, gates, marketOpen, stopFile, flying, stage, order>>
          /\ UNCHANGED <<place, openAtStart, lastAny, lastFor, waitUntil, account, knownLoss>>
          /\ UNCHANGED <<sent, answered, unanswered>>
    BY <1>11 DEF Runner!Fill, Runner!runner, Runner!reads, Runner!history
  <2> DEFINE left == owned[o.order.symbol] - o.order.cost
  <2>2. /\ o.order.symbol \in Runner!Symbols /\ o.order.cost \in Nat
        /\ owned[o.order.symbol] \in Nat /\ left \in Int
    <3>1. o.order \in Runner!Orders /\ owned \in [Runner!Symbols -> Nat]
      BY DEF RunnerTypes, Runner!TypeOK
    <3>2. o.order.symbol \in Runner!Symbols /\ o.order.cost \in Nat
      BY <3>1 DEF Runner!Orders, RunnerConfigured
    <3> QED BY <3>1, <3>2
  <2> HIDE DEF left
  <2>3. Runner!Max({0, left}) \in Nat
    BY <2>2, GreaterOfTwo
  <2>4. owned' \in [Runner!Symbols -> Nat]
    <3>1. owned' = [owned EXCEPT ![o.order.symbol] =
                 IF o.order.side = "buy" THEN owned[o.order.symbol] + o.order.cost
                 ELSE Runner!Max({0, left})]
      BY <2>1 DEF left
    <3>2. owned \in [Runner!Symbols -> Nat]
      BY DEF RunnerTypes, Runner!TypeOK
    <3> QED BY <2>2, <2>3, <3>1, <3>2
  <2>5. IsFiniteSet(book')
    BY <2>1, FS_RemoveElement DEF RunnerTypes
  <2>6. lost' \in 0 .. LossLimit
    BY <2>1 DEF RunnerConfigured, RunnerTypes, Runner!TypeOK
  <2> QED BY <2>1, <2>4, <2>5, <2>6 DEF RunnerTypes, Runner!TypeOK
<1> DEFINE Idle == /\ UNCHANGED <<gates, lost, owned, book, flying, stage, order, place>>
                   /\ UNCHANGED <<openAtStart, lastAny, lastFor, waitUntil, account, knownLoss>>
                   /\ UNCHANGED <<sent, answered, unanswered>>
<1>12. CASE Runner!CloseOrStop
  <2>1. Idle /\ time' = time /\ {stopFile', marketOpen'} \subseteq {stopFile, marketOpen, TRUE, FALSE}
    BY <1>12
       DEF Runner!CloseOrStop, Runner!broker, Runner!runner, Runner!reads, Runner!history
  <2> QED BY <2>1 DEF RunnerTypes, Runner!TypeOK
<1>13. CASE Runner!Tick
  <2>1. Idle /\ UNCHANGED <<stopFile, marketOpen>> /\ time < MaxClock /\ time' = time + 1
    BY <1>13 DEF Runner!Tick, Runner!world, Runner!broker, Runner!runner, Runner!reads,
                 Runner!history
  <2>2. time' \in 0 .. MaxClock
    BY <2>1 DEF RunnerTypes, Runner!TypeOK, RunnerConfigured
  <2> QED BY <2>1, <2>2 DEF RunnerTypes, Runner!TypeOK
<1>14. CASE UNCHANGED Runner!vars
  <2>1. Idle /\ UNCHANGED <<time, stopFile, marketOpen>>
    BY <1>14 DEF Runner!vars, Runner!world, Runner!broker, Runner!runner, Runner!reads,
                 Runner!history
  <2> QED BY <2>1 DEF RunnerTypes, Runner!TypeOK
<1> QED
  BY <1>1, <1>2, <1>4, <1>5, <1>6, <1>7, <1>8, <1>9, <1>10, <1>11, <1>12, <1>13, <1>14
     DEF Runner!Next

Largest == Runner!Largest
Late(s) == {o \in flying : o.order.symbol = s /\ ~(stage = "answer" /\ o.id = Len(sent))}
Buys(s) == Runner!Open(s, "buy")
Ahead(s) == owned[s] + Runner!Ordered(Buys(s))
Allowed(s) == (1 + unanswered[s]) * Largest

\* The costs of orders are a sum over them.
LEMMA CostsAreTotal ==
    ASSUME NEW S, IsFiniteSet(S), NEW w, \A o \in S : w[o] = o.order.cost
    PROVE  Runner!Ordered(S) = TotalOf(w, S)
<1> DEFINE Worths(it) == it = [s \in SUBSET S |-> IF s = {} THEN 0
                                 ELSE it[s \ {First(s)}] + First(s).order.cost]
<1>1. Runner!Ordered(S) = (CHOOSE it : Worths(it))[S]
  BY DEF Runner!Ordered, Runner!FoldSet, Runner!MapThenFoldSet, First
<1>2. \A s \in SUBSET S : s # {} => w[First(s)] = First(s).order.cost
  BY DEF First
<1>3. \A it : Worths(it) <=> Sums(it, S, w)
  BY <1>2 DEF Sums
<1>4. \E it : Worths(it)
  BY <1>3, SumsExist
<1>5. PICK f : Worths(f) /\ Runner!Ordered(S) = f[S]
  BY <1>1, <1>4
<1>6. PICK g : Sums(g, S, w) /\ TotalOf(w, S) = g[S]
  BY TotalIsSum
<1>7. Sums(f, S, w) /\ S \in SUBSET S
  BY <1>3, <1>5
<1> QED BY <1>5, <1>6, <1>7, SumsAgree

\* So they grow by the cost of an order that is added, and stay below as many
\* orders of the largest cost.
LEMMA CostsAdd ==
    ASSUME NEW S, IsFiniteSet(S), \A o \in S : o.order.cost \in Int
    PROVE  /\ Runner!Ordered(S) \in Int
           /\ S = {} => Runner!Ordered(S) = 0
           /\ \A o \in S : Runner!Ordered(S) = Runner!Ordered(S \ {o}) + o.order.cost
           /\ \A b, n \in Nat :
                (\A o \in S : o.order.cost <= b) /\ Cardinality(S) <= n
                  => Runner!Ordered(S) <= n * b
<1> DEFINE w == [o \in S |-> o.order.cost]
<1>1. Runner!Ordered(S) = TotalOf(w, S)
  BY CostsAreTotal
<1>2. \A o \in S : Runner!Ordered(S \ {o}) = TotalOf(w, S \ {o})
  BY CostsAreTotal, FS_RemoveElement
<1>3. \A o \in S : w[o] \in Int /\ w[o] = o.order.cost
  OBVIOUS
<1> HIDE DEF w
<1>4. ASSUME NEW b \in Nat, NEW n \in Nat, \A o \in S : o.order.cost <= b, Cardinality(S) <= n
      PROVE  Runner!Ordered(S) <= n * b
  <2>1. TotalOf(w, S) <= Cardinality(S) * b /\ TotalOf(w, S) \in Int
    BY <1>3, <1>4, TotalBounded, TotalAdds
  <2>2. Cardinality(S) \in Nat
    BY FS_CardinalityType
  <2>3. Cardinality(S) * b <= n * b /\ Cardinality(S) * b \in Int /\ n * b \in Int
    BY <1>4, <2>2, ProductGrows
  <2> QED BY <1>1, <2>1, <2>3
<1> QED BY <1>1, <1>2, <1>3, <1>4, TotalAdds

\* Of a symbol, every order still on its way has lost its answer, and at most
\* one of the open orders has not.  An order between its checks and the broker
\* still fits, because what was ahead of the account's reading is at most the
\* orders that were open then.
AheadInv ==
    /\ RunnerTypes /\ gates \in Chains
    /\ \A s \in Runner!Symbols :
         /\ Cardinality(Late(s)) <= unanswered[s]
         /\ Cardinality(Buys(s)) <= 1 + unanswered[s]
         /\ Ahead(s) <= PerSymbol + Allowed(s)
    /\ order.side = "buy" =>
        /\ stage = "risk" => Ahead(order.symbol) <= account[order.symbol] + Allowed(order.symbol)
        /\ stage \in {"approval", "submit"} =>
             /\ Cardinality(Buys(order.symbol)) <= unanswered[order.symbol]
             /\ Ahead(order.symbol) + order.cost <= PerSymbol + Allowed(order.symbol)

ChainsBound == \A c \in Chains : {"duplicate_order", "exposure_per_symbol"} \subseteq c

\* Both modules count alike.
LEMMA RunnerCounts == \A S : Runner!Cardinality(S) = Cardinality(S)
BY DEF Runner!Cardinality, Cardinality

\* What is counted and added is finite.
LEMMA AheadIsFinite ==
    ASSUME RunnerConfigured, RunnerTypes, NEW s \in Runner!Symbols
    PROVE  /\ IsFiniteSet(Late(s)) /\ Cardinality(Late(s)) \in Nat
           /\ IsFiniteSet(Buys(s)) /\ Cardinality(Buys(s)) \in Nat
           /\ \A o \in Buys(s) : o.order.cost \in Nat /\ o.order.cost <= Largest
           /\ Runner!Ordered(Buys(s)) \in Int /\ Ahead(s) \in Int
           /\ Largest \in Nat /\ Allowed(s) \in Nat
           /\ unanswered[s] \in Nat /\ owned[s] \in Nat
           /\ \A o \in Runner!Orders : o.cost \in Nat /\ o.cost <= Largest
<1>1. Largest \in Costs /\ \A c \in Costs : c <= Largest
  <2>1. \E x \in Costs : \A y \in Costs : x >= y
    BY DEF RunnerConfigured
  <2>2. \A y \in Costs : Largest >= y /\ Largest \in Costs
    BY <2>1 DEF Largest, Runner!Largest, Runner!Max
  <2> QED BY <2>1, <2>2 DEF RunnerConfigured
<1>2. IsFiniteSet(Late(s)) /\ IsFiniteSet(Buys(s))
  <2>1. Late(s) \in SUBSET flying /\ Buys(s) \in SUBSET (book \union flying)
    BY DEF Late, Buys, Runner!Open
  <2>2. IsFiniteSet(book \union flying)
    BY FS_Union DEF RunnerTypes
  <2> QED BY <2>1, <2>2, FS_Subset DEF RunnerTypes
<1>3. \A o \in Runner!Orders : o.cost \in Nat /\ o.cost <= Largest
  BY <1>1 DEF Runner!Orders, RunnerConfigured
<1>4. \A o \in Buys(s) : o.order \in Runner!Orders
  BY DEF Buys, Runner!Open, RunnerTypes, Runner!TypeOK
<1>5. Runner!Ordered(Buys(s)) \in Int
  BY <1>2, <1>3, <1>4, CostsAdd
<1>6. unanswered[s] \in Nat /\ owned[s] \in Nat
  BY DEF RunnerTypes, Runner!TypeOK
<1>7. Largest \in Nat
  BY <1>1 DEF RunnerConfigured
<1>8. Allowed(s) \in Nat
  BY <1>6, <1>7, ProductGrows DEF Allowed
<1> QED
  BY <1>1, <1>2, <1>3, <1>4, <1>5, <1>6, <1>7, <1>8, FS_CardinalityType DEF Ahead

\* Steps that touch neither orders nor positions leave what is counted alone.
LEMMA QuietKeepsAhead ==
    ASSUME UNCHANGED <<owned, book, flying, unanswered, sent>>,
           stage' = stage \/ (stage # "answer" /\ stage' # "answer"), NEW s
    PROVE  /\ Late(s)' = Late(s) /\ Buys(s)' = Buys(s)
           /\ Ahead(s)' = Ahead(s) /\ Allowed(s)' = Allowed(s)
BY DEF Late, Buys, Runner!Open, Ahead, Allowed

\* What the gates let through fits with the orders that are open.
LEMMA JudgingKeepsAhead ==
    ASSUME RunnerConfigured, ChainsBound, AheadInv, RunnerTypes',
           Runner!FetchAccount \/ Runner!RunGates
    PROVE  AheadInv'
<1>1. /\ UNCHANGED <<owned, book, flying, unanswered, sent, gates>>
      /\ stage # "answer" /\ stage' # "answer"
  BY DEF Runner!FetchAccount, Runner!RunGates, Runner!EndSymbol, Runner!broker, Runner!history
<1>2. \A s : /\ Late(s)' = Late(s) /\ Buys(s)' = Buys(s)
             /\ Ahead(s)' = Ahead(s) /\ Allowed(s)' = Allowed(s)
  BY <1>1, QuietKeepsAhead
<1>3. \A s \in Runner!Symbols :
        /\ Cardinality(Late(s)') <= unanswered'[s]
        /\ Cardinality(Buys(s)') <= 1 + unanswered'[s]
        /\ Ahead(s)' <= PerSymbol + Allowed(s)'
  BY <1>1, <1>2 DEF AheadInv
<1>4. CASE stage' = "idle"
  BY <1>1, <1>3, <1>4 DEF AheadInv
<1>5. CASE Runner!FetchAccount /\ stage' # "idle"
  <2>1. /\ stage' = "risk" /\ account' = owned /\ order' = order
        /\ order.symbol \in Runner!Symbols
    BY <1>5 DEF Runner!FetchAccount, Runner!EndSymbol, AheadInv, RunnerTypes, Runner!Orders
  <2>2. PICK s \in Runner!Symbols : s = order.symbol
    BY <2>1
  <2>3. Ahead(s) <= owned[s] + Allowed(s)
    <3>1. /\ IsFiniteSet(Buys(s)) /\ Largest \in Nat /\ 1 + unanswered[s] \in Nat
          /\ \A o \in Buys(s) : o.order.cost \in Int /\ o.order.cost <= Largest
          /\ Runner!Ordered(Buys(s)) \in Int /\ owned[s] \in Nat /\ Allowed(s) \in Nat
      BY AheadIsFinite DEF AheadInv
    <3>2. Cardinality(Buys(s)) <= 1 + unanswered[s]
      BY DEF AheadInv
    <3>3. Runner!Ordered(Buys(s)) <= Allowed(s)
      BY <3>1, <3>2, CostsAdd DEF Allowed
    <3> QED BY <3>1, <3>3 DEF Ahead
  <2>4. Ahead(s)' <= account'[s] + Allowed(s)' /\ s = order'.symbol
    BY <1>2, <2>1, <2>2, <2>3
  <2> QED BY <1>1, <1>3, <2>1, <2>4 DEF AheadInv
<1>6. CASE Runner!RunGates /\ stage' # "idle"
  <2>1. /\ stage' = "approval" /\ stage = "risk" /\ order' = order
        /\ \A gate \in gates : ~Runner!Rejects(gate, book)
        /\ order \in Runner!Orders
    BY <1>6 DEF Runner!RunGates, Runner!EndSymbol, AheadInv, RunnerTypes
  <2>2. PICK s \in Runner!Symbols : s = order.symbol
    BY <2>1 DEF Runner!Orders
  <2>3. ASSUME order.side = "buy"
        PROVE  /\ Cardinality(Buys(s)) <= unanswered[s]
               /\ Ahead(s) + order.cost <= PerSymbol + Allowed(s)
    <3>1. ~Runner!Rejects("duplicate_order", book) /\ ~Runner!Rejects("exposure_per_symbol", book)
      BY <2>1 DEF AheadInv, ChainsBound
    <3>2. ~Runner!Duplicate(book) /\ ~Runner!Exposure(book)
      BY <3>1 DEF Runner!Rejects
    <3>3. Buys(s) \subseteq Late(s)
      BY <1>1, <2>2, <2>3, <3>2 DEF Buys, Late, Runner!Open, Runner!Duplicate
    <3>4. /\ IsFiniteSet(Late(s)) /\ Cardinality(Late(s)) \in Nat /\ Cardinality(Buys(s)) \in Nat
          /\ unanswered[s] \in Nat /\ order.cost \in Nat
          /\ Ahead(s) \in Int /\ Allowed(s) \in Nat
      BY <2>1, AheadIsFinite DEF AheadInv
    <3>5. Cardinality(Buys(s)) <= Cardinality(Late(s)) /\ Cardinality(Late(s)) <= unanswered[s]
      BY <3>3, <3>4, FS_Subset DEF AheadInv
    <3>6. account[s] + order.cost <= PerSymbol /\ account[s] \in Nat
      <4>1. account[s] \in Nat
        BY DEF AheadInv, RunnerTypes, Runner!TypeOK
      <4>2. ~(account[s] + order.cost > PerSymbol)
        BY <2>2, <2>3, <3>2 DEF Runner!Exposure, Runner!Buying
      <4> QED BY <3>4, <4>1, <4>2 DEF RunnerConfigured
    <3>7. Ahead(s) <= account[s] + Allowed(s)
      BY <2>1, <2>2, <2>3 DEF AheadInv
    <3> QED BY <3>4, <3>5, <3>6, <3>7 DEF RunnerConfigured
  <2>4. order'.side = "buy" =>
         /\ Cardinality(Buys(s)') <= unanswered'[s]
         /\ Ahead(s)' + order'.cost <= PerSymbol + Allowed(s)'
    BY <1>1, <1>2, <2>1, <2>3
  <2> QED BY <1>1, <1>3, <2>1, <2>2, <2>4 DEF AheadInv
<1> QED BY <1>4, <1>5, <1>6

\* The order that is sent was counted before.
LEMMA SubmitKeepsAhead ==
    ASSUME RunnerConfigured, AheadInv, RunnerTypes', Runner!Submit
    PROVE  AheadInv'
<1> DEFINE new == [id |-> Len(sent) + 1, order |-> order]
<1>1. /\ flying' = flying \union {new} /\ stage = "submit" /\ stage' = "answer"
      /\ UNCHANGED <<owned, book, order, unanswered, gates>>
      /\ \E it : sent' = Append(sent, it)
  BY DEF Runner!Submit, Runner!runner
<1>2. new.id = Len(sent) + 1 /\ new.order = order
  OBVIOUS
<1> HIDE DEF new
<1>3. Len(sent') = Len(sent) + 1 /\ Len(sent) \in Nat
  <2>1. PICK S, it : sent \in Seq(S) /\ sent' = Append(sent, it)
    BY <1>1 DEF AheadInv, RunnerTypes
  <2>2. sent \in Seq(S \union {it}) /\ it \in S \union {it}
    BY <2>1, SeqMonotonic
  <2> QED BY <2>1, <2>2
<1>4. /\ new \notin book \union flying
      /\ \A o \in flying : o.id # Len(sent')
      /\ order \in Runner!Orders
  BY <1>1, <1>2, <1>3 DEF AheadInv, RunnerTypes
<1>5. \A s : Late(s)' = Late(s)
  BY <1>1, <1>2, <1>3, <1>4 DEF Late
<1>6. PICK s \in Runner!Symbols : s = order.symbol
  BY <1>4 DEF Runner!Orders
<1>7. ASSUME NEW r \in Runner!Symbols, r # s \/ order.side # "buy"
      PROVE  Buys(r)' = Buys(r)
  BY <1>1, <1>2, <1>6, <1>7 DEF Buys, Runner!Open
<1>8. ASSUME order.side = "buy"
      PROVE  /\ Cardinality(Buys(s)') <= 1 + unanswered'[s]
             /\ Ahead(s)' <= PerSymbol + Allowed(s)'
  <2>1. Buys(s)' = Buys(s) \union {new} /\ new \notin Buys(s)
    BY <1>1, <1>2, <1>4, <1>6, <1>8 DEF Buys, Runner!Open
  <2>2. /\ IsFiniteSet(Buys(s)) /\ Cardinality(Buys(s)) \in Nat /\ unanswered[s] \in Nat
        /\ \A o \in Buys(s) : o.order.cost \in Int
        /\ Runner!Ordered(Buys(s)) \in Int /\ owned[s] \in Nat
        /\ order.cost \in Nat /\ Ahead(s) \in Int
    BY <1>4, AheadIsFinite DEF AheadInv
  <2>3. Cardinality(Buys(s)) <= unanswered[s] /\ Ahead(s) + order.cost <= PerSymbol + Allowed(s)
    BY <1>1, <1>6, <1>8 DEF AheadInv
  <2>4. Cardinality(Buys(s)') = Cardinality(Buys(s)) + 1 /\ IsFiniteSet(Buys(s)')
    BY <2>1, <2>2, FS_AddElement
  <2>5. \A o \in Buys(s)' : o.order.cost \in Int
    BY <1>2, <2>1, <2>2
  <2>6. Runner!Ordered(Buys(s)') = Runner!Ordered(Buys(s)) + order.cost
    <3>1. Buys(s)' \ {new} = Buys(s) /\ new \in Buys(s)'
      BY <2>1
    <3> QED BY <1>2, <2>4, <2>5, <3>1, CostsAdd
  <2>7. Ahead(s)' = Ahead(s) + order.cost /\ Allowed(s)' = Allowed(s)
    BY <1>1, <2>2, <2>6 DEF Ahead, Allowed
  <2> QED BY <1>1, <2>2, <2>3, <2>4, <2>7
<1>9. \A r \in Runner!Symbols :
        /\ Cardinality(Buys(r)') <= 1 + unanswered'[r]
        /\ Ahead(r)' <= PerSymbol + Allowed(r)'
  <2>1. \A r \in Runner!Symbols : r # s \/ order.side # "buy" =>
          /\ Buys(r)' = Buys(r) /\ Ahead(r)' = Ahead(r) /\ Allowed(r)' = Allowed(r)
    BY <1>1, <1>7 DEF Ahead, Allowed
  <2> QED BY <1>1, <1>8, <2>1 DEF AheadInv
<1> QED BY <1>1, <1>5, <1>9 DEF AheadInv

\* An order whose answer is lost is counted with the lost answers from then on.
LEMMA AnswerKeepsAhead ==
    ASSUME RunnerConfigured, AheadInv, RunnerTypes',
           Runner!Answer \/ (Runner!Restart /\ stage = "answer")
    PROVE  AheadInv'
<1> DEFINE last == {o \in flying : o.id = Len(sent)}
           missed == [unanswered EXCEPT ![order.symbol] = @ + 1]
<1>1. /\ stage = "answer" /\ stage' = "idle"
      /\ UNCHANGED <<owned, book, sent, gates>>
      /\ \/ last = {} /\ UNCHANGED <<flying, unanswered>>
         \/ flying' = flying \ last /\ UNCHANGED unanswered
         \/ UNCHANGED flying /\ unanswered' = missed
  BY DEF Runner!Answer, Runner!Restart, Runner!EndSymbol, Runner!broker
<1>2. order.symbol \in Runner!Symbols /\ \A o \in last : o.order.symbol = order.symbol
  BY <1>1 DEF AheadInv, RunnerTypes, Runner!Orders
<1>3. ASSUME NEW s \in Runner!Symbols
      PROVE  /\ Cardinality(Late(s)') <= unanswered'[s]
             /\ Cardinality(Buys(s)') <= 1 + unanswered'[s]
             /\ Ahead(s)' <= PerSymbol + Allowed(s)'
  <2>1. /\ IsFiniteSet(Late(s)) /\ Cardinality(Late(s)) \in Nat
        /\ IsFiniteSet(Buys(s)) /\ Cardinality(Buys(s)) \in Nat
        /\ Ahead(s) \in Int /\ Allowed(s) \in Nat /\ Largest \in Nat
        /\ unanswered[s] \in Nat /\ PerSymbol \in Nat
        /\ \A o \in Buys(s) : o.order.cost \in Nat
        /\ Runner!Ordered(Buys(s)) \in Int /\ owned[s] \in Nat
    BY AheadIsFinite DEF AheadInv, RunnerConfigured
  <2>2. /\ Cardinality(Late(s)) <= unanswered[s]
        /\ Cardinality(Buys(s)) <= 1 + unanswered[s]
        /\ Ahead(s) <= PerSymbol + Allowed(s)
    BY DEF AheadInv
  <2>3. CASE last = {} /\ UNCHANGED <<flying, unanswered>>
    <3>1. Late(s)' = Late(s) /\ Buys(s)' = Buys(s)
      BY <1>1, <2>3 DEF Late, Buys, Runner!Open
    <3> QED BY <1>1, <2>2, <2>3, <3>1 DEF Ahead, Allowed
  <2>4. CASE flying' = flying \ last /\ UNCHANGED unanswered
    <3>1. Late(s)' = Late(s)
      BY <1>1, <2>4 DEF Late
    <3>2. Buys(s)' \subseteq Buys(s)
      BY <1>1, <2>4 DEF Buys, Runner!Open
    <3>3. /\ IsFiniteSet(Buys(s)') /\ Cardinality(Buys(s)') \in Nat
          /\ Cardinality(Buys(s)') <= Cardinality(Buys(s))
      BY <2>1, <3>2, FS_Subset, FS_CardinalityType
    <3>4. Runner!Ordered(Buys(s)') <= Runner!Ordered(Buys(s)) /\ Runner!Ordered(Buys(s)') \in Int
      <4>1. PICK x : Buys(s) \ Buys(s)' \subseteq {x}
        <5>1. \A o, p \in last : o = p
          BY <1>1 DEF AheadInv, RunnerTypes
        <5>2. \E x : last \subseteq {x}
          BY <5>1
        <5>3. PICK y : last \subseteq {y}
          BY <5>2
        <5>4. Buys(s) \ Buys(s)' \subseteq last
          BY <1>1, <2>4 DEF Buys, Runner!Open
        <5> QED BY <5>3, <5>4
      <4>2. CASE x \in Buys(s) \ Buys(s)'
        <5>1. Buys(s) \ {x} = Buys(s)' /\ x.order.cost \in Nat
          BY <2>1, <3>2, <4>1, <4>2
        <5>2. Runner!Ordered(Buys(s)) = Runner!Ordered(Buys(s)') + x.order.cost
          BY <2>1, <4>2, <5>1, CostsAdd
        <5>3. Runner!Ordered(Buys(s)') \in Int
          BY <2>1, <3>2, <3>3, CostsAdd
        <5> QED BY <2>1, <5>1, <5>2, <5>3
      <4>3. CASE x \notin Buys(s) \ Buys(s)'
        <5>1. Buys(s)' = Buys(s)
          BY <3>2, <4>1, <4>3
        <5> QED BY <2>1, <5>1
      <4> QED BY <4>2, <4>3
    <3>5. Ahead(s)' <= Ahead(s) /\ Ahead(s)' \in Int /\ Allowed(s)' = Allowed(s)
      BY <1>1, <2>1, <2>4, <3>4 DEF Ahead, Allowed
    <3> QED BY <2>1, <2>2, <2>4, <3>1, <3>3, <3>5
  <2>5. CASE UNCHANGED flying /\ unanswered' = missed
    <3>1. /\ unanswered'[s] \in Nat /\ unanswered[s] <= unanswered'[s]
          /\ s = order.symbol => unanswered'[s] = unanswered[s] + 1
      <4>1. \E T : unanswered \in [Runner!Symbols -> T]
        BY DEF AheadInv, RunnerTypes, Runner!TypeOK
      <4> QED BY <1>2, <2>1, <2>5, <4>1
    <3>2. Buys(s)' = Buys(s) /\ Ahead(s)' = Ahead(s)
      BY <1>1, <2>5 DEF Buys, Runner!Open, Ahead
    <3>3. Allowed(s) <= Allowed(s)' /\ Allowed(s)' \in Nat
      <4>1. 1 + unanswered[s] \in Nat /\ 1 + unanswered'[s] \in Nat
            /\ 1 + unanswered[s] <= 1 + unanswered'[s]
        BY <2>1, <3>1
      <4> QED BY <2>1, <4>1, ProductGrows DEF Allowed
    <3>4. Cardinality(Late(s)') <= unanswered'[s]
      <4>1. Late(s)' = Late(s) \union {o \in last : o.order.symbol = s}
        BY <1>1, <2>5 DEF Late
      <4>2. CASE s # order.symbol \/ last = {}
        <5>1. Late(s)' = Late(s)
          BY <1>2, <4>1, <4>2
        <5> QED BY <2>1, <2>2, <3>1, <5>1
      <4>3. CASE s = order.symbol /\ last # {}
        <5>1. PICK x \in last : last = {x}
          BY <1>1, <4>3 DEF AheadInv, RunnerTypes
        <5>2. Late(s)' = Late(s) \union {x}
          BY <1>2, <4>1, <4>3, <5>1
        <5>3. x \notin Late(s)
          BY <1>1 DEF Late
        <5>4. Cardinality(Late(s)') = Cardinality(Late(s)) + 1
          BY <2>1, <5>2, <5>3, FS_AddElement
        <5> QED BY <2>1, <2>2, <3>1, <4>3, <5>4
      <4> QED BY <4>2, <4>3
    <3> QED BY <2>1, <2>2, <3>1, <3>2, <3>3, <3>4
  <2> QED BY <1>1, <2>3, <2>4, <2>5
<1> QED BY <1>1, <1>3 DEF AheadInv

\* An order that arrives stays the same order.
LEMMA ArriveKeepsAhead ==
    ASSUME RunnerConfigured, AheadInv, RunnerTypes', Runner!Arrive
    PROVE  AheadInv'
<1>1. PICK o \in flying :
        /\ flying' = flying \ {o} /\ book' = book \union {o}
        /\ UNCHANGED <<owned, stage, order, account, sent, unanswered, gates>>
  BY DEF Runner!Arrive, Runner!reads, Runner!history
<1>2. \A s : Buys(s)' = Buys(s) /\ Ahead(s)' = Ahead(s) /\ Allowed(s)' = Allowed(s)
  BY <1>1 DEF Buys, Runner!Open, Ahead, Allowed
<1>3. ASSUME NEW s \in Runner!Symbols
      PROVE  Cardinality(Late(s)') <= unanswered'[s]
  <2>1. Late(s)' \subseteq Late(s)
    BY <1>1 DEF Late
  <2>2. IsFiniteSet(Late(s)) /\ Cardinality(Late(s)) \in Nat /\ unanswered[s] \in Nat
    BY AheadIsFinite DEF AheadInv
  <2>3. Cardinality(Late(s)') <= Cardinality(Late(s)) /\ Cardinality(Late(s)') \in Nat
    BY <2>1, <2>2, FS_Subset, FS_CardinalityType
  <2> QED BY <1>1, <2>2, <2>3 DEF AheadInv
<1> QED BY <1>1, <1>2, <1>3 DEF AheadInv

\* A fill moves cost from the orders to the position, or lowers the position.
LEMMA FillKeepsAhead ==
    ASSUME RunnerConfigured, AheadInv, RunnerTypes', Runner!Fill
    PROVE  AheadInv'
<1>1. PICK o \in book :
        /\ book' = book \ {o}
        /\ owned' = [owned EXCEPT ![o.order.symbol] =
                   IF o.order.side = "buy" THEN owned[o.order.symbol] + o.order.cost
                   ELSE Runner!Max({0, owned[o.order.symbol] - o.order.cost})]
        /\ UNCHANGED <<flying, stage, order, account, sent, unanswered, gates>>
  BY DEF Runner!Fill, Runner!reads, Runner!history
<1>2. /\ o.order \in Runner!Orders /\ o.order.symbol \in Runner!Symbols
      /\ owned \in [Runner!Symbols -> Nat] /\ o \notin flying
  BY DEF AheadInv, RunnerTypes, Runner!TypeOK, Runner!Orders
<1>3. \A s : Late(s)' = Late(s) /\ Allowed(s)' = Allowed(s)
  BY <1>1 DEF Late, Allowed
<1>4. ASSUME NEW s \in Runner!Symbols
      PROVE  /\ Cardinality(Buys(s)') <= Cardinality(Buys(s)) /\ Cardinality(Buys(s)') \in Nat
             /\ Ahead(s)' <= Ahead(s) /\ Ahead(s)' \in Int
  <2>1. /\ IsFiniteSet(Buys(s)) /\ Cardinality(Buys(s)) \in Nat
        /\ Runner!Ordered(Buys(s)) \in Int /\ Ahead(s) \in Int /\ owned[s] \in Nat
        /\ \A p \in Buys(s) : p.order.cost \in Nat
        /\ o.order.cost \in Nat
    BY <1>2, AheadIsFinite DEF AheadInv
  <2>2. Buys(s)' = Buys(s) \ {o}
    BY <1>1, <1>2 DEF Buys, Runner!Open
  <2>3. /\ Cardinality(Buys(s)') <= Cardinality(Buys(s)) /\ Cardinality(Buys(s)') \in Nat
        /\ IsFiniteSet(Buys(s)')
    BY <2>1, <2>2, FS_Subset, FS_CardinalityType
  <2>4. CASE o.order.side = "buy" /\ o.order.symbol = s
    <3>1. o \in Buys(s)
      BY <1>1, <2>4 DEF Buys, Runner!Open
    <3>2. Runner!Ordered(Buys(s)) = Runner!Ordered(Buys(s)') + o.order.cost
      BY <2>1, <2>2, <3>1, CostsAdd
    <3>3. Runner!Ordered(Buys(s)') \in Int
      BY <2>1, <2>2, <2>3, CostsAdd
    <3>4. owned'[s] = owned[s] + o.order.cost
      BY <1>1, <1>2, <2>4
    <3>5. Ahead(s)' = Ahead(s)
      BY <2>1, <3>2, <3>3, <3>4 DEF Ahead
    <3> QED BY <2>1, <2>3, <3>5
  <2>5. CASE o.order.side # "buy" \/ o.order.symbol # s
    <3>1. Buys(s)' = Buys(s)
      BY <2>2, <2>5 DEF Buys, Runner!Open
    <3>2. owned'[s] <= owned[s] /\ owned'[s] \in Nat
      <4> DEFINE left == owned[s] - o.order.cost
      <4>1. left \in Int /\ left <= owned[s]
        BY <2>1
      <4>2. owned'[s] \in {owned[s], Runner!Max({0, left})}
        BY <1>1, <1>2, <2>5
      <4> HIDE DEF left
      <4>3. Runner!Max({0, left}) \in Nat /\ Runner!Max({0, left}) = IF left > 0 THEN left ELSE 0
        BY <4>1, GreaterOfTwo
      <4> QED BY <2>1, <4>1, <4>2, <4>3
    <3> QED BY <2>1, <2>3, <3>1, <3>2 DEF Ahead
  <2> QED BY <2>4, <2>5
<1>5. \A s \in Runner!Symbols :
        /\ Cardinality(Buys(s)) \in Nat /\ unanswered[s] \in Nat
        /\ Ahead(s) \in Int /\ Allowed(s) \in Nat /\ account[s] \in Nat
  BY AheadIsFinite DEF AheadInv, RunnerTypes, Runner!TypeOK
<1>6. \A s \in Runner!Symbols :
        /\ Cardinality(Late(s)') <= unanswered'[s]
        /\ Cardinality(Buys(s)') <= 1 + unanswered'[s]
        /\ Ahead(s)' <= PerSymbol + Allowed(s)'
  BY <1>1, <1>3, <1>4, <1>5 DEF AheadInv, RunnerConfigured
<1>7. ASSUME stage \in {"risk", "approval", "submit"}, order.side = "buy"
      PROVE  /\ stage = "risk" =>
                  Ahead(order.symbol)' <= account[order.symbol] + Allowed(order.symbol)'
             /\ stage \in {"approval", "submit"} =>
                  /\ Cardinality(Buys(order.symbol)') <= unanswered[order.symbol]
                  /\ Ahead(order.symbol)' + order.cost <= PerSymbol + Allowed(order.symbol)'
  <2>1. order \in Runner!Orders
    BY <1>7 DEF AheadInv, RunnerTypes
  <2>2. PICK s \in Runner!Symbols : s = order.symbol
    BY <2>1 DEF Runner!Orders
  <2>3. order.cost \in Nat /\ PerSymbol \in Nat
    BY <2>1, AheadIsFinite, <2>2 DEF AheadInv, RunnerConfigured
  <2>4. /\ stage = "risk" => Ahead(s)' <= account[s] + Allowed(s)'
        /\ stage \in {"approval", "submit"} =>
             /\ Cardinality(Buys(s)') <= unanswered[s]
             /\ Ahead(s)' + order.cost <= PerSymbol + Allowed(s)'
    BY <1>3, <1>4, <1>5, <1>7, <2>2, <2>3 DEF AheadInv
  <2>5. order' = order
    BY <1>1
  <2> QED BY <2>2, <2>4, <2>5
<1> QED BY <1>1, <1>6, <1>7 DEF AheadInv

\* The other steps touch neither orders nor positions.
LEMMA AheadInvStep ==
    ASSUME RunnerConfigured, ChainsBound, AheadInv, RunnerTypes', [Runner!Next]_(Runner!vars)
    PROVE  AheadInv'
<1>1. CASE \/ Runner!StartCycle \/ Runner!Abort \/ Runner!ProcessSymbol \/ Runner!Approve
           \/ (Runner!Restart /\ stage # "answer") \/ Runner!CloseOrStop \/ Runner!Tick
           \/ UNCHANGED Runner!vars
  <2>1. /\ UNCHANGED <<owned, book, flying, unanswered, sent, gates>>
        /\ \/ UNCHANGED <<stage, order, account>>
           \/ stage # "answer" /\ stage' \in {"idle", "account"}
           \/ stage = "approval" /\ stage' = "submit" /\ UNCHANGED <<order, account>>
    BY <1>1 DEF Runner!StartCycle, Runner!Abort, Runner!ProcessSymbol, Runner!Approve,
                Runner!Restart, Runner!CloseOrStop, Runner!Tick, Runner!EndSymbol, Runner!vars,
                Runner!broker, Runner!runner, Runner!reads, Runner!history
  <2>2. stage' = stage \/ (stage # "answer" /\ stage' # "answer")
    BY <2>1
  <2>3. \A s : /\ Late(s)' = Late(s) /\ Buys(s)' = Buys(s)
               /\ Ahead(s)' = Ahead(s) /\ Allowed(s)' = Allowed(s)
    BY <2>1, <2>2, QuietKeepsAhead
  <2>4. \A s \in Runner!Symbols :
          /\ Cardinality(Late(s)') <= unanswered'[s]
          /\ Cardinality(Buys(s)') <= 1 + unanswered'[s]
          /\ Ahead(s)' <= PerSymbol + Allowed(s)'
    BY <2>1, <2>3 DEF AheadInv
  <2>5. CASE UNCHANGED <<stage, order, account>>
    BY <2>1, <2>3, <2>4, <2>5 DEF AheadInv
  <2>6. CASE stage # "answer" /\ stage' \in {"idle", "account"}
    BY <2>1, <2>4, <2>6 DEF AheadInv
  <2>7. CASE stage = "approval" /\ stage' = "submit" /\ UNCHANGED <<order, account>>
    BY <2>1, <2>3, <2>4, <2>7 DEF AheadInv
  <2> QED BY <2>1, <2>5, <2>6, <2>7
<1> QED
  BY <1>1, JudgingKeepsAhead, SubmitKeepsAhead, AnswerKeepsAhead, ArriveKeepsAhead,
     FillKeepsAhead DEF Runner!Next

\* What a symbol holds and has on order exceeds the limit of ExposureGate by one
\* order at most, and one more for each lost answer, however the reads of the
\* account and of the open orders, the approvals, the fills and restarts of the
\* process interleave (risk/gates, execution/gateway.py): SymbolExposureBounded.
THEOREM SymbolExposureHolds ==
    ASSUME RunnerConfigured, ChainsBound
    PROVE  Runner!Spec => [](Runner!TypeOK /\ Runner!SymbolExposureBounded)
<1>1. Runner!Init => RunnerTypes /\ AheadInv
  <2> SUFFICES ASSUME Runner!Init PROVE RunnerTypes /\ AheadInv
    OBVIOUS
  <2>1. RunnerTypes
    <3>1. sent \in Seq({}) /\ Len(sent) = 0
      BY DEF Runner!Init
    <3>2. Len(Watchlist) \in Nat /\ IsFiniteSet({})
      BY FS_EmptySet DEF RunnerConfigured, WatchlistConfigured
    <3>3. /\ Runner!Nothing \in [Runner!Symbols -> Nat]
          /\ Runner!Nothing \in [Runner!Symbols -> 0 .. MaxSent]
          /\ \A s \in Runner!Symbols : Runner!Nothing[s] = 0
      BY DEF Runner!Nothing, RunnerConfigured
    <3>4. [s \in Runner!Symbols |-> Runner!Never]
            \in [Runner!Symbols -> {Runner!Never} \union 0 .. MaxClock]
      OBVIOUS
    <3>5. Runner!TypeOK
      <4>1. /\ time \in 0 .. MaxClock /\ lost \in 0 .. LossLimit
            /\ knownLoss \in 0 .. LossLimit /\ waitUntil \in Nat
            /\ place \in 1 .. Len(Watchlist) + 1
        BY <3>2 DEF Runner!Init, RunnerConfigured
      <4>2. /\ stopFile \in BOOLEAN /\ marketOpen \in BOOLEAN /\ openAtStart \in BOOLEAN
            /\ stage \in Runner!Stages /\ order \in Runner!Orders \union {Runner!NoIntent}
        BY DEF Runner!Init, Runner!Stages
      <4>3. /\ owned \in [Runner!Symbols -> Nat] /\ account \in [Runner!Symbols -> Nat]
            /\ unanswered \in [Runner!Symbols -> 0 .. MaxSent]
            /\ lastFor \in [Runner!Symbols -> {Runner!Never} \union 0 .. MaxClock]
            /\ answered \in [Runner!Symbols -> {Runner!Never} \union 0 .. MaxClock]
        BY <3>3, <3>4 DEF Runner!Init
      <4>4. /\ book \union flying = {} /\ lastAny = Runner!Never
            /\ \A i \in 1 .. Len(sent) : sent[i].order \in Runner!Orders
        BY <3>1 DEF Runner!Init
      <4> QED BY <4>1, <4>2, <4>3, <4>4 DEF Runner!TypeOK
    <3> QED
      BY <3>1, <3>2, <3>3, <3>5 DEF Runner!Init, RunnerConfigured, RunnerTypes
  <2>2. ASSUME NEW s \in Runner!Symbols
        PROVE  /\ Cardinality(Late(s)) <= unanswered[s]
               /\ Cardinality(Buys(s)) <= 1 + unanswered[s]
               /\ Ahead(s) <= PerSymbol + Allowed(s)
    <3>1. Late(s) = {} /\ Buys(s) = {} /\ unanswered[s] = 0 /\ owned[s] = 0
      BY DEF Runner!Init, Runner!Nothing, Late, Buys, Runner!Open
    <3>2. Cardinality({}) = 0 /\ Runner!Ordered({}) = 0
      BY FS_EmptySet, CostsAdd
    <3>3. Ahead(s) = 0 /\ Allowed(s) \in Nat /\ PerSymbol \in Nat
      <4>1. Ahead(s) = 0 + 0
        BY <3>1, <3>2 DEF Ahead
      <4>2. Allowed(s) \in Nat
        BY <2>1, AheadIsFinite
      <4> QED BY <4>1, <4>2 DEF RunnerConfigured
    <3> QED BY <3>1, <3>2, <3>3
  <2> QED BY <2>1, <2>2 DEF Runner!Init, AheadInv
<1>2. RunnerTypes /\ AheadInv /\ [Runner!Next]_(Runner!vars) => RunnerTypes' /\ AheadInv'
  BY RunnerTypesStep, AheadInvStep
<1>3. RunnerTypes /\ AheadInv => Runner!TypeOK /\ Runner!SymbolExposureBounded
  BY DEF RunnerTypes, AheadInv, Runner!SymbolExposureBounded, Ahead, Allowed, Buys, Largest
<1> QED BY <1>1, <1>2, <1>3, PTL DEF Runner!Spec
-----------------------------------------------------------------------------
(* All the gates of RiskGateRunner *)

\* The chains that the runner is built with have the three gates.
ChainsComplete ==
    \A c \in Chains :
        {"order_rate_limit", "duplicate_order", "exposure_per_symbol"} \subseteq c

\* All that the run of the controls says of the gates, for any watchlist, costs,
\* limits and intervals, and any number of orders and restarts.
THEOREM GatesBoundOrdersAlways ==
    ASSUME RunnerConfigured, ChainsComplete
    PROVE  Runner!Spec => []Runner!GatesBoundOrders
<1>1. ChainsBound /\ WatchlistConfigured
  BY DEF ChainsBound, ChainsComplete, RunnerConfigured
<1>2. Runner!Spec => [](gates \in Chains)
  <2>1. Runner!Init => gates \in Chains
    BY DEF Runner!Init
  <2>2. gates \in Chains /\ [Runner!Next]_(Runner!vars) => (gates \in Chains)'
    BY DEF Runner!Next, Runner!StartCycle, Runner!Abort, Runner!ProcessSymbol,
           Runner!FetchAccount, Runner!RunGates, Runner!Approve, Runner!Submit,
           Runner!Answer, Runner!Restart, Runner!Arrive, Runner!Fill, Runner!CloseOrStop,
           Runner!Tick, Runner!vars
  <2> QED
    BY <2>1, <2>2, PTL DEF Runner!Spec
<1>3. gates \in Chains => "order_rate_limit" \in gates
  BY DEF ChainsComplete
<1>4. Runner!Spec => [](Runner!TypeOK /\ Runner!SymbolExposureBounded)
  BY <1>1, SymbolExposureHolds
<1>5. Runner!Spec => []("order_rate_limit" \in gates => Runner!CooldownAfterKnownOrder)
  BY <1>1, CooldownHolds
<1>6. Runner!TypeOK /\ Runner!SymbolExposureBounded /\ Runner!CooldownAfterKnownOrder
          => Runner!GatesBoundOrders
  BY DEF Runner!GatesBoundOrders
<1> QED
  BY <1>2, <1>3, <1>4, <1>5, <1>6, PTL
-----------------------------------------------------------------------------
(* The sessions of session records *)

\* There are finitely many sessions, and none of them is a line that does not
\* parse.
SessionsAreFinite == IsFiniteSet(Sessions) /\ None \notin Sessions /\ MaxTorn \in Nat

Lines(q) == {q[k] : k \in 1 .. Len(q)}

\* The sessions whose writer reported success and whose line is gone.
Gone == {s \in Sessions : writer[s] = "written" /\ s \notin Lines(sessions.lines)}

FileTypes ==
    /\ sessions \in [exists : BOOLEAN, private : BOOLEAN,
                     lines : Seq(Sessions \union {None}), tail : BOOLEAN]
    /\ writer \in [Sessions -> {"running", "create", "restrict", "check", "write",
                                "written", "failed"}]
    /\ torn \in Nat

\* A line without its end is what an interrupted write left.
TailIsTorn == sessions.tail => sessions.lines # <<>> /\ sessions.lines[Len(sessions.lines)] = None

\* Every interruption has hidden a record, or is still the last line.
LossesCounted == Cardinality(Gone) + (IF sessions.tail THEN 1 ELSE 0) <= torn

FileInv == FileTypes /\ TailIsTorn /\ LossesCounted

\* A line at the end of the file is one line more.
LEMMA LinesAppended ==
    ASSUME NEW S, NEW q \in Seq(S), NEW x
    PROVE  Lines(Append(q, x)) = Lines(q) \union {x}
<1>1. /\ Len(Append(q, x)) = Len(q) + 1 /\ Len(q) \in Nat
      /\ \A k \in 1 .. Len(q) : Append(q, x)[k] = q[k]
      /\ Append(q, x)[Len(q) + 1] = x
  OBVIOUS
<1>2. ASSUME NEW y \in Lines(Append(q, x))
      PROVE  y \in Lines(q) \union {x}
  <2>1. PICK k \in 1 .. Len(q) + 1 : y = Append(q, x)[k]
    BY <1>1 DEF Lines
  <2>2. k \in 1 .. Len(q) \/ k = Len(q) + 1
    BY <1>1
  <2> QED
    BY <1>1, <2>1, <2>2 DEF Lines
<1>3. ASSUME NEW k \in 1 .. Len(q)
      PROVE  q[k] \in Lines(Append(q, x))
  BY <1>1, k \in 1 .. Len(q) + 1 DEF Lines
<1>4. x \in Lines(Append(q, x))
  BY <1>1, Len(q) + 1 \in 1 .. Len(q) + 1 DEF Lines
<1> QED
  BY <1>2, <1>3, <1>4 DEF Lines

\* A line glued to an interrupted one replaces it: nothing else is touched.
LEMMA LinesGlued ==
    ASSUME NEW S, NEW q \in Seq(S), q # <<>>, q[Len(q)] = None
    PROVE  /\ Ending!Front(q) \in Seq(S)
           /\ Lines(Append(Ending!Front(q), None)) = Lines(q)
<1>1. Len(q) \in Nat \ {0}
  OBVIOUS
<1>2. /\ Ending!Front(q) \in Seq(S) /\ Len(Ending!Front(q)) = Len(q) - 1
      /\ \A k \in 1 .. Len(q) - 1 : Ending!Front(q)[k] = q[k]
  <2> DEFINE n == Len(q) - 1
  <2>1. n \in Int /\ n >= 0 /\ \A k \in 1 .. n : q[k] \in S
    BY <1>1
  <2> HIDE DEF n
  <2>2. /\ SubSeq(q, 1, n) \in Seq(S)
        /\ Len(SubSeq(q, 1, n)) = IF 1 <= n THEN n - 1 + 1 ELSE 0
        /\ \A k \in 1 .. n - 1 + 1 : SubSeq(q, 1, n)[k] = q[1 + k - 1]
    BY <2>1, SubSeqProperties
  <2>3. Len(SubSeq(q, 1, n)) = n /\ \A k \in 1 .. n : SubSeq(q, 1, n)[k] = q[k]
    BY <2>1, <2>2
  <2> QED
    BY <2>2, <2>3 DEF Ending!Front, n
<1>3. Lines(Append(Ending!Front(q), None)) = Lines(Ending!Front(q)) \union {None}
  BY <1>2, LinesAppended
<1>4. Lines(Ending!Front(q)) \union {None} = Lines(q)
  <2>1. ASSUME NEW k \in 1 .. Len(q)
        PROVE  q[k] \in Lines(Ending!Front(q)) \union {None}
    <3>1. k = Len(q) \/ k \in 1 .. Len(q) - 1
      BY <1>1
    <3> QED
      BY <1>2, <3>1 DEF Lines
  <2>2. ASSUME NEW k \in 1 .. Len(q) - 1
        PROVE  Ending!Front(q)[k] \in Lines(q)
    BY <1>1, <1>2, k \in 1 .. Len(q) DEF Lines
  <2>3. None \in Lines(q)
    BY <1>1, Len(q) \in 1 .. Len(q) DEF Lines
  <2> QED
    BY <1>2, <2>1, <2>2, <2>3 DEF Lines
<1> QED
  BY <1>2, <1>3, <1>4

\* An operation that leaves the lines and the successes as they are, and
\* completes no line, keeps the count.
LEMMA WriterMovesOn ==
    ASSUME FileInv, NEW s \in Sessions, NEW from, NEW to, Ending!Goes(s, from, to),
           from # "written", to # "written",
           to \in {"check", "create", "restrict", "write", "failed"},
           sessions'.lines = sessions.lines, sessions'.tail = sessions.tail, torn' = torn,
           sessions' \in [exists : BOOLEAN, private : BOOLEAN,
                          lines : Seq(Sessions \union {None}), tail : BOOLEAN]
    PROVE  FileInv'
<1> USE DEF FileInv, FileTypes
<1>1. writer' = [writer EXCEPT ![s] = to]
  BY DEF Ending!Goes
<1>2. \A t \in Sessions : writer'[t] = "written" => writer[t] = "written"
  BY <1>1
<1>3. \A t \in Sessions : writer[t] = "written" => writer'[t] = "written"
  BY <1>1 DEF Ending!Goes
<1>4. Gone' = Gone
  BY <1>2, <1>3 DEF Gone
<1>5. TailIsTorn' /\ LossesCounted'
  BY <1>4 DEF TailIsTorn, LossesCounted
<1> QED
  BY <1>1, <1>5

\* What Appended leaves: the old lines with the new one, unless the file ended
\* within a line, which then stays unreadable.
LEMMA AppendedLines ==
    ASSUME FileInv, NEW line \in Sessions \union {None}, NEW tail \in BOOLEAN,
           Ending!Appended(line, tail)
    PROVE  /\ sessions' \in [exists : BOOLEAN, private : BOOLEAN,
                             lines : Seq(Sessions \union {None}), tail : BOOLEAN]
           /\ sessions'.tail = tail
           /\ sessions'.lines # <<>>
           /\ sessions'.lines[Len(sessions'.lines)] = IF sessions.tail THEN None ELSE line
           /\ Lines(sessions'.lines) = IF sessions.tail THEN Lines(sessions.lines)
                                                        ELSE Lines(sessions.lines) \union {line}
<1> USE DEF FileInv, FileTypes
<1> DEFINE old == sessions.lines
           new == IF sessions.tail THEN Append(Ending!Front(old), None) ELSE Append(old, line)
<1>1. sessions' = [sessions EXCEPT !.lines = new, !.tail = tail]
  BY DEF Ending!Appended
<1>2. old \in Seq(Sessions \union {None})
  OBVIOUS
<1>3. /\ new \in Seq(Sessions \union {None}) /\ new # <<>>
      /\ new[Len(new)] = IF sessions.tail THEN None ELSE line
      /\ Lines(new) = IF sessions.tail THEN Lines(old) ELSE Lines(old) \union {line}
  <2>1. CASE sessions.tail
    <3>1. old # <<>> /\ old[Len(old)] = None
      BY <2>1 DEF TailIsTorn
    <3>2. /\ Ending!Front(old) \in Seq(Sessions \union {None})
          /\ Lines(Append(Ending!Front(old), None)) = Lines(old)
      BY <1>2, <3>1, LinesGlued
    <3> QED
      BY <2>1, <3>2
  <2>2. CASE ~sessions.tail
    <3>1. Lines(Append(old, line)) = Lines(old) \union {line}
      BY <1>2, LinesAppended
    <3> QED
      BY <1>2, <2>2, <3>1
  <2> QED
    BY <2>1, <2>2
<1> HIDE DEF new
<1>4. sessions'.lines = new /\ sessions'.tail = tail
  BY <1>1
<1>5. sessions' \in [exists : BOOLEAN, private : BOOLEAN,
                     lines : Seq(Sessions \union {None}), tail : BOOLEAN]
  BY <1>1, <1>3
<1> QED
  BY <1>3, <1>4, <1>5

\* Adding a session to the lost ones costs one.
LEMMA GoneGrows ==
    ASSUME SessionsAreFinite, NEW G \in SUBSET Sessions, NEW H \in SUBSET Sessions,
           NEW s \in Sessions, H \subseteq G \union {s}
    PROVE  /\ Cardinality(G) \in Nat /\ Cardinality(H) \in Nat
           /\ Cardinality(H) <= Cardinality(G) + 1
           /\ H \subseteq G => Cardinality(H) <= Cardinality(G)
<1>1. IsFiniteSet(G) /\ IsFiniteSet(H)
  BY FS_Subset DEF SessionsAreFinite
<1>2. Cardinality(G) \in Nat /\ Cardinality(H) \in Nat
  BY <1>1, FS_CardinalityType
<1>3. /\ IsFiniteSet(G \union {s})
      /\ Cardinality(G \union {s}) = IF s \in G THEN Cardinality(G) ELSE Cardinality(G) + 1
  BY <1>1, FS_AddElement
<1>4. Cardinality(H) <= Cardinality(G \union {s})
  BY <1>3, FS_Subset
<1>5. H \subseteq G => Cardinality(H) <= Cardinality(G)
  BY <1>1, FS_Subset
<1> QED
  BY <1>2, <1>3, <1>4, <1>5

\* Each step of a writer, whole, interrupted or failing, keeps it.
LEMMA FileInvStep ==
    ASSUME SessionsAreFinite, FileInv, [Ending!Next]_(Ending!vars)
    PROVE  FileInv'
<1> USE DEF FileInv
<1> DEFINE Files == [exists : BOOLEAN, private : BOOLEAN,
                     lines : Seq(Sessions \union {None}), tail : BOOLEAN]
<1>1. ASSUME NEW s \in Sessions, Ending!Look(s) \/ Ending!CheckMode(s)
      PROVE  FileInv'
  <2>1. UNCHANGED <<sessions, torn>>
    BY <1>1 DEF Ending!Look, Ending!CheckMode
  <2>2. sessions' \in Files
    BY <2>1 DEF FileTypes
  <2>3. \E from \in {"running", "check"}, to \in {"check", "create", "write", "failed"} :
          Ending!Goes(s, from, to)
    BY <1>1 DEF Ending!Look, Ending!CheckMode
  <2> QED
    BY <2>1, <2>2, <2>3, WriterMovesOn
<1>2. ASSUME NEW s \in Sessions, Ending!Create(s)
      PROVE  FileInv'
  <2>1. sessions'.lines = sessions.lines /\ sessions'.tail = sessions.tail /\ torn' = torn /\ sessions' \in Files
    BY <1>2 DEF Ending!Create, FileTypes
  <2>2. Ending!Goes(s, "create", IF sessions.exists THEN "failed" ELSE "restrict")
    BY <1>2 DEF Ending!Create
  <2>3. \E to \in {"failed", "restrict"} : Ending!Goes(s, "create", to)
    BY <2>2
  <2> QED
    BY <2>1, <2>3, WriterMovesOn
<1>3. ASSUME NEW s \in Sessions, Ending!MakePrivate(s)
      PROVE  FileInv'
  <2>1. sessions'.lines = sessions.lines /\ sessions'.tail = sessions.tail /\ torn' = torn /\ sessions' \in Files
    BY <1>3 DEF Ending!MakePrivate, FileTypes
  <2>2. Ending!Goes(s, "restrict", "check")
    BY <1>3 DEF Ending!MakePrivate
  <2> QED
    BY <2>1, <2>2, WriterMovesOn
<1>4. ASSUME NEW s \in Sessions, Ending!Write(s)
      PROVE  FileInv'
  <2>1. /\ writer[s] = "write" /\ writer' = [writer EXCEPT ![s] = "written"]
        /\ Ending!Appended(s, FALSE) /\ torn' = torn
    BY <1>4 DEF Ending!Write, Ending!Goes
  <2>2. /\ sessions' \in Files /\ sessions'.tail = FALSE
        /\ Lines(sessions'.lines) = IF sessions.tail THEN Lines(sessions.lines)
                                                    ELSE Lines(sessions.lines) \union {s}
    BY <2>1, AppendedLines
  <2>3. FileTypes'
    BY <2>1, <2>2 DEF FileTypes
  <2>4. Gone' \subseteq Gone \union {s} /\ (~sessions.tail => Gone' \subseteq Gone)
    BY <2>1, <2>2 DEF Gone, FileTypes
  <2>5. Gone \in SUBSET Sessions /\ Gone' \in SUBSET Sessions
    BY DEF Gone
  <2>6. /\ Cardinality(Gone) \in Nat /\ Cardinality(Gone') \in Nat
        /\ Cardinality(Gone') <= Cardinality(Gone) + 1
        /\ Gone' \subseteq Gone => Cardinality(Gone') <= Cardinality(Gone)
    BY <2>4, <2>5, GoneGrows
  <2>7. LossesCounted'
    BY <2>1, <2>2, <2>4, <2>6 DEF LossesCounted, FileTypes
  <2> QED
    BY <2>2, <2>3, <2>7 DEF TailIsTorn
<1>5. ASSUME NEW s \in Sessions, Ending!WriteFails(s)
      PROVE  FileInv'
  <2>1. writer[s] = "write" /\ writer' = [writer EXCEPT ![s] = "failed"]
    BY <1>5 DEF Ending!WriteFails, Ending!Goes
  <2>2. CASE UNCHANGED <<torn, sessions>>
    <3>1. Ending!Goes(s, "write", "failed") /\ sessions' \in Files
      BY <1>5, <2>2 DEF Ending!WriteFails, FileTypes
    <3> QED
      BY <2>2, <3>1, WriterMovesOn
  <2>3. CASE torn' = torn + 1 /\ Ending!Appended(None, TRUE)
    <3>1. /\ sessions' \in Files /\ sessions'.tail = TRUE
          /\ sessions'.lines # <<>> /\ sessions'.lines[Len(sessions'.lines)] = None
          /\ Lines(sessions.lines) \subseteq Lines(sessions'.lines)
      BY <2>3, AppendedLines
    <3>2. FileTypes'
      BY <2>1, <2>3, <3>1 DEF FileTypes
    <3>3. Gone' \subseteq Gone
      BY <2>1, <3>1 DEF Gone, FileTypes
    <3>4. Gone \in SUBSET Sessions /\ Gone' \in SUBSET Sessions
      BY DEF Gone
    <3>5. /\ Cardinality(Gone) \in Nat /\ Cardinality(Gone') \in Nat
          /\ Cardinality(Gone') <= Cardinality(Gone)
      BY <3>3, <3>4, GoneGrows
    <3>6. LossesCounted'
      BY <2>3, <3>1, <3>5 DEF LossesCounted, FileTypes
    <3> QED
      BY <3>1, <3>2, <3>6 DEF TailIsTorn
  <2> QED
    BY <1>5, <2>2, <2>3 DEF Ending!WriteFails
<1>6. CASE Ending!Loosen \/ UNCHANGED Ending!vars
  <2>1. /\ sessions'.lines = sessions.lines /\ sessions'.tail = sessions.tail /\ sessions' \in Files
        /\ UNCHANGED <<writer, torn>>
    BY <1>6 DEF Ending!Loosen, Ending!vars, FileTypes
  <2>2. Gone' = Gone
    BY <2>1 DEF Gone
  <2> QED
    BY <2>1, <2>2 DEF FileTypes, TailIsTorn, LossesCounted
<1> QED
  BY <1>1, <1>2, <1>3, <1>4, <1>5, <1>6 DEF Ending!Next

\* Nothing is written, and nothing lost, at the start.
LEMMA FileInvStarts == ASSUME SessionsAreFinite, Ending!Init PROVE FileInv
<1>1. Gone = {}
  BY DEF Ending!Init, Gone
<1>2. Cardinality(Gone) = 0
  BY <1>1, FS_EmptySet
<1> QED
  BY <1>2 DEF Ending!Init, FileInv, FileTypes, TailIsTorn, LossesCounted

\* A session whose writer reported success can be read back, whatever other
\* processes wrote at the same time: at most one record is lost for each write
\* that stopped in the middle (_session_history_writer.py).
THEOREM RecordsSurviveAlways ==
    ASSUME SessionsAreFinite
    PROVE  Ending!Spec => []Ending!RecordsSurvive
<1>1. Ending!Init => FileInv
  BY FileInvStarts
<1>2. FileInv /\ [Ending!Next]_(Ending!vars) => FileInv'
  BY FileInvStep
<1>3. FileInv => Ending!RecordsSurvive
  <2> SUFFICES ASSUME FileInv PROVE Ending!RecordsSurvive
    OBVIOUS
  <2>1. {s \in Sessions : writer[s] = "written" /\ s \notin Ending!ToSet(sessions.lines)} = Gone
    BY DEF Gone, Lines, Ending!ToSet, FileInv, FileTypes
  <2>2. Gone \in SUBSET Sessions
    BY DEF Gone
  <2>3. Cardinality(Gone) \in Nat
    BY <2>2, FS_Subset, FS_CardinalityType DEF SessionsAreFinite
  <2>4. Cardinality(Gone) <= torn
    BY <2>3 DEF FileInv, FileTypes, LossesCounted
  <2>5. Ending!Cardinality(Gone) = Cardinality(Gone)
    BY DEF Ending!Cardinality, Cardinality
  <2> QED
    BY <2>1, <2>4, <2>5 DEF Ending!RecordsSurvive
<1> QED
  BY <1>1, <1>2, <1>3, PTL DEF Ending!Spec
-----------------------------------------------------------------------------
(* The ladder of capacities *)

\* What _validate_ladder and the signals' own checks demand.
LadderConfigured ==
    /\ Ladder \in Seq(Nat \ {0}) /\ Ladder # <<>>
    /\ Profits \subseteq Int /\ Exceptions \subseteq Nat /\ LossThreshold \in Nat

\* What the signals of a session are.
LEMMA SignalFields ==
    ASSUME LadderConfigured, NEW session \in Ending!Signals
    PROVE  /\ session.profit \in Int /\ session.exceptions \in Nat
           /\ session.severity \in {"ok", "minor", "major", "missing"}
BY DEF LadderConfigured, Ending!Signals, Ending!Severities

\* A better session is recommended no lower a step before losses are counted.
LEMMA BaseStepGrows ==
    ASSUME LadderConfigured, NEW good \in Ending!Signals, NEW bad \in Ending!Signals,
           Ending!AsGood(good, bad), bad.severity # "major", good.severity # "major",
           NEW from \in 1 .. Len(Ladder)
    PROVE  Ending!BaseStep(bad, from) <= Ending!BaseStep(good, from)
<1>1. from \in Nat /\ Len(Ladder) \in Nat /\ 1 <= from /\ from <= Len(Ladder)
  BY DEF LadderConfigured
<1> QED
  BY <1>1, SignalFields
     DEF Ending!AsGood, Ending!BaseStep, Ending!AtLeastFirst, Ending!AtMostLast

\* A step of the ladder stays on it.
LEMMA BaseStepOnLadder ==
    ASSUME LadderConfigured, NEW session \in Ending!Signals, NEW from \in 1 .. Len(Ladder)
    PROVE  Ending!BaseStep(session, from) \in 1 .. Len(Ladder)
<1>1. from \in Nat /\ Len(Ladder) \in Nat /\ 1 <= from /\ from <= Len(Ladder)
  BY DEF LadderConfigured
<1> QED
  BY <1>1, SignalFields DEF Ending!BaseStep, Ending!AtLeastFirst, Ending!AtMostLast

\* A worse session, and a longer run of losses, never earn a larger next
\* session, whatever the ladder (capacity_advisor.py, capacity_recommender.py).
THEOREM WorseNeverEarnsMoreAlways ==
    ASSUME LadderConfigured, NEW good \in Ending!Signals, NEW bad \in Ending!Signals,
           NEW from \in 1 .. Len(Ladder), NEW losses \in Nat
    PROVE  Ending!WorseNeverEarnsMore(good, bad, from, losses)
<1> SUFFICES ASSUME Ending!AsGood(good, bad)
             PROVE  /\ Ending!Recommend(bad, from, losses) <= Ending!Recommend(good, from, losses)
                    /\ Ending!Recommend(good, from, losses + 1) <= Ending!Recommend(good, from, losses)
                    /\ Ending!Stage(bad) <= Ending!Stage(good)
  BY DEF Ending!WorseNeverEarnsMore
<1>1. /\ Ending!BaseStep(good, from) \in 1 .. Len(Ladder)
      /\ Ending!BaseStep(bad, from) \in 1 .. Len(Ladder)
      /\ Len(Ladder) \in Nat /\ LossThreshold \in Nat
  BY BaseStepOnLadder DEF LadderConfigured
<1>2. Ending!Recommend(bad, from, losses) <= Ending!Recommend(good, from, losses)
  <2>1. good.severity = "major" => bad.severity = "major"
    BY DEF Ending!AsGood
  <2>2. CASE bad.severity = "major"
    BY <1>1, <2>2 DEF Ending!Recommend, Ending!AtLeastFirst
  <2>3. CASE bad.severity # "major"
    <3>1. Ending!BaseStep(bad, from) <= Ending!BaseStep(good, from)
      BY <2>1, <2>3, BaseStepGrows
    <3> QED
      BY <1>1, <2>1, <2>3, <3>1 DEF Ending!Recommend, Ending!AtLeastFirst
  <2> QED
    BY <2>2, <2>3
<1>3. Ending!Recommend(good, from, losses + 1) <= Ending!Recommend(good, from, losses)
  BY <1>1 DEF Ending!Recommend, Ending!AtLeastFirst
<1>4. Ending!Stage(bad) <= Ending!Stage(good)
  BY SignalFields DEF Ending!Stage, Ending!Score, Ending!AsGood
<1> QED
  BY <1>2, <1>3, <1>4

\* Once the losses reach the threshold the next session is no larger than the
\* last, and smaller after one more losing day unless it is at the first step.
THEOREM LossesLowerTheStep ==
    ASSUME LadderConfigured, NEW session \in Ending!Signals,
           NEW from \in 1 .. Len(Ladder), NEW losses \in Nat, losses >= LossThreshold
    PROVE  /\ Ending!Recommend(session, from, losses) \in 1 .. from
           /\ from > 1 /\ session.profit < 0 => Ending!Recommend(session, from, losses) < from
<1>1. from \in Nat /\ Len(Ladder) \in Nat /\ LossThreshold \in Nat /\ 1 <= from /\ from <= Len(Ladder)
  BY DEF LadderConfigured
<1> QED
  BY <1>1, SignalFields
     DEF Ending!Recommend, Ending!BaseStep, Ending!AtLeastFirst, Ending!AtMostLast
-----------------------------------------------------------------------------
(* What the reader makes of the lines: a sorted history and its losses *)

\* Sessions write numbers, and a reader asks for a moment.
SessionsConfigured ==
    /\ SessionsAreFinite
    /\ EndsAt \in [Sessions -> Int] /\ Realized \in [Sessions -> Int]
    /\ Cutoffs \subseteq Int /\ Capitals \subseteq Int

LEMMA EndingCounts == \A S : Ending!Cardinality(S) = Cardinality(S)
BY DEF Ending!Cardinality, Cardinality

\* The place of a kept line in the sorted history.
PlaceOf(lines, kept, i) == Cardinality(Ending!UpTo(lines, kept, i))

\* Kept lines tell of sessions, and there are finitely many of them.
LEMMA KeptLines ==
    ASSUME SessionsConfigured, NEW lines \in Seq(Sessions \union {None}), NEW cutoff \in Int
    PROVE  LET kept == Ending!Kept(lines, cutoff)
           IN  /\ IsFiniteSet(kept) /\ kept \subseteq Nat /\ kept \subseteq DOMAIN lines
               /\ \A i \in kept : /\ lines[i] \in Sessions /\ EndsAt[lines[i]] \in Int
                                  /\ Realized[lines[i]] \in Int
<1> DEFINE kept == Ending!Kept(lines, cutoff)
<1>1. DOMAIN lines = 1 .. Len(lines) /\ Len(lines) \in Nat
  OBVIOUS
<1>2. kept \subseteq 1 .. Len(lines)
  BY <1>1 DEF Ending!Kept
<1>3. IsFiniteSet(1 .. Len(lines))
  BY <1>1, FS_Interval
<1>4. IsFiniteSet(kept)
  <2> HIDE DEF kept
  <2> QED BY <1>2, <1>3, FS_Subset
<1>5. ASSUME NEW i \in kept
      PROVE  /\ lines[i] \in Sessions /\ EndsAt[lines[i]] \in Int
             /\ Realized[lines[i]] \in Int
  <2>1. lines[i] \in Sessions \union {None} /\ lines[i] # None
    BY <1>1, <1>2 DEF Ending!Kept
  <2> QED
    BY <2>1 DEF SessionsConfigured
<1> HIDE DEF kept
<1>6. kept \subseteq Nat
  BY <1>1, <1>2
<1> QED
  BY <1>1, <1>2, <1>4, <1>5, <1>6 DEF kept

\* Of two kept lines the one that comes first in the history has the smaller
\* place: lines of one moment stay in the order they were written in.
LEMMA PlacesFollowTime ==
    ASSUME SessionsConfigured, NEW lines \in Seq(Sessions \union {None}), NEW cutoff \in Int,
           NEW i \in Ending!Kept(lines, cutoff), NEW j \in Ending!Kept(lines, cutoff), i # j,
           i \in Ending!UpTo(lines, Ending!Kept(lines, cutoff), j)
    PROVE  PlaceOf(lines, Ending!Kept(lines, cutoff), i)
             < PlaceOf(lines, Ending!Kept(lines, cutoff), j)
<1> DEFINE kept == Ending!Kept(lines, cutoff)
           upto(k) == Ending!UpTo(lines, kept, k)
<1>1. /\ IsFiniteSet(kept) /\ kept \subseteq Nat
      /\ \A k \in kept : EndsAt[lines[k]] \in Int
  BY KeptLines
<1>2. i \in kept /\ j \in kept /\ i \in upto(j)
  OBVIOUS
<1> HIDE DEF kept
<1>3. j \notin upto(i) /\ j \in upto(j)
  BY <1>1, <1>2 DEF Ending!UpTo
<1>4. upto(i) \subseteq upto(j) /\ upto(j) \subseteq kept
  <2>1. \/ EndsAt[lines[i]] < EndsAt[lines[j]]
        \/ EndsAt[lines[i]] = EndsAt[lines[j]] /\ i <= j
    BY <1>2 DEF Ending!UpTo
  <2>2. ASSUME NEW k \in upto(i)
        PROVE  k \in upto(j)
    <3>1. /\ k \in kept
          /\ \/ EndsAt[lines[k]] < EndsAt[lines[i]]
             \/ EndsAt[lines[k]] = EndsAt[lines[i]] /\ k <= i
      BY DEF Ending!UpTo
    <3>2. /\ k \in Int /\ i \in Int /\ j \in Int
          /\ EndsAt[lines[k]] \in Int /\ EndsAt[lines[i]] \in Int /\ EndsAt[lines[j]] \in Int
      BY <1>1, <1>2, <3>1
    <3>3. \/ EndsAt[lines[k]] < EndsAt[lines[j]]
          \/ EndsAt[lines[k]] = EndsAt[lines[j]] /\ k <= j
      BY <2>1, <3>1, <3>2
    <3> QED
      BY <3>1, <3>3 DEF Ending!UpTo
  <2>3. upto(j) \subseteq kept
    BY DEF Ending!UpTo
  <2> HIDE DEF upto
  <2> QED
    BY <2>2, <2>3
<1> HIDE DEF upto
<1>5. IsFiniteSet(upto(j)) /\ IsFiniteSet(upto(i))
  <2>1. IsFiniteSet(upto(j))
    BY <1>1, <1>4, FS_Subset
  <2> QED
    BY <1>4, <2>1, FS_Subset
<1>6. /\ Cardinality(upto(i)) <= Cardinality(upto(j))
      /\ Cardinality(upto(i)) # Cardinality(upto(j))
      /\ Cardinality(upto(i)) \in Nat /\ Cardinality(upto(j)) \in Nat
  BY <1>3, <1>4, <1>5, FS_Subset, FS_CardinalityType
<1> QED
  BY <1>6 DEF PlaceOf, upto, kept

\* Each kept line has a place of its own, from the first to the last.
LEMMA PlacesAreTaken ==
    ASSUME SessionsConfigured, NEW lines \in Seq(Sessions \union {None}), NEW cutoff \in Int
    PROVE  LET kept == Ending!Kept(lines, cutoff)
           IN  /\ Cardinality(kept) \in Nat
               /\ \A i \in kept : PlaceOf(lines, kept, i) \in 1 .. Cardinality(kept)
               /\ \A i, j \in kept : PlaceOf(lines, kept, i) = PlaceOf(lines, kept, j) => i = j
               /\ \A n \in 1 .. Cardinality(kept) : \E i \in kept : PlaceOf(lines, kept, i) = n
<1> DEFINE kept == Ending!Kept(lines, cutoff)
           rank == [i \in kept |-> PlaceOf(lines, kept, i)]
<1>1. /\ IsFiniteSet(kept) /\ kept \subseteq Nat
      /\ \A k \in kept : EndsAt[lines[k]] \in Int
  BY KeptLines
<1>2. \A i, j \in kept : PlaceOf(lines, kept, i) = PlaceOf(lines, kept, j) => i = j
  <2> SUFFICES ASSUME NEW i \in kept, NEW j \in kept, i # j
               PROVE  PlaceOf(lines, kept, i) # PlaceOf(lines, kept, j)
    OBVIOUS
  <2>1. i \in Ending!UpTo(lines, kept, j) \/ j \in Ending!UpTo(lines, kept, i)
    <3> HIDE DEF kept
    <3> QED BY <1>1 DEF Ending!UpTo
  <2>2. \/ PlaceOf(lines, kept, i) < PlaceOf(lines, kept, j)
        \/ PlaceOf(lines, kept, j) < PlaceOf(lines, kept, i)
    BY <2>1, PlacesFollowTime
  <2>3. PlaceOf(lines, kept, i) \in Nat /\ PlaceOf(lines, kept, j) \in Nat
    <3> HIDE DEF kept
    <3>1. \A k : Ending!UpTo(lines, kept, k) \subseteq kept
      BY DEF Ending!UpTo
    <3> QED BY <1>1, <3>1, FS_Subset, FS_CardinalityType DEF PlaceOf
  <2> QED
    BY <2>2, <2>3
<1>3. Cardinality(kept) \in Nat
  <2> HIDE DEF kept
  <2> QED BY <1>1, FS_CardinalityType
<1> HIDE DEF kept
<1>4. ASSUME NEW i \in kept
      PROVE  PlaceOf(lines, kept, i) \in 1 .. Cardinality(kept)
  <2> DEFINE upto == Ending!UpTo(lines, kept, i)
  <2>1. upto \subseteq kept /\ i \in upto
    BY <1>1, <1>4 DEF Ending!UpTo
  <2> HIDE DEF upto
  <2>2. IsFiniteSet(upto) /\ Cardinality(upto) <= Cardinality(kept)
    BY <1>1, <2>1, FS_Subset
  <2>3. Cardinality(upto) \in Nat /\ Cardinality(upto) # 0
    BY <2>1, <2>2, FS_CardinalityType, FS_EmptySet
  <2> QED
    BY <1>3, <2>2, <2>3 DEF PlaceOf, upto
<1> DEFINE N == 1 .. Cardinality(kept)
<1>5. rank \in Injection(kept, N)
  BY <1>2, <1>4 DEF Injection, IsInjective
<1>6. IsFiniteSet(N) /\ Cardinality(N) = Cardinality(kept)
  BY <1>3, FS_Interval
<1> HIDE DEF N, rank
<1>7. rank \in Surjection(kept, N)
  BY <1>5, <1>6, FS_Injection
<1>8. \A n \in N : \E i \in kept : PlaceOf(lines, kept, i) = n
  BY <1>7 DEF Surjection, rank
<1> QED
  BY <1>2, <1>3, <1>4, <1>8 DEF kept, N

\* The history has one record for each kept line, at its place.
LEMMA RecordsAreSorted ==
    ASSUME SessionsConfigured, NEW lines \in Seq(Sessions \union {None}), NEW cutoff \in Int
    PROVE  LET kept == Ending!Kept(lines, cutoff)
               sorted == Ending!Records(lines, cutoff)
           IN  /\ sorted \in Seq(Sessions) /\ Len(sorted) = Cardinality(kept)
               /\ \A i \in kept : sorted[PlaceOf(lines, kept, i)] = lines[i]
<1> DEFINE kept == Ending!Kept(lines, cutoff)
           line(n) == CHOOSE i \in kept : PlaceOf(lines, kept, i) = n
           sorted == Ending!Records(lines, cutoff)
<1>1. sorted = [n \in 1 .. Cardinality(kept) |-> lines[line(n)]]
  BY DEF Ending!Records, PlaceOf, Ending!Cardinality, Cardinality
<1>2. /\ Cardinality(kept) \in Nat
      /\ \A i \in kept : PlaceOf(lines, kept, i) \in 1 .. Cardinality(kept)
      /\ \A i, j \in kept : PlaceOf(lines, kept, i) = PlaceOf(lines, kept, j) => i = j
      /\ \A n \in 1 .. Cardinality(kept) : \E i \in kept : PlaceOf(lines, kept, i) = n
  BY PlacesAreTaken
<1>3. \A i \in kept : lines[i] \in Sessions
  BY KeptLines
<1> HIDE DEF kept, sorted
<1>4. \A n \in 1 .. Cardinality(kept) : line(n) \in kept /\ PlaceOf(lines, kept, line(n)) = n
  BY <1>2
<1>5. \A i \in kept : line(PlaceOf(lines, kept, i)) = i
  BY <1>2, <1>4
<1> HIDE DEF line
<1>6. \A n \in 1 .. Cardinality(kept) : lines[line(n)] \in Sessions
  BY <1>3, <1>4
<1>7. sorted \in Seq(Sessions) /\ Len(sorted) = Cardinality(kept)
  BY <1>1, <1>2, <1>6, IsASeq
<1>8. \A i \in kept : sorted[PlaceOf(lines, kept, i)] = lines[i]
  BY <1>1, <1>2, <1>5
<1> QED
  BY <1>7, <1>8 DEF kept, sorted

\* A set of places has a last one.
LEMMA GreatestNatural ==
    ASSUME NEW m \in Nat, NEW T, T \subseteq 1 .. m, T # {}
    PROVE  \E x \in T : \A y \in T : x >= y
<1> DEFINE Below == {m - y : y \in T}
<1>1. Below \subseteq Nat /\ Below # {}
  <2>1. PICK y \in T : TRUE
    OBVIOUS
  <2>2. m - y \in Below
    BY <2>1
  <2>3. \A z \in T : m - z \in Nat
    OBVIOUS
  <2> QED BY <2>2, <2>3
<1>2. PICK b \in Below : \A c \in Below : b <= c
  <2> HIDE DEF Below
  <2> QED BY <1>1, LeastNatural
<1>3. PICK x \in T : b = m - x
  OBVIOUS
<1>4. ASSUME NEW y \in T PROVE x >= y
  <2>1. m - y \in Below
    OBVIOUS
  <2>2. m - x <= m - y
    BY <1>2, <1>3, <2>1
  <2> QED
    BY <2>2
<1> QED
  BY <1>4

\* The record before the losses at the end, if there is one, is no loss.
LEMMA LossesAtTheEnd ==
    ASSUME SessionsConfigured, NEW sorted \in Seq(Sessions)
    PROVE  \E last \in 0 .. Len(sorted) :
              /\ Ending!ConsecutiveLosses(sorted) = Len(sorted) - last
              /\ last > 0 => Realized[sorted[last]] >= 0
<1> DEFINE T == {i \in 1 .. Len(sorted) : Realized[sorted[i]] >= 0}
           last == IF T # {} THEN CHOOSE x \in T : \A y \in T : x >= y ELSE 0
<1>1. Ending!ConsecutiveLosses(sorted) = Len(sorted) - last
  BY DEF Ending!ConsecutiveLosses, Ending!SelectLastInSeq, Ending!Max
<1>2. Len(sorted) \in Nat /\ T \subseteq 1 .. Len(sorted)
  OBVIOUS
<1>3. CASE T = {}
  BY <1>1, <1>2, <1>3
<1>4. CASE T # {}
  <2>1. \E x \in T : \A y \in T : x >= y
    <3> HIDE DEF T
    <3> QED BY <1>2, <1>4, GreatestNatural
  <2>2. last \in T
    BY <1>4, <2>1
  <2> HIDE DEF last
  <2> QED
    BY <1>1, <1>2, <2>2
<1> QED
  BY <1>3, <1>4

\* The latest sessions on disk, if they all lost, are among the losses that are
\* counted, in whatever order their lines were written.
LEMMA LatestLossesCount ==
    ASSUME SessionsConfigured, sessions.lines \in Seq(Sessions \union {None}), NEW cutoff \in Int
    PROVE  LET losses == Ending!ConsecutiveLosses(Ending!Records(sessions.lines, cutoff))
               latest == Ending!Cardinality(Ending!LatestLosses(cutoff))
           IN  losses \in Nat /\ latest \in Nat /\ latest <= losses
<1> DEFINE lines == sessions.lines
           kept == Ending!Kept(lines, cutoff)
           sorted == Ending!Records(lines, cutoff)
           latest == Ending!LatestLosses(cutoff)
           total == Cardinality(kept)
           rank(i) == PlaceOf(lines, kept, i)
<1>1. sorted \in Seq(Sessions) /\ Len(sorted) = total
  BY RecordsAreSorted
<1>2. \A i \in kept : sorted[rank(i)] = lines[i]
  BY RecordsAreSorted
<1>3. /\ total \in Nat
      /\ \A i \in kept : rank(i) \in 1 .. total
      /\ \A i, j \in kept : rank(i) = rank(j) => i = j
      /\ \A n \in 1 .. total : \E i \in kept : rank(i) = n
  BY PlacesAreTaken
<1>4. /\ kept \subseteq Nat
      /\ \A i \in kept : /\ lines[i] \in Sessions /\ EndsAt[lines[i]] \in Int
                         /\ Realized[lines[i]] \in Int
  BY KeptLines
<1>5. PICK last \in 0 .. total :
         /\ Ending!ConsecutiveLosses(sorted) = total - last
         /\ last > 0 => Realized[sorted[last]] >= 0
  <2> HIDE DEF sorted
  <2> QED BY <1>1, LossesAtTheEnd
\* Each of the latest losses has a line that is kept, and no line that is kept
\* and not earlier is a gain.
<1>6. ASSUME NEW s \in latest
      PROVE  \E i \in kept : lines[i] = s
  <2>1. s \in Ending!ToSet(lines) /\ s # None /\ EndsAt[s] >= cutoff
    BY <1>6 DEF Ending!LatestLosses
  <2>2. PICK i \in DOMAIN lines : lines[i] = s
    BY <2>1 DEF Ending!ToSet
  <2> QED
    BY <2>1, <2>2 DEF Ending!Kept
<1>7. ASSUME NEW s \in latest, NEW j \in kept, EndsAt[lines[j]] >= EndsAt[s]
      PROVE  Realized[lines[j]] < 0
  <2>1. lines[j] # None /\ EndsAt[lines[j]] >= cutoff /\ lines[j] \in Ending!ToSet(lines)
    BY DEF Ending!Kept, Ending!ToSet
  <2> QED
    BY <1>7, <2>1 DEF Ending!LatestLosses
<1> DEFINE lineOf(s) == CHOOSE i \in kept : lines[i] = s
           after == last + 1 .. total
           at == [s \in latest |-> rank(lineOf(s))]
<1>8. ASSUME NEW s \in latest
      PROVE  lineOf(s) \in kept /\ lines[lineOf(s)] = s
  BY <1>6
<1>9. ASSUME NEW s \in latest
      PROVE  rank(lineOf(s)) > last
  <2> DEFINE i == lineOf(s)
  <2>1. i \in kept /\ lines[i] = s
    BY <1>8
  <2> HIDE DEF i
  <2>2. SUFFICES ASSUME last > 0, rank(i) <= last PROVE FALSE
    BY <1>3, <1>5, <2>1 DEF i
  <2>3. PICK j \in kept : rank(j) = last
    BY <1>3, <1>5, <2>2
  <2>4. Realized[lines[j]] >= 0
    BY <1>2, <1>5, <2>2, <2>3
  <2>5. ~(EndsAt[lines[j]] >= EndsAt[s])
    BY <1>4, <1>7, <2>3, <2>4
  <2>6. j \in Ending!UpTo(lines, kept, i)
    BY <1>4, <2>1, <2>3, <2>5 DEF Ending!UpTo
  <2>7. j # i
    BY <1>4, <2>1, <2>5
  <2>8. rank(j) < rank(i)
    BY <2>1, <2>3, <2>6, <2>7, PlacesFollowTime
  <2> QED
    BY <1>3, <1>5, <2>1, <2>2, <2>3, <2>8
<1>10. at \in Injection(latest, after)
  <2>1. ASSUME NEW s \in latest PROVE rank(lineOf(s)) \in after
    <3> DEFINE n == rank(lineOf(s))
    <3>1. n \in 1 .. total /\ n > last
      BY <1>3, <1>8, <1>9
    <3> HIDE DEF n
    <3>2. n \in after
      BY <1>3, <1>5, <3>1
    <3> QED
      BY <3>2 DEF n
  <2>2. \A s, t \in latest : rank(lineOf(s)) = rank(lineOf(t)) => s = t
    BY <1>3, <1>8
  <2> HIDE DEF latest, lineOf, rank, after
  <2> QED BY <2>1, <2>2 DEF Injection, IsInjective
<1> HIDE DEF at, latest, kept
<1>11. IsFiniteSet(after) /\ Cardinality(after) = total - last
  BY <1>3, <1>5, FS_Interval
<1>12. Cardinality(latest) \in Nat /\ Cardinality(latest) <= total - last
  <2> HIDE DEF after
  <2> QED BY <1>10, <1>11, FS_Injection, FS_CardinalityType
<1>13. Ending!Cardinality(latest) = Cardinality(latest)
  BY EndingCounts
<1>14. total - last \in Nat
  BY <1>3, <1>5
<1> QED
  BY <1>5, <1>12, <1>13, <1>14 DEF latest

\* The nearest step is a step of the ladder.
LEMMA NearestStep ==
    ASSUME LadderConfigured, NEW capital \in Int
    PROVE  Ending!StepOf(capital) \in 1 .. Len(Ladder)
<1> DEFINE N == 1 .. Len(Ladder)
           gaps == {Ending!Gap(i, capital) : i \in N}
<1>1. Len(Ladder) \in Nat /\ Len(Ladder) # 0 /\ \A i \in N : Ladder[i] \in Int
  BY DEF LadderConfigured
<1>2. \A i \in N : Ending!Gap(i, capital) \in Nat
  BY <1>1 DEF Ending!Gap
<1>3. PICK g \in gaps : \A h \in gaps : g <= h
  <2>1. gaps \subseteq Nat /\ gaps # {}
    BY <1>1, <1>2, 1 \in N
  <2> HIDE DEF gaps
  <2> QED BY <2>1, LeastNatural
<1> DEFINE nearest == {i \in N : Ending!Gap(i, capital) = g}
<1>4. PICK i \in nearest : \A j \in nearest : i <= j
  <2>1. nearest \subseteq Nat /\ nearest # {}
    BY <1>1
  <2> HIDE DEF nearest
  <2> QED BY <2>1, LeastNatural
<1>5. \A j \in N : Ending!Gap(i, capital) <= Ending!Gap(j, capital)
  BY <1>3, <1>4
<1>6. ASSUME NEW j \in 1 .. i - 1
      PROVE  Ending!Gap(j, capital) > Ending!Gap(i, capital)
  <2>1. j \in N /\ ~(i <= j)
    BY <1>1, <1>4
  <2>2. j \notin nearest
    BY <1>4, <2>1
  <2>3. Ending!Gap(j, capital) # Ending!Gap(i, capital)
    BY <1>4, <2>1, <2>2
  <2>4. Ending!Gap(i, capital) \in Nat /\ Ending!Gap(j, capital) \in Nat
    BY <1>2, <1>4, <2>1
  <2> QED
    BY <1>5, <2>1, <2>3, <2>4
<1>7. i \in N
  BY <1>4
<1> HIDE DEF nearest, gaps
<1> QED
  BY <1>5, <1>6, <1>7 DEF Ending!StepOf

\* A private file exists: a writer restricts only what it created.
FileKnown ==
    /\ \A s \in Sessions : writer[s] = "restrict" => sessions.exists
    /\ sessions.private => sessions.exists

LEMMA FileKnownStep ==
    ASSUME FileTypes, FileKnown, torn \in 0 .. MaxTorn, MaxTorn \in Nat,
           [Ending!Next]_(Ending!vars)
    PROVE  FileKnown' /\ torn' \in 0 .. MaxTorn
<1>1. ASSUME NEW s \in Sessions, Ending!Look(s) \/ Ending!CheckMode(s)
      PROVE  FileKnown' /\ torn' \in 0 .. MaxTorn
  BY <1>1 DEF Ending!Look, Ending!CheckMode, Ending!Goes, FileTypes, FileKnown
<1>2. ASSUME NEW s \in Sessions, Ending!Create(s) \/ Ending!MakePrivate(s)
      PROVE  FileKnown' /\ torn' \in 0 .. MaxTorn
  BY <1>2 DEF Ending!Create, Ending!MakePrivate, Ending!Goes, FileTypes, FileKnown
<1>3. ASSUME NEW s \in Sessions, Ending!Write(s) \/ Ending!WriteFails(s)
      PROVE  FileKnown' /\ torn' \in 0 .. MaxTorn
  <2>1. \/ UNCHANGED sessions
        \/ \E line, tail : Ending!Appended(line, tail)
    BY <1>3 DEF Ending!Write, Ending!WriteFails
  <2>2. sessions'.exists = sessions.exists /\ sessions'.private = sessions.private
    BY <2>1 DEF Ending!Appended, FileTypes
  <2>3. \A t \in Sessions : writer'[t] = "restrict" => writer[t] = "restrict"
    BY <1>3 DEF Ending!Write, Ending!WriteFails, Ending!Goes, FileTypes
  <2>4. torn' \in 0 .. MaxTorn
    <3>1. torn' = torn \/ (torn < MaxTorn /\ torn' = torn + 1)
      BY <1>3 DEF Ending!Write, Ending!WriteFails
    <3> QED
      BY <3>1
  <2> QED
    BY <2>2, <2>3, <2>4 DEF FileKnown
<1>4. CASE Ending!Loosen \/ UNCHANGED Ending!vars
  BY <1>4 DEF Ending!Loosen, Ending!vars, FileTypes, FileKnown
<1> QED
  BY <1>1, <1>2, <1>3, <1>4 DEF Ending!Next

\* A run of recorded losses holds the next session's capacity, and a losing
\* day then lowers it, whatever sessions ended, in whatever order their lines
\* were written, and whatever else the file went through.
THEOREM LossesHoldTheLadderAlways ==
    ASSUME SessionsConfigured, LadderConfigured
    PROVE  Ending!Spec => [](Ending!TypeOK /\ Ending!LossesHoldTheLadder)
<1> DEFINE Inv == FileInv /\ FileKnown /\ torn \in 0 .. MaxTorn
<1>1. Ending!Init => Inv
  <2> SUFFICES ASSUME Ending!Init PROVE Inv
    OBVIOUS
  <2>1. FileInv
    BY FileInvStarts DEF SessionsConfigured
  <2> QED
    BY <2>1 DEF Ending!Init, FileKnown, SessionsConfigured, SessionsAreFinite
<1>2. Inv /\ [Ending!Next]_(Ending!vars) => Inv'
  BY FileInvStep, FileKnownStep DEF SessionsConfigured, SessionsAreFinite, FileInv
<1>3. Inv => Ending!TypeOK
  BY DEF Ending!TypeOK, FileInv, FileTypes
<1>4. Inv => Ending!LossesHoldTheLadder
  <2> SUFFICES ASSUME Inv, NEW signal \in Ending!Signals, NEW capital \in Capitals,
                      NEW cutoff \in Cutoffs, sessions.private,
                      Ending!Cardinality(Ending!LatestLosses(cutoff)) >= LossThreshold
               PROVE  LET from == Ending!StepOf(capital)
                          to == Ending!Advice(sessions, signal, capital, cutoff)
                      IN  /\ to <= from
                          /\ from > 1 /\ signal.profit < 0 => to < from
    BY DEF Ending!LossesHoldTheLadder
  <2> DEFINE from == Ending!StepOf(capital)
             losses == Ending!LossStreak(sessions, cutoff)
             latest == Ending!Cardinality(Ending!LatestLosses(cutoff))
  <2>1. cutoff \in Int /\ capital \in Int
    BY DEF SessionsConfigured
  <2>2. sessions.exists
    BY DEF FileKnown
  <2>3. losses = Ending!ConsecutiveLosses(Ending!Records(sessions.lines, cutoff))
    BY <2>2 DEF Ending!LossStreak
  <2>4. sessions.lines \in Seq(Sessions \union {None})
    BY DEF FileInv, FileTypes
  <2>5. losses \in Nat /\ latest \in Nat /\ latest <= losses
    BY <2>1, <2>3, <2>4, LatestLossesCount
  <2>6. losses >= LossThreshold
    <3> HIDE DEF losses, latest
    <3>1. latest >= LossThreshold /\ LossThreshold \in Nat
      BY DEF LadderConfigured, latest
    <3> QED BY <2>5, <3>1
  <2>7. from \in 1 .. Len(Ladder)
    BY <2>1, NearestStep
  <2> HIDE DEF from, losses, latest
  <2>8. /\ Ending!Recommend(signal, from, losses) \in 1 .. from
        /\ from > 1 /\ signal.profit < 0 => Ending!Recommend(signal, from, losses) < from
    BY <2>5, <2>6, <2>7, LossesLowerTheStep
  <2>9. Ending!Advice(sessions, signal, capital, cutoff) = Ending!Recommend(signal, from, losses)
    BY DEF Ending!Advice, from, losses
  <2>10. from \in Int /\ \A to \in 1 .. from : to <= from
    BY <2>7 DEF LadderConfigured
  <2> QED
    BY <2>8, <2>9, <2>10 DEF from
<1> QED
  BY <1>1, <1>2, <1>3, <1>4, PTL DEF Ending!Spec
-----------------------------------------------------------------------------
(* The copies of an order intent *)

Entries == [from : Intent!States, to : Intent!States, at : Nat]
Copies == [state : Intent!States, quantity : Quantities, type : {"LIMIT", "MARKET"},
           price : {None, 1, 2}, reason : {None, "risk"}, history : Seq(Entries)]

CopyTypes == intent \in Copies /\ copies \in Seq(Copies) /\ stageTime \in Nat

\* One entry for each copy, from its state to the state of the next one.
EntriesAreTrue ==
    /\ Len(intent.history) = Len(copies)
    /\ \A k \in 1 .. Len(copies) :
         /\ intent.history[k].from = copies[k].state
         /\ intent.history[k].to = IF k = Len(copies) THEN intent.state
                                                      ELSE copies[k + 1].state

\* The way of a drafted intent to the state it is in.
OnTheWay ==
    copies # <<>> /\ copies[1].state = "DRAFT" =>
      /\ intent.state # "DRAFT"
      /\ intent.state = "SIZED" => Len(copies) = 1
      /\ intent.state = "RISK_CHECKED" => Len(copies) = 2
      /\ intent.state = "APPROVED" => Len(copies) = 3
      /\ intent.state \in {"SUBMITTED", "CANCELLED"} => Len(copies) >= 4
      /\ Len(copies) >= 2 => copies[2].state = "SIZED"
      /\ Len(copies) >= 3 => copies[3].state = "RISK_CHECKED"
      /\ Len(copies) >= 4 => copies[4].state = "APPROVED"

CopyInv == CopyTypes /\ EntriesAreTrue /\ OnTheWay

\* Whatever fields the caller asks for, the copy has the new state and one
\* entry more.
LEMMA CopyMade ==
    ASSUME NEW i \in Copies, NEW to \in Intent!States, NEW at \in Nat,
           NEW ground \in {None, "risk"}, NEW updates \in Intent!Updates(i)
    PROVE  /\ Intent!Updated(i, to, at, ground, updates) \in Copies
           /\ Intent!Updated(i, to, at, ground, updates).state = to
           /\ Intent!Updated(i, to, at, ground, updates).history
                = Append(i.history, [from |-> i.state, to |-> to, at |-> at])
<1>1. updates \in Copies
  <2>1. \A q \in Quantities : [i EXCEPT !.quantity = q] \in Copies
    BY DEF Copies
  <2>2. \A p \in {None, 1, 2} : [i EXCEPT !.price = p] \in Copies
    BY DEF Copies
  <2>3. [i EXCEPT !.history = <<>>] \in Copies /\ [i EXCEPT !.state = "SUBMITTED"] \in Copies
    <3>1. <<>> \in Seq(Entries)
      OBVIOUS
    <3> QED
      BY <3>1 DEF Copies, Intent!States
  <2> QED
    BY <2>1, <2>2, <2>3 DEF Intent!Updates
<1>2. Append(i.history, [from |-> i.state, to |-> to, at |-> at]) \in Seq(Entries)
  BY DEF Copies, Entries
<1> QED
  BY <1>1, <1>2 DEF Intent!Updated, Copies

\* Each transition of the intent, and each refusal, keeps it.
LEMMA CopyInvStep == ASSUME CopyInv, [Intent!Next]_(Intent!vars) PROVE CopyInv'
<1> USE DEF CopyInv
<1>1. CASE Intent!TransitionTo
  <2>1. PICK to \in Intent!States, at \in 0 .. stageTime, ground \in {None, "risk"},
             updates \in Intent!Updates(intent) :
               /\ to \in Intent!Allowed[intent.state]
               /\ intent' = Intent!Updated(intent, to, at, ground, updates)
               /\ copies' = Append(copies, intent) /\ stageTime' = stageTime
    BY <1>1 DEF Intent!TransitionTo
  <2>2. /\ intent' \in Copies /\ intent'.state = to
        /\ intent'.history = Append(intent.history, [from |-> intent.state, to |-> to, at |-> at])
    BY <2>1, CopyMade DEF CopyTypes
  <2>3. /\ Len(copies') = Len(copies) + 1 /\ Len(copies) \in Nat
        /\ \A k \in 1 .. Len(copies) : copies'[k] = copies[k]
        /\ copies'[Len(copies) + 1] = intent
    BY <2>1 DEF CopyTypes
  <2>4. CopyTypes'
    BY <2>1, <2>2 DEF CopyTypes
  <2>5. EntriesAreTrue'
    <3>1. intent.history \in Seq(Entries)
      BY DEF CopyTypes, Copies
    <3>2. /\ Len(intent'.history) = Len(intent.history) + 1
          /\ \A k \in 1 .. Len(intent.history) : intent'.history[k] = intent.history[k]
          /\ intent'.history[Len(intent.history) + 1]
               = [from |-> intent.state, to |-> to, at |-> at]
      BY <2>2, <3>1
    <3>3. ASSUME NEW k \in 1 .. Len(copies')
          PROVE  /\ intent'.history[k].from = copies'[k].state
                 /\ intent'.history[k].to = IF k = Len(copies') THEN intent'.state
                                                               ELSE copies'[k + 1].state
      <4>1. CASE k = Len(copies) + 1
        BY <2>2, <2>3, <3>2, <4>1 DEF EntriesAreTrue
      <4>2. CASE k \in 1 .. Len(copies)
        <5>1. intent'.history[k] = intent.history[k] /\ copies'[k] = copies[k]
          BY <2>3, <3>2, <4>2 DEF EntriesAreTrue
        <5>2. k # Len(copies')
          BY <2>3, <4>2
        <5>3. copies'[k + 1] = IF k = Len(copies) THEN intent ELSE copies[k + 1]
          <6>1. CASE k = Len(copies)
            BY <2>3, <6>1
          <6>2. CASE k # Len(copies)
            BY <2>3, <4>2, <6>2, k + 1 \in 1 .. Len(copies)
          <6> QED
            BY <6>1, <6>2
        <5> QED
          BY <4>2, <5>1, <5>2, <5>3 DEF EntriesAreTrue
      <4> QED
        BY <2>3, <4>1, <4>2
    <3> QED
      BY <2>3, <3>2, <3>3 DEF EntriesAreTrue
  <2>6. OnTheWay'
    <3>1. intent.state \in Intent!States /\ to \in Intent!Allowed[intent.state]
      BY <2>1 DEF CopyTypes, Copies
    <3>2. \/ intent.state = "DRAFT" /\ to \in {"SIZED", "REJECTED"}
          \/ intent.state = "SIZED" /\ to \in {"RISK_CHECKED", "REJECTED"}
          \/ intent.state = "RISK_CHECKED" /\ to \in {"APPROVED", "REJECTED"}
          \/ intent.state = "APPROVED" /\ to \in {"SUBMITTED", "REJECTED"}
          \/ intent.state = "SUBMITTED" /\ to = "CANCELLED"
      BY <3>1 DEF Intent!Allowed, Intent!States, Intent!Terminal
    <3>3. CASE copies = <<>>
      BY <2>2, <2>3, <3>2, <3>3 DEF OnTheWay
    <3>4. CASE copies # <<>>
      <4>1. Len(copies) >= 1 /\ copies'[1] = copies[1]
        BY <2>3, <3>4 DEF CopyTypes
      <4> QED
        <5>1. ASSUME NEW k \in {2, 3, 4}, Len(copies') >= k
              PROVE  copies'[k] = IF Len(copies) >= k THEN copies[k] ELSE intent
          <6>1. CASE Len(copies) >= k
            BY <2>3, <6>1, k \in 1 .. Len(copies)
          <6>2. CASE ~(Len(copies) >= k)
            BY <2>3, <5>1, <6>2, k = Len(copies) + 1
          <6> QED
            BY <6>1, <6>2
        <5>2. Len(copies) \in Nat /\ Len(copies') = Len(copies) + 1 /\ intent'.state = to
          BY <2>2, <2>3
        <5>3. /\ Len(copies') >= 2 => copies'[2] = IF Len(copies) >= 2 THEN copies[2] ELSE intent
              /\ Len(copies') >= 3 => copies'[3] = IF Len(copies) >= 3 THEN copies[3] ELSE intent
              /\ Len(copies') >= 4 => copies'[4] = IF Len(copies) >= 4 THEN copies[4] ELSE intent
          BY <5>1
        <5>4. copies[1].state = "DRAFT" <=> copies'[1].state = "DRAFT"
          BY <4>1
        <5>5. \/ intent.state = "DRAFT"
              \/ intent.state = "SIZED" /\ Len(copies) = 1
              \/ intent.state = "RISK_CHECKED" /\ Len(copies) = 2
              \/ intent.state = "APPROVED" /\ Len(copies) = 3
              \/ intent.state = "SUBMITTED" /\ Len(copies) >= 4
              \/ copies[1].state # "DRAFT"
          BY <3>2, <3>4 DEF OnTheWay
        <5>6. CASE Len(copies) = 1
          BY <3>2, <3>4, <4>1, <5>2, <5>3, <5>4, <5>5, <5>6 DEF OnTheWay
        <5>7. CASE Len(copies) = 2
          BY <3>2, <3>4, <4>1, <5>2, <5>3, <5>4, <5>5, <5>7 DEF OnTheWay
        <5>8. CASE Len(copies) = 3
          BY <3>2, <3>4, <4>1, <5>2, <5>3, <5>4, <5>5, <5>8 DEF OnTheWay
        <5>9. CASE Len(copies) >= 4
          BY <3>2, <3>4, <4>1, <5>2, <5>3, <5>4, <5>5, <5>9 DEF OnTheWay
        <5>10. \/ Len(copies) = 1 \/ Len(copies) = 2 \/ Len(copies) = 3
               \/ Len(copies) >= 4
          <6>1. Len(copies) \in Nat /\ Len(copies) >= 1
            BY <4>1, <5>2
          <6>2. \A n \in Nat : n >= 1 => n = 1 \/ n = 2 \/ n = 3 \/ n >= 4
            OBVIOUS
          <6> QED
            BY <6>1, <6>2
        <5> QED
          BY <5>6, <5>7, <5>8, <5>9, <5>10
    <3> QED
      BY <3>3, <3>4
  <2> QED
    BY <2>4, <2>5, <2>6
<1>2. CASE Intent!Tick \/ UNCHANGED Intent!vars
  <2>1. UNCHANGED <<intent, copies>> /\ stageTime' \in Nat
    BY <1>2 DEF Intent!Tick, Intent!vars, CopyTypes
  <2> QED
    BY <2>1 DEF CopyTypes, EntriesAreTrue, OnTheWay
<1> QED
  BY <1>1, <1>2 DEF Intent!Next

\* So it holds from the draft on.
LEMMA CopyInvHolds == Intent!Spec => []CopyInv
<1>1. Intent!Init => CopyInv
  <2> SUFFICES ASSUME Intent!Init PROVE CopyInv
    OBVIOUS
  <2>1. intent \in [state : Intent!States \ Intent!Terminal, quantity : Quantities,
                    type : {"LIMIT", "MARKET"}, price : {None, 1},
                    reason : {None}, history : {<<>>}]
    BY DEF Intent!Init
  <2>2. copies = <<>> /\ stageTime = 0
    BY DEF Intent!Init
  <2> QED
    <3>1. <<>> \in Seq(Entries) /\ <<>> \in Seq(Copies) /\ Len(<<>>) = 0
      OBVIOUS
    <3>2. intent \in Copies /\ intent.history = <<>>
      BY <2>1, <3>1 DEF Copies
    <3> QED
      BY <2>2, <3>1, <3>2 DEF CopyInv, CopyTypes, EntriesAreTrue, OnTheWay
<1>2. CopyInv /\ [Intent!Next]_(Intent!vars) => CopyInv'
  BY CopyInvStep
<1> QED
  BY <1>1, <1>2, PTL DEF Intent!Spec

\* The history of an intent is what happened to its copies, whatever fields the
\* stages asked to change (execution/order_intent.py, transition_to).
THEOREM HistoryIsTrueAlways == Intent!Spec => []Intent!HistoryIsTrue
<1>1. CopyInv => Intent!HistoryIsTrue
  <2> SUFFICES ASSUME CopyInv PROVE Intent!HistoryIsTrue
    OBVIOUS
  <2> DEFINE before == [k \in 1 .. Len(copies) |-> copies[k].state]
             states == Append(before, intent.state)
  <2>1. Len(copies) \in Nat /\ before \in Seq(Intent!States) /\ Len(before) = Len(copies)
    <3>1. \A k \in 1 .. Len(copies) : copies[k] \in Copies
      BY DEF CopyInv, CopyTypes
    <3> QED
      BY <3>1, IsASeq DEF CopyInv, CopyTypes, Copies
  <2>2. /\ \A k \in 1 .. Len(copies) : states[k] = copies[k].state
        /\ states[Len(copies) + 1] = intent.state
    BY <2>1
  <2> HIDE DEF states
  <2>3. ASSUME NEW k \in 1 .. Len(copies)
        PROVE  intent.history[k].from = states[k] /\ intent.history[k].to = states[k + 1]
    <3>1. states[k + 1] = IF k = Len(copies) THEN intent.state ELSE copies[k + 1].state
      <4>1. CASE k = Len(copies)
        BY <2>2, <4>1
      <4>2. CASE k # Len(copies)
        <5>1. k + 1 \in 1 .. Len(copies)
          <6>1. Len(copies) \in Nat
            BY <2>1
          <6> HIDE DEF before
          <6> QED
            BY <4>2, <6>1
        <5> QED
          BY <2>2, <4>2, <5>1
      <4> QED
        BY <4>1, <4>2
    <3> QED
      BY <2>2, <3>1 DEF CopyInv, EntriesAreTrue
  <2> QED
    BY <2>3 DEF Intent!HistoryIsTrue, CopyInv, EntriesAreTrue, states
<1> QED
  BY <1>1, CopyInvHolds, PTL

\* An intent that was drafted and sent was sized, passed the risk gate and was
\* approved in between, each once and in this order.
THEOREM SentInOrderAlways == Intent!Spec => []Intent!SentInOrder
<1>1. CopyInv => Intent!SentInOrder
  <2> SUFFICES ASSUME CopyInv, copies # <<>>, copies[1].state = "DRAFT",
                      intent.state \in {"SUBMITTED", "CANCELLED"}
               PROVE  SubSeq([k \in 1 .. Len(copies) |-> copies[k].state], 1, 4)
                        = <<"DRAFT", "SIZED", "RISK_CHECKED", "APPROVED">>
    BY DEF Intent!SentInOrder
  <2> DEFINE states == [k \in 1 .. Len(copies) |-> copies[k].state]
  <2>2. /\ states[1] = "DRAFT" /\ states[2] = "SIZED"
        /\ states[3] = "RISK_CHECKED" /\ states[4] = "APPROVED"
    BY DEF CopyInv, CopyTypes, OnTheWay
  <2> HIDE DEF states
  <2>3. /\ SubSeq(states, 1, 4) \in Seq(Intent!States) /\ Len(SubSeq(states, 1, 4)) = 4
        /\ \A k \in 1 .. 4 : SubSeq(states, 1, 4)[k] = states[k]
    <3>1. \A k \in 1 .. 4 : states[k] \in Intent!States
      BY <2>2 DEF Intent!States
    <3>2. /\ SubSeq(states, 1, 4) \in Seq(Intent!States)
          /\ Len(SubSeq(states, 1, 4)) = IF 1 <= 4 THEN 4 - 1 + 1 ELSE 0
          /\ \A k \in 1 .. 4 - 1 + 1 : SubSeq(states, 1, 4)[k] = states[1 + k - 1]
      BY <3>1, SubSeqProperties
    <3> QED
      BY <3>2
  <2>4. SubSeq(states, 1, 4) = <<"DRAFT", "SIZED", "RISK_CHECKED", "APPROVED">>
    <3> DEFINE way == <<"DRAFT", "SIZED", "RISK_CHECKED", "APPROVED">>
    <3>1. way \in Seq(Intent!States) /\ Len(way) = 4
      BY DEF Intent!States
    <3>2. \A k \in 1 .. 4 : way[k] = states[k]
      BY <2>2
    <3> HIDE DEF way
    <3>3. SubSeq(states, 1, 4) = way
      BY <2>3, <3>1, <3>2, SeqEqual
    <3> QED
      BY <3>3 DEF way
  <2> QED
    BY <2>4 DEF states
<1> QED
  BY <1>1, CopyInvHolds, PTL

\* Every copy is a valid intent: no stage can leave a record whose fields
\* contradict one another (execution/order_intent.py, _validate_consistency).
THEOREM IntentsAreValidAlways == ASSUME MaxClock \in Nat PROVE Intent!Spec => []Intent!TypeOK
<1> DEFINE Inv == Intent!Valid(intent) /\ stageTime \in 0 .. MaxClock
<1>1. Intent!Init => Inv
  BY DEF Intent!Init
<1>2. Inv /\ [Intent!Next]_(Intent!vars) => Inv'
  <2> SUFFICES ASSUME Inv, [Intent!Next]_(Intent!vars) PROVE Inv'
    OBVIOUS
  <2>1. CASE Intent!TransitionTo
    <3>1. Intent!Valid(intent') /\ stageTime' = stageTime
      BY <2>1 DEF Intent!TransitionTo
    <3> QED
      BY <3>1 DEF Intent!Valid
  <2>2. CASE Intent!Tick
    BY <2>2 DEF Intent!Tick, Intent!Valid
  <2>3. CASE UNCHANGED Intent!vars
    BY <2>3 DEF Intent!vars, Intent!Valid
  <2> QED
    BY <2>1, <2>2, <2>3 DEF Intent!Next
<1>3. CopyInv /\ Inv => Intent!TypeOK
  BY DEF Intent!TypeOK, CopyInv, CopyTypes, Copies
<1>4. Intent!Spec => []CopyInv
  BY CopyInvHolds
<1> HIDE DEF Inv
<1> QED
  BY <1>1, <1>2, <1>3, <1>4, PTL DEF Intent!Spec
-----------------------------------------------------------------------------
(* What the run of the controls checks, for any constants.  A step of the  *)
(* run is a step of the component that part names and leaves what the      *)
(* others own alone.                                                       *)

\* The checks of a run are a behaviour of RiskChecks.
LEMMA GateBehaves == Spec => Gate!Spec
<1>1. Init => Gate!Init
  BY DEF Init
<1>2. [Next]_vars => [Gate!Next]_(Gate!vars)
  BY DEF Next, vars, Check, Cycle, Session, Stage, checks, Gate!vars, Gate!safety, Gate!account
<1> QED
  BY <1>1, <1>2, PTL DEF Spec, Gate!Spec

\* The cycles of a run are a behaviour of RiskGates.
LEMMA RunnerBehaves == Spec => Runner!Spec
<1>1. Init => Runner!Init
  BY DEF Init
<1>2. [Next]_vars => [Runner!Next]_(Runner!vars)
  BY DEF Next, vars, Check, Cycle, Session, Stage, runner, Runner!vars, Runner!broker,
         Runner!runner, Runner!world, Runner!reads, Runner!history
<1> QED
  BY <1>1, <1>2, PTL DEF Spec, Runner!Spec

\* risk/risk_gate.py: fills and other orders come between what the checks read and
\* the order they let pass, and still exposure, cash, the rate of orders and
\* reversals stay within the limits, whatever the limits are.
THEOREM ChecksBindOrders ==
    ASSUME HistoryConfigured, LimitsConfigured, LossCap \in Nat
    PROVE  Spec => []ChecksBoundOrders
<1>1. Gate!Spec => []Gate!ChecksBoundOrders
  BY ChecksBoundOrdersAlways
<1>2. Gate!ChecksBoundOrders => ChecksBoundOrders
  BY DEF ChecksBoundOrders
<1> QED
  BY <1>1, <1>2, GateBehaves, PTL

\* risk/gates, signals/runner.py: an order too many for each symbol, and one for
\* each lost answer, is all that stale reads cost, and an answered order starts
\* the cooldown of its symbol, for any watchlist, limits and intervals.
THEOREM GatesBindOrders ==
    ASSUME RunnerConfigured, ChainsComplete
    PROVE  Spec => []GatesBoundOrders
<1>1. Runner!Spec => []Runner!GatesBoundOrders
  BY GatesBoundOrdersAlways
<1>2. Runner!GatesBoundOrders => GatesBoundOrders
  BY DEF GatesBoundOrders
<1> QED
  BY <1>1, <1>2, RunnerBehaves, PTL

\* The sessions of a run are a behaviour of SessionCapacity.
LEMMA EndingBehaves == Spec => Ending!Spec
<1>1. Init => Ending!Init
  BY DEF Init
<1>2. [Next]_vars => [Ending!Next]_(Ending!vars)
  BY DEF Next, vars, Check, Cycle, Session, Stage, history, Ending!vars
<1> QED
  BY <1>1, <1>2, PTL DEF Spec, Ending!Spec

\* The stages of a run are a behaviour of OrderIntent.
LEMMA IntentBehaves == Spec => Intent!Spec
<1>1. Init => Intent!Init
  BY DEF Init
<1>2. [Next]_vars => [Intent!Next]_(Intent!vars)
  BY DEF Next, vars, Check, Cycle, Session, Stage, stages, Intent!vars
<1> QED
  BY <1>1, <1>2, PTL DEF Spec, Intent!Spec

\* dashboard/views/_session_history_*.py and execution/order_intent.py: a recorded
\* session can be read back after torn writes, a run of recorded losses lowers the
\* advice on capital, and the history of an intent is what happened to it, for any
\* sessions, ladder, signals and stages.
THEOREM RecordsStayTrue ==
    ASSUME SessionsConfigured, LadderConfigured, MaxClock \in Nat
    PROVE  Spec => []RecordsAreTrue
<1>1. Ending!Spec => [](Ending!TypeOK /\ Ending!LossesHoldTheLadder)
  BY LossesHoldTheLadderAlways
<1>2. Ending!Spec => []Ending!RecordsSurvive
  BY RecordsSurviveAlways DEF SessionsConfigured
<1>3. Intent!Spec => []Intent!TypeOK
  BY IntentsAreValidAlways
<1>4. /\ Ending!TypeOK /\ Ending!LossesHoldTheLadder /\ Ending!RecordsSurvive
      /\ Intent!TypeOK /\ Intent!HistoryIsTrue /\ Intent!SentInOrder
      => RecordsAreTrue
  BY DEF RecordsAreTrue
<1> QED
  BY <1>1, <1>2, <1>3, <1>4, EndingBehaves, IntentBehaves,
     HistoryIsTrueAlways, SentInOrderAlways, PTL
=============================================================================
