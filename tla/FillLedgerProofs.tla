-------------------------- MODULE FillLedgerProofs --------------------------
(***************************************************************************)
(* Proofs about FillLedger, for any orders, ingesters, pages and symbols:  *)
(* what the run MCFillLedger checks of the books and of the reports.       *)
(*                                                                         *)
(* The invariant of the store, that of the ledger, and the reports.        *)
(***************************************************************************)
EXTENDS FillLedger, DecimalsProofs, SequenceTheorems

-----------------------------------------------------------------------------
(* The fills that ingesters store *)

\* A fill tells what its order had executed when it was fetched, and that is
\* all of the order unless the order is known to have been fetched too early.
Fetched(f) ==
    \E o \in Orders, q \in Positive :
        /\ f = Fill(o, q) /\ q <= executed[o]
        /\ o \notin partial => q = Info[o].quantity

StoreInv ==
    /\ partial \subseteq Orders
    /\ executed \in [Orders -> Nat]
    /\ \A o \in Orders : executed[o] <= Info[o].quantity
    /\ ingest = [i \in Ingesters |-> ingest[i]]
    /\ \A i \in Ingesters :
         /\ ingest[i].busy \in BOOLEAN
         /\ ingest[i] = [busy |-> ingest[i].busy, todo |-> ingest[i].todo, new |-> ingest[i].new]
         /\ \A f \in ingest[i].todo \union ingest[i].new : Fetched(f)
    /\ stored = [o \in Orders |-> stored[o]]
    /\ \A o \in Orders : stored[o] # None => Fetched(stored[o]) /\ stored[o].id = o

\* What was fetched stays so when more is executed or fetched.
LEMMA FetchedStays ==
    ASSUME NEW f, Fetched(f), executed \in [Orders -> Nat], executed' \in [Orders -> Nat],
           \A o \in Orders : executed[o] <= executed'[o], partial \subseteq partial'
    PROVE  Fetched(f)'
<1>1. PICK o \in Orders, q \in Positive :
          /\ f = Fill(o, q) /\ q <= executed[o]
          /\ o \notin partial => q = Info[o].quantity
  BY DEF Fetched
<1>2. q <= executed'[o] /\ (o \notin partial' => q = Info[o].quantity)
  BY <1>1 DEF Positive
<1>3. f = Fill(o, q)'
  BY <1>1 DEF Fill
<1> QED BY <1>1, <1>2, <1>3 DEF Fetched

\* Each step of the broker, of an ingester and of the ledger keeps it.
LEMMA StoreInvStep ==
    ASSUME StoreInv, [Next]_(vars)
    PROVE  StoreInv'
<1>1. ASSUME NEW o \in Orders, Execute(o)
      PROVE  StoreInv'
  <2>1. /\ executed[o] < Info[o].quantity /\ executed' = [executed EXCEPT ![o] = @ + 1]
        /\ UNCHANGED <<ingest, stored, partial>>
    BY <1>1 DEF Execute, ingestion
  <2>2. /\ executed' \in [Orders -> Nat] /\ executed \in [Orders -> Nat]
        /\ \A p \in Orders : executed[p] <= executed'[p] /\ executed'[p] <= Info[p].quantity
    BY <2>1, InfoAssumption DEF StoreInv
  <2>3. \A f : Fetched(f) => Fetched(f)'
    BY <2>1, <2>2, FetchedStays
  <2> QED BY <2>1, <2>2, <2>3 DEF StoreInv
<1>2. ASSUME NEW i \in Ingesters, NEW since \in Sinces, Fetch(i, since)
      PROVE  StoreInv'
  <2> DEFINE page == Page(since)
  <2>1. /\ ingest' = [ingest EXCEPT ![i] =
              [busy |-> TRUE, todo |-> {Fill(o, executed[o]) : o \in page}, new |-> {}]]
        /\ partial' = partial \union {o \in page : executed[o] < Info[o].quantity}
        /\ UNCHANGED <<executed, stored>>
    BY <1>2 DEF Fetch
  <2>2. page \subseteq Orders
    BY DEF Page
  <2>3. \A f : Fetched(f) => Fetched(f)'
    BY <2>1, FetchedStays DEF StoreInv
  <2>4. ASSUME NEW o \in page PROVE Fetched(Fill(o, executed[o]))'
    <3>1. /\ executed'[o] = executed[o] /\ executed[o] \in Nat /\ executed[o] <= executed'[o]
          /\ o \in Orders /\ executed[o] <= Info[o].quantity /\ Info[o].quantity \in Nat
          /\ executed[o] \in Positive
      BY <2>1, <2>2, InfoAssumption DEF StoreInv, Page, Positive
    <3>2. o \notin partial' => executed[o] = Info[o].quantity
      BY <2>1, <3>1
    <3> QED BY <2>1, <3>1, <3>2 DEF Fetched
  <2>5. /\ ingest'[i] = [busy |-> TRUE, todo |-> {Fill(o, executed[o]) : o \in page},
                         new |-> {}]
        /\ \A j \in Ingesters : j # i => ingest'[j] = ingest[j]
        /\ ingest' = [j \in Ingesters |-> ingest'[j]]
    BY <2>1 DEF StoreInv
  <2>6. \A f \in ingest'[i].todo \union ingest'[i].new : Fetched(f)'
    BY <2>1, <2>4, <2>5
  <2>7. partial' \subseteq Orders
    BY <2>1, <2>2 DEF StoreInv
  <2>8. ASSUME NEW j \in Ingesters PROVE ingest'[j].busy \in BOOLEAN
    <3>1. CASE j = i
      <4>1. ingest'[j].busy =  TRUE
        BY <2>5, <3>1
      <4> QED BY <4>1
    <3>2. CASE j # i
      <4>1. ingest'[j] = ingest[j] /\ ingest[j].busy \in BOOLEAN
        BY <2>5, <3>2 DEF StoreInv
      <4> QED BY <4>1
    <3> QED BY <3>1, <3>2
  <2> QED BY <2>1, <2>3, <2>5, <2>6, <2>7, <2>8 DEF StoreInv
<1>3. ASSUME NEW i \in Ingesters, NEW f \in ingest[i].todo, Check(i, f)
      PROVE  StoreInv'
  <2>1. /\ ingest' = [ingest EXCEPT
                ![i].todo = @ \ {f},
                ![i].new = IF f.symbol \in Listed /\ stored[f.id] = None
                           THEN @ \union {f} ELSE @]
        /\ UNCHANGED <<executed, stored, partial>>
    BY <1>3 DEF Check
  <2> DEFINE mine == ingest[i]
             found == IF f.symbol \in Listed /\ stored[f.id] = None
                      THEN mine.new \union {f} ELSE mine.new
  <2>2. /\ ingest = [j \in Ingesters |-> ingest[j]]
        /\ mine = [busy |-> mine.busy, todo |-> mine.todo, new |-> mine.new]
    BY DEF StoreInv
  <2>3. ingest' = [ingest EXCEPT ![i].todo = mine.todo \ {f}, ![i].new = found]
    BY <2>1
  <2>4. /\ ingest'[i] = [busy |-> mine.busy, todo |-> mine.todo \ {f}, new |-> found]
        /\ \A j \in Ingesters : j # i => ingest'[j] = ingest[j]
        /\ ingest' = [j \in Ingesters |-> ingest'[j]]
    <3> HIDE DEF found
    <3>1. /\ \A j \in Ingesters : j # i => ingest'[j] = ingest[j]
          /\ ingest' = [j \in Ingesters |-> ingest'[j]]
      BY <2>2, <2>3
    <3>2. ingest'[i] = [mine EXCEPT !.todo = mine.todo \ {f}, !.new = found]
      BY <2>2, <2>3
    <3>3. ingest'[i] = [busy |-> mine.busy, todo |-> mine.todo \ {f}, new |-> found]
      <4> HIDE DEF mine
      <4> QED BY <2>2, <3>2
    <3> QED BY <3>1, <3>3
  <2>5. executed' = executed /\ partial' = partial /\ stored' = stored
    BY <2>1
  <2>6. \A g : Fetched(g) => Fetched(g)'
    BY <2>5, FetchedStays DEF StoreInv
  <2>7. \A g \in ingest'[i].todo \union ingest'[i].new : Fetched(g)
    BY <2>4 DEF StoreInv
  <2> QED BY <2>4, <2>5, <2>6, <2>7 DEF StoreInv
<1>4. ASSUME NEW i \in Ingesters, Store(i)
      PROVE  StoreInv'
  <2>1. /\ stored' = [o \in Orders |->
                IF \E f \in ingest[i].new : f.id = o
                THEN CHOOSE f \in ingest[i].new : f.id = o ELSE stored[o]]
        /\ ingest' = [ingest EXCEPT ![i] = Idle]
        /\ UNCHANGED <<executed, partial>>
    BY <1>4 DEF Store
  <2>2. \A g : Fetched(g) => Fetched(g)'
    BY <2>1, FetchedStays DEF StoreInv
  <2>3. ASSUME NEW o \in Orders, stored'[o] # None
        PROVE  Fetched(stored[o])' /\ stored'[o].id = o
    <3>1. CASE \E f \in ingest[i].new : f.id = o
      <4>1. stored'[o] \in ingest[i].new /\ stored'[o].id = o
        BY <2>1, <3>1
      <4>2. Fetched(stored'[o])
        BY <4>1 DEF StoreInv
      <4>3. \A g : g = stored'[o] => Fetched(g)'
        BY <2>2, <4>2
      <4> QED BY <4>1, <4>3
    <3>2. CASE ~\E f \in ingest[i].new : f.id = o
      <4>1. stored'[o] = stored[o] /\ Fetched(stored[o]) /\ stored[o].id = o
        BY <2>1, <2>3, <3>2 DEF StoreInv
      <4>2. \A g : g = stored'[o] => Fetched(g)'
        BY <2>2, <4>1
      <4> QED BY <4>1, <4>2
    <3> QED BY <3>1, <3>2
  <2>4. /\ ingest'[i] = [busy |-> FALSE, todo |-> {}, new |-> {}]
        /\ \A j \in Ingesters : j # i => ingest'[j] = ingest[j]
        /\ ingest' = [j \in Ingesters |-> ingest'[j]]
    BY <2>1 DEF StoreInv, Idle
  <2>5. ASSUME NEW j \in Ingesters PROVE ingest'[j].busy \in BOOLEAN
    <3>1. CASE j = i
      <4>1. ingest'[j].busy =  FALSE
        BY <2>4, <3>1
      <4> QED BY <4>1
    <3>2. CASE j # i
      <4>1. ingest'[j] = ingest[j] /\ ingest[j].busy \in BOOLEAN
        BY <2>4, <3>2 DEF StoreInv
      <4> QED BY <4>1
    <3> QED BY <3>1, <3>2
  <2> QED BY <2>1, <2>2, <2>3, <2>4, <2>5 DEF StoreInv
<1>5. ASSUME NEW i \in Ingesters, IngesterDies(i)
      PROVE  StoreInv'
  <2>1. /\ ingest' = [ingest EXCEPT ![i] = Idle]
        /\ UNCHANGED <<executed, stored, partial>>
    BY <1>5 DEF IngesterDies
  <2>2. \A g : Fetched(g) => Fetched(g)'
    BY <2>1, FetchedStays DEF StoreInv
  <2>3. /\ ingest'[i] = [busy |-> FALSE, todo |-> {}, new |-> {}]
        /\ \A j \in Ingesters : j # i => ingest'[j] = ingest[j]
        /\ ingest' = [j \in Ingesters |-> ingest'[j]]
    BY <2>1 DEF StoreInv, Idle
  <2>4. ASSUME NEW j \in Ingesters PROVE ingest'[j].busy \in BOOLEAN
    <3>1. CASE j = i
      <4>1. ingest'[j].busy =  FALSE
        BY <2>3, <3>1
      <4> QED BY <4>1
    <3>2. CASE j # i
      <4>1. ingest'[j] = ingest[j] /\ ingest[j].busy \in BOOLEAN
        BY <2>3, <3>2 DEF StoreInv
      <4> QED BY <4>1
    <3> QED BY <3>1, <3>2
  <2> QED BY <2>1, <2>2, <2>3, <2>4 DEF StoreInv
<1>6. CASE \/ \E fills \in SUBSET Stored : Submit(fills)
           \/ Apply \/ AppendHistory
           \/ \E since \in Sinces : Rebuild(since)
           \/ Crash \/ UNCHANGED vars
  <2>1. UNCHANGED <<executed, ingest, stored, partial>>
    BY <1>6 DEF Submit, Apply, AppendHistory, Rebuild, Crash,
                vars, ingestion
  <2>2. \A g : Fetched(g) => Fetched(g)'
    BY <2>1, FetchedStays DEF StoreInv
  <2> QED BY <2>1, <2>2 DEF StoreInv
<1> QED
  BY <1>1, <1>2, <1>3, <1>4, <1>5, <1>6 DEF Next

\* What was fetched is a fill.
LEMMA FetchedIsFill ==
    ASSUME StoreInv, NEW f, Fetched(f)
    PROVE  f \in Fills /\ f.quantity <= executed[f.id]
           /\ (f.id \notin partial => f.quantity = Info[f.id].quantity)
<1>1. PICK o \in Orders, q \in Positive :
          /\ f = Fill(o, q) /\ q <= executed[o]
          /\ o \notin partial => q = Info[o].quantity
  BY DEF Fetched
<1>2. q \in 1 .. Info[o].quantity
  BY <1>1, InfoAssumption DEF StoreInv, Positive
<1>3. f \in Fills
  BY <1>1, <1>2 DEF Fills
<1>4. f.id = o /\ f.quantity = q
  BY <1>1 DEF Fill
<1> QED BY <1>1, <1>3, <1>4

\* It holds from the start on.
LEMMA StoreInvHolds == Spec => []StoreInv
<1>1. Init => StoreInv
  <2> SUFFICES ASSUME Init PROVE StoreInv
    OBVIOUS
  <2>1. /\ executed = [o \in Orders |-> 0] /\ stored = [o \in Orders |-> None] /\ partial = {}
        /\ ingest = [i \in Ingesters |-> [busy |-> FALSE, todo |-> {}, new |-> {}]]
    BY DEF Init, Idle
  <2>2. \A o \in Orders : executed[o] = 0 /\ 0 <= Info[o].quantity
    BY <2>1, InfoAssumption
  <2>3. \A i \in Ingesters : ingest[i] = [busy |-> FALSE, todo |-> {}, new |-> {}]
    BY <2>1
  <2>4. ASSUME NEW i \in Ingesters PROVE ingest[i].busy \in BOOLEAN
    <3>1. ingest[i] = [busy |-> FALSE, todo |-> {}, new |-> {}]
      BY <2>3
    <3> QED BY ONLY <3>1
  <2> QED BY <2>1, <2>2, <2>3, <2>4 DEF StoreInv
<1>2. StoreInv /\ [Next]_vars => StoreInv'
  BY StoreInvStep
<1> QED
  BY <1>1, <1>2, PTL DEF Spec

\* However ingesters overlap and die, what is stored of an order never exceeds
\* what the broker executed, and an order that nobody fetched half-executed is
\* stored in full (execution/fill_ingester.py, fill_store.py).
THEOREM StoreIsSoundAlways == Spec => []StoreIsSound
<1>1. StoreInv => StoreIsSound
  BY FetchedIsFill DEF StoreInv, StoreIsSound
<1> QED
  BY <1>1, StoreInvHolds, PTL
-----------------------------------------------------------------------------
(* What fills come to *)

\* A fill tells of an order.
LEMMA FillFacts ==
    ASSUME NEW f \in Fills
    PROVE  /\ f.id \in Orders /\ f.symbol = Info[f.id].symbol /\ f.symbol \in Symbols
           /\ f.side = Info[f.id].side /\ f.side \in Sides
           /\ f.quantity \in Positive /\ f.quantity <= Info[f.id].quantity
           /\ f.price \in Positive /\ f.fee \in Nat /\ f.tax \in Nat /\ f.at \in Nat
           /\ f.side = "buy" => f.tax = 0
           /\ f = Fill(f.id, f.quantity)
           /\ Gross(f) \in Nat /\ NetAmount(f) \in Int
<1>1. PICK o \in Orders : \E n \in 1 .. Info[o].quantity : f = Fill(o, n)
  BY DEF Fills
<1>9. PICK q \in 1 .. Info[o].quantity : f = Fill(o, q)
  BY <1>1
<1>2. /\ Info[o].side \in Sides /\ Info[o].quantity \in Nat /\ Info[o].price \in Positive
      /\ Info[o].fee \in Nat /\ Info[o].tax \in Nat /\ Info[o].at \in Nat
      /\ Info[o].symbol \in Symbols
  BY InfoAssumption DEF Symbols, Positive
<1>3. q \in Nat /\ q \in Positive /\ q <= Info[o].quantity
  BY <1>2 DEF Positive
<1>4. \A m, n \in Nat : m * n \in Nat
  OBVIOUS
<1>5. /\ f.id = o /\ f.symbol = Info[o].symbol /\ f.side = Info[o].side /\ f.quantity = q
      /\ f.price = Info[o].price /\ f.fee = Info[o].fee * q /\ f.at = Info[o].at
      /\ f.tax = IF Info[o].side = "sell" THEN Info[o].tax * q ELSE 0
  BY <1>9 DEF Fill
<1>6. f.fee \in Nat /\ f.tax \in Nat /\ (f.side = "buy" => f.tax = 0)
  BY <1>2, <1>3, <1>4, <1>5
<1>7. Gross(f) \in Nat
  BY <1>2, <1>3, <1>4, <1>5 DEF Gross, Positive
<1>8. NetAmount(f) \in Int
  BY <1>6, <1>7 DEF NetAmount
<1> QED BY <1>9, <1>2, <1>3, <1>5, <1>6, <1>7, <1>8

\* A sum is that of the others and the number of an element.
LEMMA SumTakes ==
    ASSUME NEW T, IsFiniteSet(T), NEW w, \A y \in T : w[y] \in Int
    PROVE  /\ SumFunctionOnSet(w, T) \in Int
           /\ \A x \in T : SumFunctionOnSet(w, T) = SumFunctionOnSet(w, T \ {x}) + w[x]
<1>1. SumFunctionOnSet(w, T) = FoldOf(T, IntAddition, 0, w)
  BY SumIsFold
<1>2. FoldOf(T, IntAddition, 0, w) \in Int
  BY FoldAdds, IntegersAdd
<1>3. \A x \in T : FoldOf(T, IntAddition, 0, w) = IntAddition[w[x]][FoldOf(T \ {x}, IntAddition, 0, w)]
  BY FoldAdds, IntegersAdd
<1>4. ASSUME NEW x \in T
      PROVE  SumFunctionOnSet(w, T) = SumFunctionOnSet(w, T \ {x}) + w[x]
  <2>1. IsFiniteSet(T \ {x}) /\ \A y \in T \ {x} : w[y] \in Int
    BY FS_RemoveElement
  <2>2. SumFunctionOnSet(w, T \ {x}) = FoldOf(T \ {x}, IntAddition, 0, w)
    BY <2>1, SumIsFold
  <2>3. FoldOf(T \ {x}, IntAddition, 0, w) \in Int
    BY <2>1, FoldAdds, IntegersAdd
  <2>4. \A m, n \in Int : IntAddition[m][n] = n + m
    BY DEF IntAddition
  <2> QED BY <1>1, <1>3, <2>2, <2>3, <2>4
<1> QED BY <1>1, <1>2, <1>4

\* Only the numbers of its elements count.
LEMMA SumDependsOnNumbers ==
    ASSUME NEW S, IsFiniteSet(S), NEW v, NEW w, \A y \in S : v[y] \in Int /\ w[y] = v[y]
    PROVE  SumFunctionOnSet(v, S) = SumFunctionOnSet(w, S)
<1>1. \A y \in S : w[y] \in Int
  OBVIOUS
<1>2. /\ SumFunctionOnSet(v, S) = FoldOf(S, IntAddition, 0, v)
      /\ SumFunctionOnSet(w, S) = FoldOf(S, IntAddition, 0, w)
  BY <1>1, SumIsFold
<1>3. FoldOf(S, IntAddition, 0, w) = FoldOf(S, IntAddition, 0, v)
  BY FoldDependsOnValues
<1> QED BY <1>2, <1>3

\* No numbers add up to nothing.
LEMMA SumOfNothing ==
    ASSUME NEW w
    PROVE  SumFunctionOnSet(w, {}) = 0
<1>1. IsFiniteSet({}) /\ \A x \in {} : w[x] \in Int
  BY FS_EmptySet
<1>2. SumFunctionOnSet(w, {}) = FoldOf({}, IntAddition, 0, w)
  BY <1>1, SumIsFold
<1>3. FoldOf({}, IntAddition, 0, w) = 0
  BY <1>1, FoldAdds, IntegersAdd
<1> QED BY <1>2, <1>3

\* The net cash flow of one fill more.
LEMMA NetFlowGrows ==
    ASSUME NEW B, IsFiniteSet(B), B \subseteq Fills
    PROVE  /\ NetFlow(B) \in Int /\ NetFlow({}) = 0
           /\ \A f \in Fills \ B : NetFlow(B \union {f}) = NetFlow(B) + NetAmount(f)
<1> DEFINE W(S) == [f \in S |-> NetAmount(f)]
<1>1. \A S : DOMAIN W(S) = S /\ NetFlow(S) = SumFunctionOnSet(W(S), S)
  BY DEF NetFlow, SumFunction
<1>2. ASSUME NEW f \in Fills \ B
      PROVE  NetFlow(B \union {f}) = NetFlow(B) + NetAmount(f)
  <2> DEFINE T == B \union {f}
             v == W(B)
             w == W(T)
  <2>1. /\ \A y \in B : v[y] \in Int /\ w[y] = v[y]
        /\ \A y \in T : w[y] \in Int
        /\ w[f] = NetAmount(f) /\ f \in T /\ T \ {f} = B
    BY FillFacts
  <2>2. IsFiniteSet(T) /\ NetFlow(B) = SumFunctionOnSet(v, B) /\ NetFlow(T) = SumFunctionOnSet(w, T)
    BY <1>1, FS_AddElement
  <2> HIDE DEF T, v, w, W
  <2>3. SumFunctionOnSet(w, T) = SumFunctionOnSet(w, T \ {f}) + w[f]
    BY <2>1, <2>2, SumTakes
  <2>4. SumFunctionOnSet(v, B) = SumFunctionOnSet(w, B)
    BY <2>1, SumDependsOnNumbers
  <2>5. NetFlow(T) = NetFlow(B) + NetAmount(f)
    BY <2>1, <2>2, <2>3, <2>4
  <2> QED BY <2>5 DEF T
<1>3. NetFlow(B) \in Int
  <2>1. \A y \in B : W(B)[y] \in Int
    BY FillFacts
  <2> HIDE DEF W
  <2> QED BY <1>1, <2>1, SumTakes
<1>4. NetFlow({}) = 0
  BY <1>1, SumOfNothing
<1> QED BY <1>2, <1>3, <1>4

\* The shares of one fill more.
LEMMA QuantityGrows ==
    ASSUME NEW B, IsFiniteSet(B), B \subseteq Fills, NEW side
    PROVE  /\ Quantity(side, B) \in Int /\ Quantity(side, {}) = 0
           /\ \A f \in Fills \ B : Quantity(side, B \union {f})
                = IF f.side = side THEN Quantity(side, B) + f.quantity ELSE Quantity(side, B)
<1> DEFINE Of(S) == {x \in S : x.side = side}
           W(S) == [f \in Of(S) |-> f.quantity]
<1>1. \A S : Quantity(side, S) = SumFunctionOnSet(W(S), Of(S))
  <2>1. \A S : DOMAIN W(S) = Of(S)
    OBVIOUS
  <2> QED BY <2>1 DEF Quantity, SumFunction
<1>2. IsFiniteSet(Of(B)) /\ \A y \in Of(B) : W(B)[y] \in Int
  BY FS_Subset, FillFacts DEF Positive
<1>3. ASSUME NEW f \in Fills \ B, f.side = side
      PROVE  Quantity(side, B \union {f}) = Quantity(side, B) + f.quantity
  <2> DEFINE T == Of(B \union {f})
             v == W(B)
             w == W(B \union {f})
  <2>1. /\ f \in T /\ T \ {f} = Of(B) /\ T = Of(B) \union {f}
        /\ \A y \in Of(B) : v[y] \in Int /\ w[y] = v[y]
        /\ w[f] = f.quantity
    BY <1>2, <1>3
  <2>2. w[f] \in Int /\ IsFiniteSet(T)
    <3>1. w[f] \in Int
      BY <2>1, FillFacts DEF Positive
    <3> HIDE DEF T, Of
    <3> QED BY <1>2, <2>1, <3>1, FS_AddElement
  <2>3. Quantity(side, B) = SumFunctionOnSet(v, Of(B))
        /\ Quantity(side, B \union {f}) = SumFunctionOnSet(w, T)
    BY <1>1
  <2> HIDE DEF T, v, w, W, Of
  <2>4. \A y \in T : w[y] \in Int
    BY <2>1, <2>2
  <2>5. SumFunctionOnSet(w, T) = SumFunctionOnSet(w, T \ {f}) + w[f]
    BY <2>1, <2>2, <2>4, SumTakes
  <2>6. SumFunctionOnSet(v, Of(B)) = SumFunctionOnSet(w, Of(B))
    BY <1>2, <2>1, SumDependsOnNumbers
  <2> QED BY <2>1, <2>3, <2>5, <2>6
<1>4. ASSUME NEW f \in Fills \ B, f.side # side
      PROVE  Quantity(side, B \union {f}) = Quantity(side, B)
  <2>1. Of(B \union {f}) = Of(B)
    BY <1>4
  <2> QED BY <2>1 DEF Quantity
<1>5. Quantity(side, B) \in Int
  <2> HIDE DEF W, Of
  <2> QED BY <1>1, <1>2, SumTakes
<1>6. Quantity(side, {}) = 0
  <2>1. Of({}) = {}
    OBVIOUS
  <2> QED BY <1>1, <2>1, SumOfNothing
<1> QED BY <1>3, <1>4, <1>5, <1>6
-----------------------------------------------------------------------------
(* A position *)

\* A position is the one that some fills come to.
Fine(p, B) ==
    /\ p = [quantity |-> p.quantity, avg |-> p.avg, realized |-> p.realized,
            fees |-> p.fees, taxes |-> p.taxes]
    /\ p.quantity \in Nat /\ p.fees \in Nat /\ p.taxes \in Nat
    /\ p.avg \in Fractions /\ p.avg[1] >= 0 /\ p.realized \in Fractions
    /\ p.quantity = Quantity("buy", B) - Quantity("sell", B)
    /\ p.realized = Plus(Whole(NetFlow(B)), Times(p.avg, p.quantity))
    /\ p.quantity = 0 => p.avg = Zero

\* A fraction that is not negative has no negative numerator.
LEMMA SignOfRatio ==
    ASSUME NEW n \in Int, NEW d \in Positive, n >= 0
    PROVE  Ratio(n, d)[1] >= 0
<1> DEFINE x == Ratio(n, d)
<1>1. x[1] \in Int /\ x[2] \in Positive /\ x[1] * d = n * x[2]
  BY FractionIsPair
<1> HIDE DEF x
<1>2. ASSUME NEW p \in Int, NEW q \in Positive, p * d = n * q PROVE p >= 0
  <2>1. d \in Int /\ d > 0 /\ q \in Int /\ q > 0
    BY DEF Positive
  <2>2. n * q >= 0
    BY <2>1
  <2>3. p <= -1 => p * d <= -d
    BY <2>1
  <2> QED BY <1>2, <2>1, <2>2, <2>3
<1> QED BY <1>1, <1>2 DEF x

\* A purchase spread over the shares then held changes their cost by its price.
LEMMA CostOfPurchase ==
    ASSUME NEW x \in Fractions, x[1] >= 0, NEW q \in Nat, NEW k \in Positive, NEW m \in Nat,
           NEW n \in Int
    PROVE  LET y == Over(Plus(Times(x, q), Whole(m)), q + k)
           IN  /\ y \in Fractions /\ y[1] >= 0
               /\ Plus(Whole(n), Times(x, q)) = Plus(Whole(n - m), Times(y, q + k))
<1> DEFINE r == q + k
           y == Over(Plus(Times(x, q), Whole(m)), r)
<1>1. x[1] \in Int /\ x[2] \in Positive /\ x = Ratio(x[1], x[2])
  BY FractionIsPair DEF Fractions
<1>2. r \in Positive /\ r \in Int /\ q \in Int /\ m \in Int /\ 1 \in Positive /\ n - m \in Int
  BY DEF Positive
<1> HIDE DEF r
<1>3. ASSUME NEW a \in Int, NEW b \in Positive, x = Ratio(a, b), a >= 0
      PROVE  /\ y \in Fractions /\ y[1] >= 0
             /\ Plus(Whole(n), Times(x, q)) = Plus(Whole(n - m), Times(y, r))
  <2>1. Times(x, q) = Ratio(a * q, b) /\ a * q \in Int
    BY <1>2, <1>3, TimesIsRatio
  <2>2. Whole(m) = Ratio(m, 1) /\ Whole(n) = Ratio(n, 1) /\ Whole(n - m) = Ratio(n - m, 1)
    BY <1>2, WholeIsRatio
  <2> DEFINE c == (a * q) * 1 + m * b
             d == b * 1
  <2>3. Plus(Times(x, q), Whole(m)) = Ratio(c, d) /\ c \in Int /\ d \in Positive
    BY <1>2, <2>1, <2>2, PlusIsRatio
  <2>4. y = Ratio(c, d * r) /\ d * r \in Positive
    <3> HIDE DEF c, d
    <3> QED BY <1>2, <2>3, OverIsRatio
  <2>5. Times(y, r) = Ratio(c * r, d * r) /\ c * r \in Int
    <3> HIDE DEF c, d, y
    <3> QED BY <1>2, <2>3, <2>4, TimesIsRatio
  <2>6. Times(y, r) = Ratio(c, d)
    <3>1. (c * r) * d = c * (d * r)
      BY <1>2, <2>3 DEF Positive
    <3> HIDE DEF c, d, y
    <3> QED BY <2>3, <2>4, <2>5, <3>1, RatioIsCanonical
  <2>7. /\ Plus(Whole(n - m), Times(y, r)) = Ratio((n - m) * d + c * 1, 1 * d)
        /\ Plus(Whole(n), Times(x, q)) = Ratio(n * b + (a * q) * 1, 1 * b)
    <3> HIDE DEF c, d, y
    <3> QED BY <1>2, <2>1, <2>2, <2>3, <2>6, PlusIsRatio
  <2>8. (n - m) * d + c * 1 = n * b + (a * q) * 1 /\ 1 * d = 1 * b
    BY <1>2 DEF Positive
  <2>9. y[1] >= 0
    <3>1. c >= 0
      <4>1. a * q >= 0 /\ m * b >= 0
        BY <1>3 DEF Positive
      <4> QED BY <4>1, <2>1, <1>2 DEF Positive
    <3> HIDE DEF c, d, y
    <3> QED BY <2>3, <2>4, <3>1, SignOfRatio
  <2>10. y \in Fractions
    <3> HIDE DEF c, d, y
    <3> QED BY <2>3, <2>4, RatioIsFraction
  <2> HIDE DEF y, c, d
  <2> QED BY <2>7, <2>8, <2>9, <2>10
<1> HIDE DEF y
<1>4. /\ y \in Fractions /\ y[1] >= 0
      /\ Plus(Whole(n), Times(x, q)) = Plus(Whole(n - m), Times(y, r))
  BY <1>1, <1>3
<1> QED BY <1>4 DEF y, r

\* Profit and cost of what is left change by what the sale brings.
LEMMA CostOfSale ==
    ASSUME NEW x \in Fractions, NEW q \in Nat, NEW k \in Nat, NEW m \in Int, NEW n \in Int
    PROVE  Plus(Plus(Whole(n), Times(x, q)), Minus(Whole(m), Times(x, k)))
             = Plus(Whole(n + m), Times(x, q - k))
<1>1. PICK a \in Int, b \in Positive : x = Ratio(a, b)
  BY DEF Fractions
<1>2. q \in Int /\ k \in Int /\ q - k \in Int /\ n + m \in Int /\ 1 \in Positive
  BY DEF Positive
<1>3. /\ Whole(n) = Ratio(n, 1) /\ Whole(m) = Ratio(m, 1) /\ Whole(n + m) = Ratio(n + m, 1)
      /\ Times(x, q) = Ratio(a * q, b) /\ Times(x, k) = Ratio(a * k, b)
      /\ Times(x, q - k) = Ratio(a * (q - k), b)
      /\ a * q \in Int /\ a * k \in Int /\ a * (q - k) \in Int
  BY <1>1, <1>2, WholeIsRatio, TimesIsRatio
<1>4. /\ Plus(Whole(n), Times(x, q)) = Ratio(n * b + (a * q) * 1, 1 * b)
      /\ n * b + (a * q) * 1 \in Int /\ 1 * b \in Positive
  BY <1>2, <1>3, PlusIsRatio
<1>5. /\ Minus(Whole(m), Times(x, k)) = Ratio(m * b - (a * k) * 1, 1 * b)
      /\ m * b - (a * k) * 1 \in Int
  BY <1>2, <1>3, MinusIsRatio
<1>6. /\ Plus(Whole(n + m), Times(x, q - k)) = Ratio((n + m) * b + (a * (q - k)) * 1, 1 * b)
      /\ (n + m) * b + (a * (q - k)) * 1 \in Int
  BY <1>2, <1>3, PlusIsRatio
<1> DEFINE u == n * b + (a * q) * 1
           v == m * b - (a * k) * 1
           w == (n + m) * b + (a * (q - k)) * 1
           e == 1 * b
<1>7. w = u + v
  BY <1>2 DEF Positive
<1>8. u \in Int /\ v \in Int /\ w \in Int /\ e \in Positive
  BY <1>4, <1>5, <1>6
<1> HIDE DEF u, v, w, e
<1>9. Plus(Ratio(u, e), Ratio(v, e)) = Ratio(u * e + v * e, e * e)
      /\ u * e + v * e \in Int /\ e * e \in Positive
  BY <1>8, PlusIsRatio
<1>10. Ratio(u * e + v * e, e * e) = Ratio(w, e)
  <2>1. (u * e + v * e) * e = w * (e * e)
    <3>1. e \in Int
      BY <1>8 DEF Positive
    <3> QED BY <1>7, <1>8, <3>1
  <2> QED BY <1>8, <1>9, <2>1, RatioIsCanonical
<1> QED BY <1>4, <1>5, <1>6, <1>9, <1>10 DEF u, v, w, e

\* No fills come to no position.
LEMMA NoPositionIsFine == Fine(NoPosition, {})
<1>1. NetFlow({}) = 0 /\ Quantity("buy", {}) = 0 /\ Quantity("sell", {}) = 0
  BY FS_EmptySet, NetFlowGrows, QuantityGrows
<1>2. /\ Zero = Whole(0) /\ Zero = Ratio(0, 1) /\ Zero \in Fractions /\ Zero[1] = 0
      /\ 1 \in Positive
  BY WholeIsRatio DEF Zero, Whole, Positive
<1>3. Times(Zero, 0) = Zero
  <2>1. Times(Zero, 0) = Ratio(0 * 0, 1)
    BY <1>2, TimesIsRatio
  <2> QED BY <1>2, <2>1
<1>4. Plus(Whole(0), Zero) = Zero
  <2>1. \A x \in Fractions : Addition[x][Zero] = x
    BY FractionsAdd DEF Adding
  <2>2. Addition[Zero][Zero] = Plus(Zero, Zero)
    BY <1>2 DEF Addition
  <2> QED BY <1>2, <2>1, <2>2
<1> DEFINE p == NoPosition
<1>5. /\ p = [quantity |-> p.quantity, avg |-> p.avg, realized |-> p.realized,
              fees |-> p.fees, taxes |-> p.taxes]
      /\ p.quantity = 0 /\ p.avg = Zero /\ p.realized = Zero /\ p.fees = 0 /\ p.taxes = 0
  BY DEF NoPosition
<1> HIDE DEF p
<1>6. Fine(p, {})
  BY <1>1, <1>2, <1>3, <1>4, <1>5 DEF Fine
<1> QED BY <1>6 DEF p

\* A purchase is spread over the shares then held.
LEMMA BuyIsFine ==
    ASSUME NEW B, IsFiniteSet(B), B \subseteq Fills, NEW f \in Fills \ B, f.side = "buy",
           NEW p, Fine(p, B)
    PROVE  Fine(ApplyBuy(p, f), B \union {f})
<1> DEFINE t == ApplyBuy(p, f)
           C == B \union {f}
           m == Gross(f) + f.fee
           n == NetFlow(B)
           y == Over(Plus(Times(p.avg, p.quantity), Whole(m)), p.quantity + f.quantity)
<1>1. /\ f.quantity \in Positive /\ f.fee \in Nat /\ Gross(f) \in Nat /\ m \in Nat
      /\ NetAmount(f) = -m /\ m \in Int
  BY FillFacts DEF NetAmount
<1>2. /\ p.quantity \in Nat /\ p.fees \in Nat /\ p.taxes \in Nat
      /\ p.avg \in Fractions /\ p.avg[1] >= 0 /\ p.realized \in Fractions
      /\ p.quantity = Quantity("buy", B) - Quantity("sell", B)
      /\ p.realized = Plus(Whole(n), Times(p.avg, p.quantity))
      /\ p = [quantity |-> p.quantity, avg |-> p.avg, realized |-> p.realized,
              fees |-> p.fees, taxes |-> p.taxes]
  BY DEF Fine
<1>3. n \in Int /\ NetFlow(C) = n - m
  BY <1>1, NetFlowGrows
<1>4. /\ Quantity("buy", B) \in Int /\ Quantity("sell", B) \in Int
      /\ Quantity("buy", C) = Quantity("buy", B) + f.quantity
      /\ Quantity("sell", C) = Quantity("sell", B)
  BY QuantityGrows
<1>5. t = [p EXCEPT !.quantity = p.quantity + f.quantity, !.avg = y, !.fees = p.fees + f.fee]
  BY DEF ApplyBuy
<1> HIDE DEF t, C, y, m, n
<1>6. /\ t = [quantity |-> p.quantity + f.quantity, avg |-> y, realized |-> p.realized,
              fees |-> p.fees + f.fee, taxes |-> p.taxes]
  BY <1>2, <1>5
<1>7. /\ t.quantity = p.quantity + f.quantity /\ t.avg = y /\ t.realized = p.realized
      /\ t.fees = p.fees + f.fee /\ t.taxes = p.taxes
      /\ t = [quantity |-> t.quantity, avg |-> t.avg, realized |-> t.realized,
              fees |-> t.fees, taxes |-> t.taxes]
  BY <1>6
<1>8. /\ y \in Fractions /\ y[1] >= 0
      /\ Plus(Whole(n), Times(p.avg, p.quantity))
           = Plus(Whole(n - m), Times(y, p.quantity + f.quantity))
  <2>1. p.avg \in Fractions /\ p.avg[1] >= 0 /\ p.quantity \in Nat /\ f.quantity \in Positive
        /\ m \in Nat /\ n \in Int
    BY <1>1, <1>2, <1>3
  <2> QED BY ONLY <2>1, CostOfPurchase DEF y
<1>9. t.quantity \in Nat /\ t.quantity # 0 /\ t.fees \in Nat
      /\ t.quantity = Quantity("buy", C) - Quantity("sell", C)
  BY <1>1, <1>2, <1>4, <1>7 DEF Positive
<1>10. t.realized = Plus(Whole(NetFlow(C)), Times(t.avg, t.quantity))
  BY <1>2, <1>3, <1>7, <1>8
<1>11. Fine(t, C)
  BY <1>2, <1>7, <1>8, <1>9, <1>10 DEF Fine
<1> QED BY <1>11 DEF t, C

\* A sale realizes what it brings above the average cost.
LEMMA SaleIsFine ==
    ASSUME NEW B, IsFiniteSet(B), B \subseteq Fills, NEW f \in Fills \ B, f.side = "sell",
           NEW p, Fine(p, B), f.quantity <= p.quantity
    PROVE  Fine(ApplySell(p, f), B \union {f})
<1> DEFINE t == ApplySell(p, f)
           C == B \union {f}
           m == Gross(f) - f.fee - f.tax
           n == NetFlow(B)
           q == p.quantity - f.quantity
           delta == Minus(Whole(m), Times(p.avg, f.quantity))
           y == IF q > 0 THEN p.avg ELSE Zero
<1>1. /\ f.quantity \in Positive /\ f.fee \in Nat /\ f.tax \in Nat /\ Gross(f) \in Nat
      /\ NetAmount(f) = m /\ m \in Int
  BY FillFacts DEF NetAmount
<1>2. /\ p.quantity \in Nat /\ p.fees \in Nat /\ p.taxes \in Nat
      /\ p.avg \in Fractions /\ p.avg[1] >= 0 /\ p.realized \in Fractions
      /\ p.quantity = Quantity("buy", B) - Quantity("sell", B)
      /\ p.realized = Plus(Whole(n), Times(p.avg, p.quantity))
  BY DEF Fine
<1>3. n \in Int /\ NetFlow(C) = n + m
  BY <1>1, NetFlowGrows
<1>4. /\ Quantity("buy", B) \in Int /\ Quantity("sell", B) \in Int
      /\ Quantity("buy", C) = Quantity("buy", B)
      /\ Quantity("sell", C) = Quantity("sell", B) + f.quantity
  BY QuantityGrows
<1>5. q \in Nat /\ f.quantity \in Nat /\ f.quantity \in Int /\ q = Quantity("buy", C) - Quantity("sell", C)
  BY <1>1, <1>2, <1>4 DEF Positive
<1>6. t = [quantity |-> q, avg |-> y, realized |-> Plus(p.realized, delta),
           fees |-> p.fees + f.fee, taxes |-> p.taxes + f.tax]
  BY DEF ApplySell
<1> HIDE DEF t
<1>7. /\ t.quantity = q /\ t.avg = y /\ t.realized = Plus(p.realized, delta)
      /\ t.fees = p.fees + f.fee /\ t.taxes = p.taxes + f.tax
      /\ t = [quantity |-> t.quantity, avg |-> t.avg, realized |-> t.realized,
              fees |-> t.fees, taxes |-> t.taxes]
  BY <1>6
<1>8. Zero \in Fractions /\ Zero[1] = 0 /\ Zero = Ratio(0, 1) /\ 1 \in Positive
  BY WholeIsRatio DEF Zero, Whole, Positive
<1> HIDE DEF C, m, n
<1>9. Plus(p.realized, delta) = Plus(Whole(NetFlow(C)), Times(p.avg, q))
  <2>1. p.avg \in Fractions /\ p.quantity \in Nat /\ f.quantity \in Nat /\ m \in Int /\ n \in Int
    BY <1>1, <1>2, <1>3, <1>5
  <2>2. Plus(Plus(Whole(n), Times(p.avg, p.quantity)), delta)
          = Plus(Whole(n + m), Times(p.avg, q))
    BY ONLY <2>1, CostOfSale
  <2> QED BY <1>2, <1>3, <2>2
<1>10. q = 0 => Times(p.avg, q) = Times(Zero, q)
  <2>1. PICK a \in Int, b \in Positive : p.avg = Ratio(a, b)
    BY <1>2 DEF Fractions
  <2>2. Times(p.avg, 0) = Ratio(a * 0, b) /\ Times(Zero, 0) = Ratio(0 * 0, 1)
    BY <1>8, <2>1, TimesIsRatio
  <2>3. Ratio(a * 0, b) = Ratio(0 * 0, 1)
    <3>1. (a * 0) * 1 = (0 * 0) * b /\ a * 0 \in Int /\ 0 * 0 \in Int
      BY DEF Positive
    <3> QED BY <1>8, <3>1, RatioIsCanonical
  <2> QED BY <2>2, <2>3
<1>11. Times(p.avg, q) = Times(y, q)
  BY <1>5, <1>10
<1>12. y \in Fractions /\ y[1] >= 0 /\ (q = 0 => y = Zero)
  BY <1>2, <1>8
<1>13. Plus(p.realized, delta) \in Fractions
  BY <1>1, <1>2, <1>5, WholeIsRatio, MultiplesAreFractions, SumsAreFractions
<1>14. t.fees \in Nat /\ t.taxes \in Nat
  BY <1>1, <1>2, <1>7
<1> HIDE DEF q, y, delta
<1>15. Fine(t, C)
  BY <1>5, <1>7, <1>9, <1>11, <1>12, <1>13, <1>14 DEF Fine
<1> QED BY <1>15 DEF t, C
-----------------------------------------------------------------------------
(* Fills in the order of their times *)

Ordered(s) == \A i, j \in DOMAIN s : i < j => s[i] # s[j] /\ s[i].at <= s[j].at

\* Of some fills one is last.
LEMMA LastFill ==
    ASSUME NEW S, IsFiniteSet(S), S \subseteq Fills, S # {}
    PROVE  \E f \in S : \A g \in S : g.at <= f.at
<1> DEFINE HasLast(T) == \E f \in T : \A g \in T : g.at <= f.at
           Bad == {T \in SUBSET S : T # {} /\ ~HasLast(T)}
<1>1. SUFFICES ASSUME Bad # {} PROVE FALSE
  OBVIOUS
<1>2. PICK T \in Bad : \A x \in T : T \ {x} \notin Bad
  <2>1. Bad \subseteq SUBSET S
    OBVIOUS
  <2> HIDE DEF Bad
  <2> QED BY <1>1, <2>1, SmallestPart
<1>3. \A g \in S : g.at \in Nat
  BY FillFacts
<1>4. PICK x : x \in T
  OBVIOUS
<1>5. CASE T \ {x} = {}
  BY <1>3, <1>4, <1>5
<1>6. CASE T \ {x} # {}
  <2>1. HasLast(T \ {x})
    BY <1>2, <1>4, <1>6
  <2>2. PICK y \in T \ {x} : \A g \in T \ {x} : g.at <= y.at
    BY <2>1
  <2>3. x.at <= y.at \/ y.at <= x.at
    BY <1>3, <1>4, <2>2
  <2>4. CASE x.at <= y.at
    BY <2>2, <2>4
  <2>5. CASE y.at <= x.at
    <3>1. ASSUME NEW g \in T PROVE g.at <= x.at
      BY <1>3, <1>4, <2>2, <2>5
    <3> QED BY <1>4, <3>1
  <2> QED BY <2>3, <2>4, <2>5
<1> QED BY <1>5, <1>6

\* Fills can be put in order, and Sorted does.
LEMMA SortedIsOrdered ==
    ASSUME NEW S, IsFiniteSet(S), S \subseteq Fills
    PROVE  /\ Sorted(S) \in [1 .. Cardinality(S) -> S] /\ Cardinality(S) \in Nat
           /\ Ordered(Sorted(S))
<1> DEFINE Can(T) == \E s \in [1 .. Cardinality(T) -> T] : Ordered(s)
           Bad == {T \in SUBSET S : ~Can(T)}
<1>1. Bad = {}
  <2>1. SUFFICES ASSUME Bad # {} PROVE FALSE
    OBVIOUS
  <2>2. PICK T \in Bad : \A x \in T : T \ {x} \notin Bad
    <3>1. Bad \subseteq SUBSET S
      OBVIOUS
    <3> HIDE DEF Bad
    <3> QED BY <2>1, <3>1, SmallestPart
  <2>3. IsFiniteSet(T) /\ T \subseteq Fills /\ Cardinality(T) \in Nat
    BY FS_Subset, FS_CardinalityType
  <2>4. CASE T = {}
    <3>1. Cardinality(T) = 0
      BY <2>4, FS_EmptySet
    <3>2. [i \in {} |-> 0] \in [1 .. 0 -> T] /\ Ordered([i \in {} |-> 0])
      BY DEF Ordered
    <3> QED BY <2>2, <3>1, <3>2
  <2>5. CASE T # {}
    <3>1. PICK f \in T : \A g \in T : g.at <= f.at
      BY <2>3, <2>5, LastFill
    <3> DEFINE U == T \ {f}
               n == Cardinality(U)
    <3>2. n \in Nat /\ Cardinality(T) = n + 1
      <4>1. IsFiniteSet(U) /\ Cardinality(U) = Cardinality(T) - 1
        BY <2>3, <3>1, FS_RemoveElement
      <4>2. Cardinality(U) \in Nat
        BY <4>1, FS_CardinalityType
      <4> QED BY <2>3, <4>1, <4>2
    <3>3. PICK r \in [1 .. n -> U] : Ordered(r)
      BY <2>2, <3>1
    <3> HIDE DEF n
    <3> DEFINE s == [i \in 1 .. n + 1 |-> IF i = n + 1 THEN f ELSE r[i]]
    <3>4. ASSUME NEW i \in 1 .. n + 1
          PROVE  /\ s[i] \in T
                 /\ i # n + 1 => i \in 1 .. n /\ s[i] = r[i] /\ r[i] \in U
                 /\ i = n + 1 => s[i] = f
      BY <3>1, <3>2, <3>3
    <3>5. s \in [1 .. n + 1 -> T]
      BY <3>4
    <3>6. ASSUME NEW i \in 1 .. n + 1, NEW j \in 1 .. n + 1, i < j
          PROVE  s[i] # s[j] /\ s[i].at <= s[j].at
      <4>1. i # n + 1 /\ i \in 1 .. n
        BY <3>2, <3>6
      <4>2. s[i] = r[i] /\ r[i] \in U
        BY <3>4, <4>1
      <4>3. CASE j = n + 1
        BY <3>1, <3>4, <4>2, <4>3
      <4>4. CASE j # n + 1
        <5>1. j \in 1 .. n /\ s[j] = r[j]
          BY <3>4, <4>4
        <5>2. DOMAIN r = 1 .. n
          BY <3>3
        <5> QED BY <3>3, <3>6, <4>1, <4>2, <5>1, <5>2 DEF Ordered
      <4> QED BY <4>3, <4>4
    <3>7. Ordered(s)
      <4>1. DOMAIN s = 1 .. n + 1
        OBVIOUS
      <4> HIDE DEF s
      <4> QED BY <3>6, <4>1 DEF Ordered
    <3> HIDE DEF s
    <3> QED BY <2>2, <3>2, <3>5, <3>7
  <2> QED BY <2>4, <2>5
<1>2. \E s \in [1 .. Cardinality(S) -> S] : Ordered(s)
  BY <1>1
<1>3. Sorted(S) = CHOOSE s \in [1 .. Cardinality(S) -> S] : Ordered(s)
  BY DEF Sorted, Ordered
<1>4. Cardinality(S) \in Nat
  BY FS_CardinalityType
<1> QED BY <1>2, <1>3, <1>4
-----------------------------------------------------------------------------
(* The ledger *)

Rows == [symbol : Symbols, fill : Orders, quantity : Nat, realized : Fractions]
Told == {n \in DOMAIN book : book[n] # unrecorded /\ book[n].id \notin torn}
Row(n) == Cardinality({m \in Told : m <= n})

\* No order is in the book twice, and the ledger works on orders that are not
\* in it.
WorkInv ==
    /\ work \in Seq(Fills) /\ book \in Seq(Fills)
    /\ \A m, n \in DOMAIN book : book[m].id = book[n].id => m = n
    /\ \A m, n \in DOMAIN work : work[m].id = work[n].id => m = n
    /\ \A n \in DOMAIN work : ~InBook(work[n].id)

\* A row is missing for the fill just applied and for those torn by a crash.
HistoryInv ==
    /\ unrecorded \in Fills \union {None}
    /\ unrecorded # None => /\ book # <<>> /\ unrecorded = book[Len(book)]
                            /\ unrecorded.id \notin torn
    /\ torn \subseteq Orders /\ \A o \in torn : InBook(o)
    /\ history \in Seq(Rows)
    /\ Len(history) = Cardinality(Told)
    /\ \A n \in Told : history[Row(n)].fill = book[n].id

\* Every position is the one that the applied fills of its symbol come to.
PositionsInv ==
    /\ positions = [s \in Symbols |-> positions[s]]
    /\ \A s \in Symbols : Fine(positions[s], Booked(s))

LedgerInv == WorkInv /\ HistoryInv /\ PositionsInv

\* The values of a function on a finite set are finitely many.
LEMMA ImageIsFinite ==
    ASSUME NEW S, IsFiniteSet(S), NEW w
    PROVE  IsFiniteSet({w[x] : x \in S})
<1> DEFINE T == {w[x] : x \in S}
           v == [x \in S |-> w[x]]
<1>1. v \in Surjection(S, T)
  BY DEF Surjection
<1> HIDE DEF v, T
<1>2. IsFiniteSet(T)
  BY <1>1, FS_Surjection
<1> QED BY <1>2 DEF T

\* The fills in the book are fills, and finitely many.
LEMMA BookFacts ==
    ASSUME book \in Seq(Fills)
    PROVE  /\ Len(book) \in Nat /\ DOMAIN book = 1 .. Len(book) /\ IsFiniteSet(DOMAIN book)
           /\ \A n \in DOMAIN book : book[n] \in Fills /\ book[n] # None
           /\ ToSet(book) \subseteq Fills /\ IsFiniteSet(ToSet(book))
           /\ \A s : Booked(s) \subseteq ToSet(book) /\ IsFiniteSet(Booked(s))
                     /\ Booked(s) = {f \in ToSet(book) : f.symbol = s}
<1>1. Len(book) \in Nat /\ DOMAIN book = 1 .. Len(book)
  BY LenProperties
<1>2. IsFiniteSet(DOMAIN book)
  BY <1>1, FS_Interval
<1>3. \A n \in DOMAIN book : book[n] \in Fills
  BY <1>1, ElementOfSeq
<1>4. ToSet(book) = {book[n] : n \in DOMAIN book}
  BY DEF ToSet
<1>5. IsFiniteSet(ToSet(book))
  BY <1>2, <1>4, ImageIsFinite
<1>6. \A s : Booked(s) \subseteq ToSet(book) /\ Booked(s) = {f \in ToSet(book) : f.symbol = s}
  BY <1>4 DEF Booked
<1>7. \A s : IsFiniteSet(Booked(s))
  BY <1>5, <1>6, FS_Subset
<1> QED BY <1>1, <1>2, <1>3, <1>4, <1>5, <1>6, <1>7, NoneAssumption

\* The rows that are told of are numbered from one on.
LEMMA RowFacts ==
    ASSUME book \in Seq(Fills)
    PROVE  /\ IsFiniteSet(Told) /\ Cardinality(Told) \in Nat
           /\ \A n \in Told : Row(n) \in 1 .. Cardinality(Told)
<1>1. IsFiniteSet(Told) /\ Told \subseteq Int
  BY BookFacts, FS_Subset DEF Told
<1>2. Cardinality(Told) \in Nat
  BY <1>1, FS_CardinalityType
<1>3. ASSUME NEW n \in Told PROVE Row(n) \in 1 .. Cardinality(Told)
  <2> DEFINE upTo == {m \in Told : m <= n}
  <2>1. upTo \subseteq Told /\ n \in upTo
    BY <1>1
  <2>2. IsFiniteSet(upTo) /\ Cardinality(upTo) <= Cardinality(Told)
    BY <1>1, <2>1, FS_Subset
  <2>3. Cardinality(upTo) \in Nat /\ Cardinality(upTo) # 0
    BY <2>1, <2>2, FS_CardinalityType, FS_EmptySet
  <2> QED BY <1>2, <2>2, <2>3 DEF Row
<1> QED BY <1>1, <1>2, <1>3

\* What the caller hands over becomes work: fills of different orders.
LEMMA WorkIsSorted ==
    ASSUME NEW S, IsFiniteSet(S), S \subseteq Fills, \A f, g \in S : f.id = g.id => f = g
    PROVE  LET w == Sorted(S) IN
           /\ w \in Seq(Fills) /\ \A n \in DOMAIN w : w[n] \in S
           /\ \A m, n \in DOMAIN w : w[m].id = w[n].id => m = n
<1> DEFINE w == Sorted(S)
           k == Cardinality(S)
<1>1. w \in [1 .. k -> S] /\ k \in Nat /\ Ordered(w)
  BY SortedIsOrdered
<1> HIDE DEF w, k
<1>2. w \in Seq(S) /\ DOMAIN w = 1 .. k /\ \A n \in DOMAIN w : w[n] \in S
  BY <1>1, SeqDef
<1>3. w \in Seq(Fills)
  BY <1>2, SeqMonotonic
<1>4. ASSUME NEW m \in DOMAIN w, NEW n \in DOMAIN w, w[m].id = w[n].id
      PROVE  m = n
  <2>1. w[m] = w[n]
    BY <1>2, <1>4
  <2>2. ~(m < n) /\ ~(n < m)
    BY <1>1, <2>1 DEF Ordered
  <2> QED BY <1>1, <1>2, <2>2
<1> QED BY <1>2, <1>3, <1>4 DEF w

\* The fills of the store are fills of different orders.
LEMMA StoredFacts ==
    ASSUME StoreInv
    PROVE  /\ IsFiniteSet(Stored) /\ Stored \subseteq Fills
           /\ \A f, g \in Stored : f.id = g.id => f = g
           /\ \A f \in Stored : f = stored[f.id] /\ f.id \in Orders
<1>1. Stored = {stored[o] : o \in {p \in Orders : stored[p] # None}}
  BY DEF Stored
<1>2. IsFiniteSet({p \in Orders : stored[p] # None})
  BY OrdersAssumption, FS_Subset
<1>3. IsFiniteSet(Stored)
  BY <1>1, <1>2, ImageIsFinite
<1>4. \A f \in Stored : f = stored[f.id] /\ f.id \in Orders
  BY <1>1 DEF StoreInv
<1>5. Stored \subseteq Fills
  BY <1>1, FetchedIsFill DEF StoreInv
<1> QED BY <1>3, <1>4, <1>5

\* A fill more in the book is a fill more of its symbol.
LEMMA BookGrows ==
    ASSUME book \in Seq(Fills), NEW f \in Fills, book' = Append(book, f)
    PROVE  /\ book' \in Seq(Fills) /\ DOMAIN book' = 1 .. Len(book) + 1
           /\ Len(book') = Len(book) + 1 /\ book' # <<>>
           /\ \A n \in DOMAIN book : n \in DOMAIN book' /\ book'[n] = book[n]
           /\ book'[Len(book) + 1] = f
           /\ \A n \in DOMAIN book' : n # Len(book) + 1 => n \in DOMAIN book
           /\ \A s : Booked(s)' = IF s = f.symbol THEN Booked(s) \union {f} ELSE Booked(s)
           /\ \A o : InBook(o)' <=> (InBook(o) \/ o = f.id)
<1> DEFINE k == Len(book)
<1>1. k \in Nat /\ DOMAIN book = 1 .. k
  BY LenProperties
<1>2. /\ book' \in Seq(Fills) /\ DOMAIN book' = 1 .. k + 1 /\ Len(book') = k + 1
      /\ book' # <<>> /\ \A n \in 1 .. k : book'[n] = book[n]
      /\ book'[k + 1] = f
  BY AppendProperties, LenProperties
<1> HIDE DEF k
<1>3. \A n \in DOMAIN book' : n # k + 1 => n \in DOMAIN book
  BY <1>1, <1>2
<1>4. \A n \in DOMAIN book : n \in DOMAIN book' /\ book'[n] = book[n]
  BY <1>1, <1>2
<1>5. k + 1 \in DOMAIN book'
  BY <1>1, <1>2
<1>6. ASSUME NEW s
      PROVE  Booked(s)' = IF s = f.symbol THEN Booked(s) \union {f} ELSE Booked(s)
  <2>1. Booked(s)' = {book'[n] : n \in {n \in DOMAIN book' : book'[n].symbol = s}}
    BY DEF Booked
  <2>2. Booked(s) = {book[n] : n \in {n \in DOMAIN book : book[n].symbol = s}}
    BY DEF Booked
  <2> QED BY <1>2, <1>3, <1>4, <1>5, <2>1, <2>2
<1>7. ASSUME NEW o PROVE InBook(o)' <=> (InBook(o) \/ o = f.id)
  BY <1>2, <1>3, <1>4, <1>5 DEF InBook
<1> QED BY <1>2, <1>3, <1>4, <1>6, <1>7 DEF k

\* Nothing is told of an empty book.
LEMMA EmptyBook ==
    book = <<>> /\ positions = [s \in Symbols |-> NoPosition] =>
        /\ book \in Seq(Fills) /\ DOMAIN book = {} /\ Told = {}
        /\ PositionsInv /\ <<>> \in Seq(Rows) /\ Len(<<>>) = Cardinality(Told)
<1> SUFFICES ASSUME book = <<>>, positions = [s \in Symbols |-> NoPosition]
             PROVE  /\ book \in Seq(Fills) /\ DOMAIN book = {} /\ Told = {}
                    /\ PositionsInv /\ <<>> \in Seq(Rows) /\ Len(<<>>) = Cardinality(Told)
  OBVIOUS
<1>1. DOMAIN book = {}
  BY EmptySeq, LenProperties
<1>2. Told = {} /\ Cardinality(Told) = 0
  BY <1>1, FS_EmptySet DEF Told
<1>3. \A s \in Symbols : Booked(s) = {}
  BY <1>1 DEF Booked
<1>4. PositionsInv
  BY <1>3, NoPositionIsFine DEF PositionsInv
<1> QED BY <1>1, <1>2, <1>4, EmptySeq

\* A fill is applied: it is new to the book, and nothing is told of it yet.
LEMMA ApplyKeepsTheBooks ==
    ASSUME LedgerInv, Apply
    PROVE  LedgerInv'
<1> DEFINE f == Head(work)
           p == positions[f.symbol]
<1>1. work # <<>> /\ unrecorded = None /\ history' = history /\ torn' = torn
  BY DEF Apply
<1>2. CASE f.side = "sell" /\ f.quantity > p.quantity
  <2>1. work' = <<>> /\ UNCHANGED <<unrecorded, positions, book, history, torn>>
    BY <1>2 DEF Apply
  <2>2. work' \in Seq(Fills) /\ DOMAIN work' = {}
    BY <2>1, EmptySeq, LenProperties
  <2>3. WorkInv'
    BY <2>1, <2>2 DEF LedgerInv, WorkInv
  <2> QED BY <2>1, <2>3 DEF LedgerInv, HistoryInv, PositionsInv, Told, Row, InBook, Booked
<1>3. CASE ~(f.side = "sell" /\ f.quantity > p.quantity)
  <2>1. /\ work' = Tail(work) /\ unrecorded' = f /\ book' = Append(book, f)
        /\ positions' = [positions EXCEPT ![f.symbol] =
               IF f.side = "buy" THEN ApplyBuy(p, f) ELSE ApplySell(p, f)]
    BY <1>3 DEF Apply
  <2>2. /\ work \in Seq(Fills) /\ f \in Fills /\ f = work[1] /\ Tail(work) \in Seq(Fills)
        /\ DOMAIN work = 1 .. Len(work) /\ Len(work) \in Nat /\ 1 \in DOMAIN work
        /\ DOMAIN Tail(work) = 1 .. Len(work) - 1
        /\ \A n \in 1 .. Len(work) - 1 : Tail(work)[n] = work[n + 1]
    <3>1. work \in Seq(Fills) /\ Len(work) \in Nat \ {0}
      BY <1>1, EmptySeq DEF LedgerInv, WorkInv
    <3> QED BY <1>1, <3>1, HeadTailProperties, LenProperties
  <2>3. /\ \A m, n \in DOMAIN work : work[m].id = work[n].id => m = n
        /\ \A n \in DOMAIN work : ~InBook(work[n].id)
        /\ book \in Seq(Fills)
    BY DEF LedgerInv, WorkInv
  <2>4. ~InBook(f.id) /\ f # None
    BY <2>2, <2>3, NoneAssumption
  <2> HIDE DEF f, p
  <2>5. /\ book' \in Seq(Fills) /\ DOMAIN book' = 1 .. Len(book) + 1
        /\ Len(book') = Len(book) + 1 /\ book' # <<>>
        /\ \A n \in DOMAIN book : n \in DOMAIN book' /\ book'[n] = book[n]
        /\ book'[Len(book) + 1] = f
        /\ \A n \in DOMAIN book' : n # Len(book) + 1 => n \in DOMAIN book
        /\ \A s : Booked(s)' = IF s = f.symbol THEN Booked(s) \union {f} ELSE Booked(s)
        /\ \A o : InBook(o)' <=> (InBook(o) \/ o = f.id)
    BY ONLY <2>1, <2>2, <2>3, BookGrows
  <2>6. WorkInv'
    <3>1. ASSUME NEW m \in DOMAIN book', NEW n \in DOMAIN book', book'[m].id = book'[n].id
          PROVE  m = n
      <4>1. \A i \in DOMAIN book : book[i].id # f.id
        BY <2>4 DEF InBook
      <4> QED BY <2>5, <3>1, <4>1 DEF LedgerInv, WorkInv
    <3>2. ASSUME NEW n \in DOMAIN work'
          PROVE  n \in 1 .. Len(work) - 1 /\ n + 1 \in DOMAIN work /\ work'[n] = work[n + 1]
                 /\ n + 1 # 1
      BY <2>1, <2>2
    <3>3. ASSUME NEW m \in DOMAIN work', NEW n \in DOMAIN work', work'[m].id = work'[n].id
          PROVE  m = n
      <4>1. m + 1 = n + 1
        BY <2>3, <3>2, <3>3
      <4> QED BY <3>2, <4>1
    <3>4. ASSUME NEW n \in DOMAIN work' PROVE (~InBook(work[n].id))'
      <4>1. work'[n].id # f.id
        BY <2>2, <2>3, <3>2
      <4>2. ~InBook(work'[n].id)
        BY <2>3, <3>2
      <4>3. \A m \in DOMAIN book' : book'[m].id # work'[n].id
        BY <2>5, <4>1, <4>2 DEF InBook
      <4> QED BY <4>3 DEF InBook
    <3> QED BY <2>1, <2>2, <2>5, <3>1, <3>3, <3>4 DEF WorkInv
  <2>7. HistoryInv'
    <3>1. f.id \notin torn
      BY <2>4 DEF LedgerInv, HistoryInv
    <3>2. \A n \in DOMAIN book : book[n] # f /\ book[n] # None
      BY <2>3, <2>4, BookFacts DEF InBook
    <3>3. Told' = Told
      <4>1. Told' = {n \in DOMAIN book' : book'[n] # f /\ book'[n].id \notin torn}
        BY <1>1, <2>1 DEF Told
      <4>2. Told = {n \in DOMAIN book : book[n].id \notin torn}
        BY <1>1, <3>2 DEF Told
      <4> QED BY <2>5, <3>2, <4>1, <4>2
    <3>4. \A n : Row(n)' = Row(n)
      BY <3>3 DEF Row
    <3>5. \A n \in Told : n \in DOMAIN book
      BY DEF Told
    <3>6. unrecorded' \in Fills \union {None} /\ unrecorded' = book'[Len(book')]
      BY <2>1, <2>2, <2>5
    <3>7. /\ torn \subseteq Orders /\ \A o \in torn : InBook(o)
          /\ history \in Seq(Rows)
          /\ Len(history) = Cardinality(Told)
          /\ \A n \in Told : history[Row(n)].fill = book[n].id
      BY DEF LedgerInv, HistoryInv
    <3>8. \A n \in Told' : (history[Row(n)].fill)' = (book[n].id)'
      BY <1>1, <2>5, <3>3, <3>4, <3>5, <3>7
    <3>9. Len(history') = Cardinality(Told)' /\ history' \in Seq(Rows)
      BY <1>1, <3>3, <3>7
    <3>10. torn' \subseteq Orders /\ \A o \in torn' : InBook(o)'
      BY <1>1, <2>5, <3>7
    <3>11. unrecorded' # None => /\ book' # <<>> /\ unrecorded' = book'[Len(book')]
                                 /\ (unrecorded.id \notin torn)'
      BY <1>1, <2>1, <2>5, <3>1, <3>6
    <3> QED BY <3>6, <3>8, <3>9, <3>10, <3>11 DEF HistoryInv
  <2>8. PositionsInv'
    <3>1. positions = [s \in Symbols |-> positions[s]] /\ f.symbol \in Symbols
      BY <2>2, FillFacts DEF LedgerInv, PositionsInv
    <3>2. /\ positions' = [s \in Symbols |-> positions'[s]]
          /\ \A s \in Symbols : s # f.symbol => positions'[s] = positions[s]
          /\ positions'[f.symbol] = IF f.side = "buy" THEN ApplyBuy(p, f) ELSE ApplySell(p, f)
      BY <2>1, <3>1
    <3> DEFINE B == Booked(f.symbol)
    <3>3. IsFiniteSet(B) /\ B \subseteq Fills /\ f \in Fills \ B
      <4>1. IsFiniteSet(B) /\ B \subseteq Fills
        BY <2>3, BookFacts
      <4>2. f \notin B
        BY <2>4 DEF InBook, Booked
      <4> QED BY <2>2, <4>1, <4>2
    <3>4. Fine(p, B)
      BY <3>1 DEF LedgerInv, PositionsInv, p
    <3>5. f.side = "buy" \/ f.side = "sell"
      BY <2>2, FillFacts DEF Sides
    <3>6. f.side = "sell" => f.quantity <= p.quantity
      BY <1>3, <2>2, <3>4, FillFacts DEF Fine, Positive, f, p
    <3> HIDE DEF B
    <3>7. f.side = "buy" => Fine(ApplyBuy(p, f), B \union {f})
      BY <3>3, <3>4, BuyIsFine
    <3>8. f.side = "sell" => Fine(ApplySell(p, f), B \union {f})
      BY <3>3, <3>4, <3>6, SaleIsFine
    <3>9. Fine(positions'[f.symbol], B \union {f})
      BY <3>2, <3>5, <3>7, <3>8
    <3>10. ASSUME NEW s \in Symbols PROVE Fine(positions'[s], Booked(s)')
      <4>1. CASE s = f.symbol
        BY <2>5, <3>9, <4>1 DEF B
      <4>2. CASE s # f.symbol
        <5>1. positions'[s] = positions[s] /\ Booked(s)' = Booked(s)
          BY <2>5, <3>2, <4>2
        <5>2. Fine(positions[s], Booked(s))
          BY DEF LedgerInv, PositionsInv
        <5> QED BY <5>1, <5>2
      <4> QED BY <4>1, <4>2
    <3>11. ASSUME NEW s \in Symbols PROVE Fine(positions[s], Booked(s))'
      BY <3>10 DEF Fine, Quantity, NetFlow
    <3> QED BY <3>2, <3>11 DEF PositionsInv
  <2> QED BY <2>6, <2>7, <2>8 DEF LedgerInv
<1> QED BY <1>2, <1>3

\* Its row is written: the last of the rows that are told of.
LEMMA AppendHistoryKeepsTheBooks ==
    ASSUME LedgerInv, AppendHistory
    PROVE  LedgerInv'
<1> DEFINE p == positions[unrecorded.symbol]
           r == [symbol |-> unrecorded.symbol, fill |-> unrecorded.id,
                 quantity |-> p.quantity, realized |-> p.realized]
<1>20. PICK k, c : k = Len(book) /\ c = Cardinality(Told)
  OBVIOUS
<1>1. /\ unrecorded # None /\ history' = Append(history, r) /\ unrecorded' = None
      /\ UNCHANGED <<work, positions, book, torn>>
  BY DEF AppendHistory
<1>2. /\ book \in Seq(Fills) /\ \A m, n \in DOMAIN book : book[m].id = book[n].id => m = n
  BY DEF LedgerInv, WorkInv
<1>3. /\ unrecorded \in Fills /\ unrecorded = book[k] /\ unrecorded.id \notin torn
      /\ book # <<>> /\ history \in Seq(Rows) /\ Len(history) = c
      /\ \A n \in Told : history[Row(n)].fill = book[n].id
      /\ torn \subseteq Orders /\ \A o \in torn : InBook(o)
  BY <1>1, <1>20 DEF LedgerInv, HistoryInv
<1>4. /\ k \in Nat /\ k \in DOMAIN book /\ DOMAIN book = 1 .. k
      /\ \A n \in DOMAIN book : book[n] # None
  BY <1>2, <1>3, <1>20, BookFacts, EmptySeq
<1>5. r \in Rows
  <2>1. unrecorded.symbol \in Symbols /\ unrecorded.id \in Orders
    BY <1>3, FillFacts
  <2>2. p.quantity \in Nat /\ p.realized \in Fractions
    BY <2>1 DEF LedgerInv, PositionsInv, Fine
  <2> HIDE DEF p
  <2> QED BY <2>1, <2>2 DEF Rows
<1>6. r.fill = book[k].id
  BY <1>3
<1> HIDE DEF r
<1>7. Told' = Told \union {k} /\ k \notin Told
  <2>1. Told' = {n \in DOMAIN book : book[n] # None /\ book[n].id \notin torn}
    BY <1>1 DEF Told
  <2>2. Told = {n \in DOMAIN book : book[n] # book[k] /\ book[n].id \notin torn}
    BY <1>3 DEF Told
  <2> QED BY <1>2, <1>3, <1>4, <2>1, <2>2
<1>8. IsFiniteSet(Told) /\ c \in Nat /\ \A n \in Told : Row(n) \in 1 .. c
  BY <1>2, <1>20, RowFacts
<1>9. Cardinality(Told)' = c + 1
  BY <1>7, <1>8, <1>20, FS_AddElement
<1>10. ASSUME NEW n \in Told PROVE Row(n)' = Row(n)
  <2>1. n \in 1 .. k /\ n # k
    BY <1>4, <1>7 DEF Told
  <2>2. {m \in Told' : m <= n} = {m \in Told : m <= n}
    BY <1>4, <1>7, <2>1
  <2> QED BY <2>2 DEF Row
<1>11. Row(k)' = c + 1
  <2>1. \A m \in Told' : m <= k
    BY <1>4, <1>7 DEF Told
  <2>2. {m \in Told' : m <= k} = Told'
    BY <2>1
  <2> QED BY <1>9, <2>2 DEF Row
<1>12. /\ history' \in Seq(Rows) /\ Len(history') = c + 1
       /\ \A i \in 1 .. c : history'[i] = history[i]
       /\ history'[c + 1] = r
  BY <1>1, <1>3, <1>5, AppendProperties
<1>13. ASSUME NEW n \in Told' PROVE (history[Row(n)].fill = book[n].id)'
  <2>1. CASE n = k
    BY <1>1, <1>6, <1>11, <1>12, <2>1
  <2>2. CASE n # k
    <3>1. n \in Told
      BY <1>7, <2>2
    <3>2. history'[Row(n)'] = history[Row(n)]
      BY <1>8, <1>10, <1>12, <3>1
    <3> QED BY <1>1, <1>3, <3>1, <3>2
  <2> QED BY <2>1, <2>2
<1>14. \A o : InBook(o)' <=> InBook(o)
  BY <1>1 DEF InBook
<1>15. HistoryInv'
  <2>1. torn' \subseteq Orders /\ \A o \in torn' : InBook(o)'
    BY <1>1, <1>3, <1>14
  <2> QED BY <1>1, <1>9, <1>12, <1>13, <2>1 DEF HistoryInv
<1>16. WorkInv' /\ PositionsInv'
  BY <1>1 DEF LedgerInv, WorkInv, PositionsInv, Booked, InBook
<1> QED BY <1>15, <1>16 DEF LedgerInv

\* A crash tears the row that was not written yet, and nothing else.
LEMMA CrashKeepsTheBooks ==
    ASSUME LedgerInv, Crash
    PROVE  LedgerInv'
<1>1. /\ work' = <<>> /\ unrecorded' = None
      /\ torn' = (IF unrecorded = None THEN torn ELSE torn \union {unrecorded.id})
      /\ UNCHANGED <<positions, history, book>>
  BY DEF Crash
<1>2. /\ book \in Seq(Fills) /\ \A m, n \in DOMAIN book : book[m].id = book[n].id => m = n
  BY DEF LedgerInv, WorkInv
<1>3. /\ unrecorded \in Fills \union {None}
      /\ unrecorded # None => book # <<>> /\ unrecorded = book[Len(book)]
      /\ history \in Seq(Rows) /\ Len(history) = Cardinality(Told)
      /\ \A n \in Told : history[Row(n)].fill = book[n].id
      /\ torn \subseteq Orders /\ \A o \in torn : InBook(o)
  BY DEF LedgerInv, HistoryInv
<1>4. DOMAIN book = 1 .. Len(book) /\ \A n \in DOMAIN book : book[n] # None
  BY <1>2, BookFacts
<1>5. \A o : InBook(o)' <=> InBook(o)
  BY <1>1 DEF InBook
<1>6. unrecorded # None => /\ InBook(unrecorded.id) /\ unrecorded.id \in Orders
                           /\ Len(book) \in DOMAIN book
  <2>1. book # <<>> => Len(book) \in 1 .. Len(book)
    BY <1>2, EmptySeq
  <2> QED BY <1>3, <1>4, <2>1, FillFacts DEF InBook
<1>7. Told' = Told
  <2>1. Told' = {n \in DOMAIN book : book[n] # None /\ book[n].id \notin torn'}
    BY <1>1 DEF Told
  <2>2. Told = {n \in DOMAIN book : book[n] # unrecorded /\ book[n].id \notin torn}
    BY DEF Told
  <2>3. CASE unrecorded = None
    BY <1>1, <2>1, <2>2, <2>3
  <2>4. CASE unrecorded # None
    <3>1. unrecorded = book[Len(book)] /\ Len(book) \in DOMAIN book
      BY <1>3, <1>6, <2>4
    <3>2. \A n \in DOMAIN book : book[n].id = unrecorded.id <=> book[n] = unrecorded
      BY <1>2, <3>1
    <3>3. torn' = torn \union {unrecorded.id}
      BY <1>1, <2>4
    <3> QED BY <1>4, <2>1, <2>2, <3>2, <3>3
  <2> QED BY <2>3, <2>4
<1>8. Cardinality(Told)' = Cardinality(Told) /\ \A n : Row(n)' = Row(n)
  BY <1>7 DEF Row
<1>9. ASSUME NEW n \in Told' PROVE (history[Row(n)].fill = book[n].id)'
  BY <1>1, <1>3, <1>7, <1>8
<1>10. torn' \subseteq Orders /\ \A o \in torn' : InBook(o)'
  BY <1>1, <1>3, <1>5, <1>6
<1>11. HistoryInv'
  BY <1>1, <1>3, <1>8, <1>9, <1>10 DEF HistoryInv
<1>12. WorkInv' /\ PositionsInv'
  <2>1. work' \in Seq(Fills) /\ DOMAIN work' = {}
    BY <1>1, EmptySeq, LenProperties
  <2> QED BY <1>1, <2>1 DEF LedgerInv, WorkInv, PositionsInv, Booked, InBook
<1> QED BY <1>11, <1>12 DEF LedgerInv

\* Submitting hands over fills of orders that are not in the book.
LEMMA SubmitKeepsTheBooks ==
    ASSUME LedgerInv, StoreInv, NEW fills \in SUBSET Stored, Submit(fills)
    PROVE  LedgerInv'
<1>1. /\ \A f \in fills : ~InBook(f.id)
      /\ work' = Sorted(fills)
      /\ UNCHANGED <<unrecorded, positions, history, book, torn>>
  BY DEF Submit
<1>2. /\ IsFiniteSet(fills) /\ fills \subseteq Fills
      /\ \A f, g \in fills : f.id = g.id => f = g
  BY StoredFacts, FS_Subset
<1>3. /\ work' \in Seq(Fills) /\ \A n \in DOMAIN work' : work'[n] \in fills
      /\ \A m, n \in DOMAIN work' : work'[m].id = work'[n].id => m = n
  BY <1>1, <1>2, WorkIsSorted
<1>4. WorkInv'
  BY <1>1, <1>3 DEF LedgerInv, WorkInv, InBook
<1> QED BY <1>1, <1>4 DEF LedgerInv, HistoryInv, PositionsInv, Told, Row, Booked, InBook

\* Rebuilding starts from nothing.
LEMMA RebuildKeepsTheBooks ==
    ASSUME LedgerInv, StoreInv, NEW since \in Sinces, Rebuild(since)
    PROVE  LedgerInv'
<1> DEFINE fills == {f \in Stored : f.at >= since}
<1>1. /\ unrecorded' = None /\ positions' = [s \in Symbols |-> NoPosition]
      /\ history' = <<>> /\ book' = <<>> /\ torn' = {}
      /\ work' = Sorted(fills)
  BY DEF Rebuild
<1>2. /\ IsFiniteSet(fills) /\ fills \subseteq Fills
      /\ \A f, g \in fills : f.id = g.id => f = g
  BY StoredFacts, FS_Subset
<1> HIDE DEF fills
<1>3. /\ work' \in Seq(Fills)
      /\ \A m, n \in DOMAIN work' : work'[m].id = work'[n].id => m = n
  BY <1>1, <1>2, WorkIsSorted
<1>4. /\ (book \in Seq(Fills))' /\ DOMAIN book' = {} /\ Told' = {} /\ PositionsInv'
      /\ <<>> \in Seq(Rows) /\ (Len(<<>>) = Cardinality(Told))'
  <2>1. (book = <<>> /\ positions = [s \in Symbols |-> NoPosition])'
    BY <1>1
  <2>2. (/\ book \in Seq(Fills) /\ DOMAIN book = {} /\ Told = {}
         /\ PositionsInv /\ <<>> \in Seq(Rows) /\ Len(<<>>) = Cardinality(Told))'
    BY <2>1, EmptyBook, PTL
  <2> QED BY <2>2
<1>5. WorkInv'
  BY <1>3, <1>4 DEF WorkInv, InBook
<1>6. HistoryInv'
  BY <1>1, <1>4 DEF HistoryInv
<1> QED BY <1>4, <1>5, <1>6 DEF LedgerInv

\* Every step keeps the books.
LEMMA LedgerInvHolds == Spec => []LedgerInv
<1>1. Init => LedgerInv
  <2> SUFFICES ASSUME Init PROVE LedgerInv
    OBVIOUS
  <2>1. /\ work = <<>> /\ unrecorded = None /\ positions = [s \in Symbols |-> NoPosition]
        /\ history = <<>> /\ book = <<>> /\ torn = {}
    BY DEF Init
  <2>2. /\ book \in Seq(Fills) /\ DOMAIN book = {} /\ Told = {} /\ PositionsInv
        /\ <<>> \in Seq(Rows) /\ Len(<<>>) = Cardinality(Told)
    BY <2>1, EmptyBook
  <2>3. WorkInv
    BY <2>1, <2>2 DEF WorkInv
  <2>4. HistoryInv
    BY <2>1, <2>2 DEF HistoryInv
  <2> QED BY <2>2, <2>3, <2>4 DEF LedgerInv
<1>2. StoreInv /\ LedgerInv /\ [Next]_vars => LedgerInv'
  <2> SUFFICES ASSUME StoreInv, LedgerInv, [Next]_vars PROVE LedgerInv'
    OBVIOUS
  <2>1. CASE \/ \E o \in Orders : Execute(o)
             \/ \E i \in Ingesters : \/ \E since \in Sinces : Fetch(i, since)
                                     \/ \E f \in ingest[i].todo : Check(i, f)
                                     \/ Store(i)
                                     \/ IngesterDies(i)
             \/ UNCHANGED vars
    <3>1. UNCHANGED ledger
      BY <2>1 DEF Execute, Fetch, Check, Store, IngesterDies, vars
    <3>2. UNCHANGED <<work, unrecorded, positions, history, book, torn>>
      BY <3>1 DEF ledger
    <3>3. WorkInv'
      BY <3>2 DEF LedgerInv, WorkInv, InBook
    <3>4. HistoryInv'
      BY <3>2 DEF LedgerInv, HistoryInv, Told, Row, InBook
    <3>5. PositionsInv'
      BY <3>2 DEF LedgerInv, PositionsInv, Booked
    <3> QED BY <3>3, <3>4, <3>5 DEF LedgerInv
  <2>2. ASSUME NEW fills \in SUBSET Stored, Submit(fills) PROVE LedgerInv'
    BY <2>2, SubmitKeepsTheBooks
  <2>3. CASE Apply
    BY <2>3, ApplyKeepsTheBooks
  <2>4. CASE AppendHistory
    BY <2>4, AppendHistoryKeepsTheBooks
  <2>5. ASSUME NEW since \in Sinces, Rebuild(since) PROVE LedgerInv'
    BY <2>5, RebuildKeepsTheBooks
  <2>6. CASE Crash
    BY <2>6, CrashKeepsTheBooks
  <2> QED BY <2>1, <2>2, <2>3, <2>4, <2>5, <2>6 DEF Next
<1> QED
  BY <1>1, <1>2, StoreInvHolds, PTL DEF Spec

\* Through overlapping ingestions, rebuilds and crashes, what is stored was
\* executed, every position, its cost and its realized profit are what the
\* applied fills come to, and the history tells of each of them, in order
\* (execution/fill_*.py, pnl/position_*.py).
THEOREM BooksFollowFillsAlways == Spec => []BooksFollowFills
<1>1. StoreInv /\ LedgerInv => BooksFollowFills
  <2> SUFFICES ASSUME StoreInv, LedgerInv PROVE BooksFollowFills
    OBVIOUS
  <2>1. TypeOK
    <3>1. ASSUME NEW i \in Ingesters PROVE ingest[i].todo \union ingest[i].new \subseteq Fills
      BY FetchedIsFill DEF StoreInv
    <3>2. stored \in [Orders -> Fills \union {None}]
      BY FetchedIsFill DEF StoreInv
    <3>3. ASSUME NEW i \in Ingesters PROVE ingest[i].busy \in BOOLEAN
      BY DEF StoreInv
    <3>4. ASSUME NEW s \in Symbols
          PROVE  /\ positions[s].quantity >= 0 /\ positions[s].avg[1] >= 0
                 /\ positions[s].fees >= 0 /\ positions[s].taxes >= 0
      BY DEF LedgerInv, PositionsInv, Fine
    <3>5. executed \in [Orders -> Nat] /\ partial \subseteq Orders
      BY DEF StoreInv
    <3>6. /\ work \in Seq(Fills) /\ unrecorded \in Fills \union {None}
          /\ book \in Seq(Fills) /\ torn \subseteq Orders
      BY DEF LedgerInv, WorkInv, HistoryInv
    <3> QED BY <3>1, <3>2, <3>3, <3>4, <3>5, <3>6 DEF TypeOK
  <2>2. StoreIsSound
    BY FetchedIsFill DEF StoreInv, StoreIsSound
  <2>3. BooksBalance
    BY DEF LedgerInv, PositionsInv, Fine, BooksBalance
  <2>4. HistoryIsComplete
    BY DEF LedgerInv, HistoryInv, HistoryIsComplete, Told, Row
  <2> QED BY <2>1, <2>2, <2>3, <2>4 DEF BooksFollowFills
<1> QED
  BY <1>1, StoreInvHolds, LedgerInvHolds, PTL
-----------------------------------------------------------------------------
(* Sums over the symbols *)

\* Symbols are finitely many.
LEMMA SymbolsAreFinite == IsFiniteSet(Symbols)
<1> DEFINE w == [o \in Orders |-> Info[o].symbol]
<1>1. Symbols = {w[o] : o \in Orders}
  BY DEF Symbols
<1> HIDE DEF w
<1> QED BY <1>1, OrdersAssumption, ImageIsFinite

\* Fractions of whole numbers add up like them.
LEMMA SumOfWholes ==
    ASSUME NEW S, IsFiniteSet(S), NEW v, NEW w, \A x \in S : v[x] \in Int /\ w[x] = Whole(v[x])
    PROVE  FoldOf(S, Addition, Zero, w) = Whole(FoldOf(S, IntAddition, 0, v))
<1> DEFINE m == [n \in Int |-> Whole(n)]
<1>1. /\ 0 \in Int /\ m[0] = Zero
  BY DEF Zero
<1>2. ASSUME NEW a \in Int, NEW b \in Int
      PROVE  m[a] \in Fractions /\ m[IntAddition[a][b]] = Addition[m[a]][m[b]]
  <2>1. 1 \in Positive /\ a + b \in Int /\ IntAddition[a][b] = a + b
    BY DEF Positive, IntAddition
  <2>2. /\ Whole(a) = Ratio(a, 1) /\ Whole(b) = Ratio(b, 1) /\ Whole(a + b) = Ratio(a + b, 1)
        /\ Whole(a) \in Fractions /\ Whole(b) \in Fractions
    BY <2>1, WholeIsRatio
  <2>3. Plus(Ratio(a, 1), Ratio(b, 1)) = Ratio(a * 1 + b * 1, 1 * 1)
    BY <2>1, PlusIsRatio
  <2>4. a * 1 + b * 1 = a + b /\ 1 * 1 = 1
    OBVIOUS
  <2>5. Addition[Whole(a)][Whole(b)] = Plus(Whole(a), Whole(b))
    BY <2>2 DEF Addition
  <2> QED BY <2>1, <2>2, <2>3, <2>4, <2>5
<1>3. \A x \in S : v[x] \in Int /\ w[x] = m[v[x]]
  OBVIOUS
<1> HIDE DEF m
<1>4. FoldOf(S, Addition, Zero, w) = m[FoldOf(S, IntAddition, 0, v)]
  BY <1>1, <1>2, <1>3, FoldMaps, IntegersAdd, FractionsAdd
<1>5. FoldOf(S, IntAddition, 0, v) \in Int
  BY FoldAdds, IntegersAdd
<1> QED BY <1>4, <1>5 DEF m

\* What flows of a part of some fills is a fold over it.
LEMMA NetFlowIsFold ==
    ASSUME NEW S, IsFiniteSet(S), S \subseteq Fills, NEW B \in SUBSET S
    PROVE  NetFlow(B) = FoldOf(B, IntAddition, 0, [f \in S |-> NetAmount(f)])
<1> DEFINE v == [f \in S |-> NetAmount(f)]
           w == [f \in B |-> NetAmount(f)]
<1>1. NetFlow(B) = SumFunctionOnSet(w, B)
  <2>1. DOMAIN w = B
    OBVIOUS
  <2> QED BY <2>1 DEF NetFlow, SumFunction
<1>2. IsFiniteSet(B) /\ \A x \in B : w[x] \in Int /\ v[x] = w[x]
  BY FS_Subset, FillFacts
<1> HIDE DEF v, w
<1>3. SumFunctionOnSet(w, B) = FoldOf(B, IntAddition, 0, w)
  BY <1>2, SumIsFold
<1>4. FoldOf(B, IntAddition, 0, w) = FoldOf(B, IntAddition, 0, v)
  <2>1. \A x \in B : w[x] = v[x]
    BY <1>2
  <2> QED BY <1>2, <2>1, FoldDependsOnValues
<1> QED BY <1>1, <1>3, <1>4 DEF v

\* What flowed for each symbol is what flowed.
LEMMA FlowsAddUp ==
    ASSUME book \in Seq(Fills)
    PROVE  /\ NetFlow(ToSet(book)) \in Int
           /\ NetFlow(ToSet(book))
                = FoldOf(Symbols, IntAddition, 0, [s \in Symbols |-> NetFlow(Booked(s))])
<1> DEFINE B == ToSet(book)
           v == [f \in B |-> NetAmount(f)]
           key == [f \in B |-> f.symbol]
           bucket == [s \in Symbols |-> Booked(s)]
           w == [s \in Symbols |-> NetFlow(Booked(s))]
<1>1. /\ IsFiniteSet(B) /\ B \subseteq Fills
      /\ \A s : Booked(s) \in SUBSET B /\ Booked(s) = {f \in B : f.symbol = s}
  BY BookFacts
<1>2. \A f \in B : v[f] \in Int /\ key[f] \in Symbols
  BY <1>1, FillFacts
<1>3. ASSUME NEW s \in Symbols
      PROVE  bucket[s] = {f \in B : key[f] = s} /\ w[s] = FoldOf(bucket[s], IntAddition, 0, v)
  <2>1. {f \in B : key[f] = s} = Booked(s) /\ bucket[s] = Booked(s)
    BY <1>1
  <2>2. w[s] = NetFlow(Booked(s))
    OBVIOUS
  <2>3. NetFlow(Booked(s)) = FoldOf(Booked(s), IntAddition, 0, v)
    <3> HIDE DEF B
    <3> QED BY <1>1, NetFlowIsFold
  <2> QED BY <2>1, <2>2, <2>3
<1>5. NetFlow(B) = FoldOf(B, IntAddition, 0, v)
  <2> HIDE DEF B
  <2> QED BY <1>1, NetFlowIsFold
<1> HIDE DEF v, w, key, bucket, B
<1>6. FoldOf(Symbols, IntAddition, 0, w) = FoldOf(B, IntAddition, 0, v)
  BY <1>1, <1>2, <1>3, SymbolsAreFinite, IntegersAdd, FoldBuckets
<1>7. NetFlow(B) \in Int
  BY <1>1, NetFlowGrows
<1> QED BY <1>5, <1>6, <1>7 DEF B, w
-----------------------------------------------------------------------------
(* The reports *)

\* What holds of a position and a price: the unrealized profit and the cost are
\* the value, unless the price is missing.
LEMMA PositionIsExplained ==
    ASSUME NEW p, NEW B, Fine(p, B), NEW price, price = None \/ price \in Fractions
    PROVE  /\ Times(p.avg, p.quantity) \in Fractions
           /\ Unrealized(p, price) \in Fractions /\ MarketValue(p, price) \in Fractions
           /\ ~Stale(p, price) => MarketValue(p, price)
                                    = Plus(Unrealized(p, price), Times(p.avg, p.quantity))
<1> DEFINE q == p.quantity
           x == p.avg
<1>1. q \in Nat /\ q \in Int /\ x \in Fractions /\ (q = 0 => x = Zero)
  BY DEF Fine
<1>2. PICK a \in Int, b \in Positive : x = Ratio(a, b)
  BY <1>1 DEF Fractions
<1>3. /\ Zero \in Fractions /\ Zero = Ratio(0, 1) /\ 1 \in Positive /\ 0 \in Int
      /\ Plus(Zero, Zero) = Zero
  <2>1. Zero \in Fractions /\ Zero = Ratio(0, 1) /\ 1 \in Positive
    BY WholeIsRatio DEF Zero, Positive
  <2>2. Addition[Zero][Zero] = Zero /\ Addition[Zero][Zero] = Plus(Zero, Zero)
    BY <2>1, FractionsAdd DEF Adding, Addition
  <2> QED BY <2>1, <2>2
<1>4. Times(x, q) = Ratio(a * q, b) /\ a * q \in Int /\ Times(x, q) \in Fractions
  BY <1>1, <1>2, TimesIsRatio, RatioIsFraction
<1>5. Times(Zero, 0) = Zero
  BY <1>3, TimesIsRatio
<1>6. CASE price # None /\ q > 0
  <2>1. PICK c \in Int, d \in Positive : price = Ratio(c, d)
    BY <1>6 DEF Fractions
  <2>2. Unrealized(p, price) = Times(Minus(price, x), q) /\ MarketValue(p, price) = Times(price, q)
    BY <1>6 DEF Unrealized, MarketValue
  <2>3. /\ Minus(price, x) = Ratio(c * b - a * d, d * b) /\ c * b - a * d \in Int
        /\ d * b \in Positive
    BY <1>2, <2>1, MinusIsRatio
  <2> DEFINE n == c * b - a * d
             e == d * b
  <2>4. /\ Times(Minus(price, x), q) = Ratio(n * q, e) /\ n * q \in Int
        /\ Times(price, q) = Ratio(c * q, d) /\ c * q \in Int
    <3>1. Minus(price, x) = Ratio(n, e) /\ n \in Int /\ e \in Positive
      BY <2>3
    <3> HIDE DEF n, e
    <3>2. Times(Ratio(n, e), q) = Ratio(n * q, e) /\ n * q \in Int
      BY <1>1, <3>1, TimesIsRatio
    <3>3. Times(Ratio(c, d), q) = Ratio(c * q, d) /\ c * q \in Int
      BY <1>1, <2>1, TimesIsRatio
    <3> QED BY <2>1, <3>1, <3>2, <3>3
  <2>5. Plus(Ratio(n * q, e), Ratio(a * q, b)) = Ratio((n * q) * b + (a * q) * e, e * b)
        /\ (n * q) * b + (a * q) * e \in Int /\ e * b \in Positive
    <3>1. n * q \in Int /\ e \in Positive
      BY <2>3, <2>4
    <3> HIDE DEF n, e
    <3>2. \A i, j \in Int : /\ Plus(Ratio(i, e), Ratio(j, b)) = Ratio(i * b + j * e, e * b)
                            /\ i * b + j * e \in Int /\ e * b \in Positive
      BY <3>1, PlusIsRatio
    <3> QED BY <1>4, <3>1, <3>2
  <2>6. Ratio((n * q) * b + (a * q) * e, e * b) = Ratio(c * q, d)
    <3>1. b \in Int /\ d \in Int
      BY DEF Positive
    <3>2. (n * q) * b + (a * q) * e = (c * q) * (b * b)
      <4>1. (n * q) * b = (c * b) * (q * b) - (a * d) * (q * b)
        BY <1>1, <3>1
      <4>2. (a * q) * e = (a * d) * (q * b)
        BY <1>1, <3>1
      <4>3. (c * b) * (q * b) = (c * q) * (b * b)
        BY <1>1, <3>1
      <4> QED BY <1>1, <3>1, <4>1, <4>2, <4>3
    <3>3. ((c * q) * (b * b)) * d = (c * q) * (e * b)
      BY <1>1, <3>1
    <3> HIDE DEF n, e
    <3> QED BY <2>4, <2>5, <3>2, <3>3, RatioIsCanonical
  <2>7. Ratio(n * q, e) \in Fractions /\ Ratio(c * q, d) \in Fractions
    <3>1. n * q \in Int /\ e \in Positive /\ c * q \in Int
      BY <2>3, <2>4
    <3> HIDE DEF n, e
    <3> QED BY <3>1, RatioIsFraction
  <2> HIDE DEF n, e
  <2> QED BY <1>4, <2>2, <2>4, <2>5, <2>6, <2>7
<1>7. CASE ~(price # None /\ q > 0)
  <2>1. Unrealized(p, price) = Zero /\ MarketValue(p, price) = Zero
    BY <1>7 DEF Unrealized, MarketValue
  <2>2. ~Stale(p, price) => q = 0
    BY <1>1, <1>7 DEF Stale
  <2> QED BY <1>1, <1>3, <1>4, <1>5, <2>1, <2>2
<1> QED BY <1>6, <1>7

\* The report explains the capital, whatever is stale.
LEMMA ReportExplainsCapital ==
    ASSUME LedgerInv, NEW price, price = None \/ price \in Fractions, NEW capital \in Int
    PROVE  LET pnl == PortfolioPnL(Whole(capital + NetFlow(ToSet(book))), [s \in Symbols |-> price])
           IN  Plus(Whole(capital), Plus(pnl.realized, pnl.unrealized)) =
               Plus(pnl.ending, SumOver([s \in pnl.stale |->
                        Times(positions[s].avg, positions[s].quantity)]))
<1> DEFINE F(S, w) == FoldOf(S, Addition, Zero, w)
           P == [s \in Symbols |-> price]
           fresh == {s \in Symbols : ~Stale(positions[s], price)}
           stale == Symbols \ fresh
           R == [s \in Symbols |-> positions[s].realized]
           U == [s \in Symbols |-> Unrealized(positions[s], price)]
           M == [s \in Symbols |-> MarketValue(positions[s], price)]
           C == [s \in Symbols |-> Times(positions[s].avg, positions[s].quantity)]
           N == [s \in Symbols |-> NetFlow(Booked(s))]
           W == [s \in Symbols |-> Whole(N[s])]
           flow == NetFlow(ToSet(book))
           cash == Whole(capital + flow)
           pnl == PortfolioPnL(cash, P)
<1>1. /\ book \in Seq(Fills) /\ \A s \in Symbols : Fine(positions[s], Booked(s))
  BY DEF LedgerInv, WorkInv, PositionsInv
<1>2. IsFiniteSet(Symbols) /\ IsFiniteSet(fresh) /\ IsFiniteSet(stale)
  BY SymbolsAreFinite, FS_Subset
<1>3. /\ flow \in Int /\ flow = FoldOf(Symbols, IntAddition, 0, N)
      /\ \A s \in Symbols : N[s] \in Int
  <2>1. \A s : IsFiniteSet(Booked(s)) /\ Booked(s) \subseteq Fills
    BY <1>1, BookFacts
  <2> QED BY <1>1, <2>1, FlowsAddUp, NetFlowGrows
<1>4. ASSUME NEW s \in Symbols
      PROVE  /\ R[s] \in Fractions /\ U[s] \in Fractions /\ M[s] \in Fractions
             /\ C[s] \in Fractions /\ W[s] \in Fractions
             /\ R[s] = Plus(W[s], C[s])
             /\ s \in fresh => M[s] = Plus(U[s], C[s])
  <2>1. Fine(positions[s], Booked(s))
    BY <1>1
  <2>2. R[s] \in Fractions /\ R[s] = Plus(Whole(NetFlow(Booked(s))), C[s])
    BY <2>1 DEF Fine
  <2>3. /\ C[s] \in Fractions /\ U[s] \in Fractions /\ M[s] \in Fractions
        /\ s \in fresh => M[s] = Plus(U[s], C[s])
    BY <2>1, PositionIsExplained
  <2>4. W[s] \in Fractions /\ W[s] = Whole(NetFlow(Booked(s)))
    BY <1>3, WholeIsRatio
  <2> QED BY <2>2, <2>3, <2>4
<1>5. /\ pnl.realized = SumOver(R)
      /\ pnl.unrealized = SumOver([s \in fresh |-> U[s]])
      /\ pnl.ending = Plus(cash, SumOver([s \in fresh |-> M[s]]))
      /\ pnl.stale = stale
  <2>1. {s \in Symbols : ~Stale(positions[s], P[s])} = fresh
    OBVIOUS
  <2>2. /\ [s \in fresh |-> Unrealized(positions[s], P[s])] = [s \in fresh |-> U[s]]
        /\ [s \in fresh |-> MarketValue(positions[s], P[s])] = [s \in fresh |-> M[s]]
    OBVIOUS
  <2> HIDE DEF P, fresh, U, M, cash
  <2> QED BY <2>1, <2>2 DEF PortfolioPnL
<1>6. [s \in stale |-> Times(positions[s].avg, positions[s].quantity)] = [s \in stale |-> C[s]]
  OBVIOUS
<1>7. \A s \in Symbols : N[s] \in Int /\ W[s] = Whole(N[s])
  BY <1>3
<1>8. fresh \in SUBSET Symbols /\ stale \in SUBSET Symbols /\ fresh \cap stale = {}
      /\ fresh \union stale = Symbols
  OBVIOUS
<1>9. \A x, y \in Fractions : Addition[x][y] = Plus(x, y) /\ Plus(x, y) \in Fractions
  BY SumsAreFractions DEF Addition
<1>10. R = [s \in Symbols |-> R[s]]
  OBVIOUS
<1> HIDE DEF P, fresh, stale, R, U, M, C, N, W, flow
<1>11. ASSUME NEW S, IsFiniteSet(S), NEW w, \A s \in S : w[s] \in Fractions
       PROVE  SumOver([s \in S |-> w[s]]) = F(S, w) /\ F(S, w) \in Fractions
  <2> DEFINE v == [s \in S |-> w[s]]
  <2>1. v = [s \in S |-> v[s]] /\ \A s \in S : v[s] \in Fractions /\ v[s] = w[s]
    BY <1>11
  <2> HIDE DEF v
  <2>2. SumOver(v) = FoldOf(S, Addition, Zero, v)
    BY ONLY <1>11, <2>1, SumOverIsFold
  <2>3. FoldOf(S, Addition, Zero, v) = FoldOf(S, Addition, Zero, w)
    BY ONLY <1>11, <2>1, FoldDependsOnValues
  <2>4. FoldOf(S, Addition, Zero, w) \in Fractions
    BY ONLY <1>11, FractionsAdd, FoldAdds
  <2> QED BY <2>2, <2>3, <2>4 DEF v
<1>12. SumOver(R) = F(Symbols, R) /\ F(Symbols, R) \in Fractions
  BY <1>2, <1>4, <1>10, <1>11
<1>13. /\ SumOver([s \in fresh |-> U[s]]) = F(fresh, U) /\ F(fresh, U) \in Fractions
       /\ SumOver([s \in fresh |-> M[s]]) = F(fresh, M) /\ F(fresh, M) \in Fractions
  <2>1. \A s \in fresh : U[s] \in Fractions /\ M[s] \in Fractions
    BY <1>4, <1>8
  <2> QED BY <1>2, <1>11, <2>1
<1>14. /\ SumOver([s \in stale |-> C[s]]) = F(stale, C) /\ F(stale, C) \in Fractions
       /\ F(fresh, C) \in Fractions
  <2>1. \A s \in Symbols : C[s] \in Fractions
    BY <1>4
  <2> QED BY <1>2, <1>8, <1>11, <2>1
<1>15. F(Symbols, R) = Plus(F(Symbols, W), F(Symbols, C))
       /\ F(Symbols, W) \in Fractions /\ F(Symbols, C) \in Fractions
  <2>1. F(Symbols, W) \in Fractions /\ F(Symbols, C) \in Fractions
    BY <1>2, <1>4, <1>11
  <2>2. \A s \in Symbols : W[s] \in Fractions /\ C[s] \in Fractions /\ R[s] = Plus(W[s], C[s])
    BY <1>4
  <2>3. F(Symbols, R) = Plus(F(Symbols, W), F(Symbols, C))
    BY <1>2, <2>2, SumsOfFractions
  <2> QED BY <2>1, <2>3
<1>16. F(Symbols, W) = Whole(flow)
  BY <1>2, <1>3, <1>7, SumOfWholes
<1>17. F(Symbols, C) = Plus(F(fresh, C), F(stale, C))
  <2>1. \A s \in Symbols : C[s] \in Fractions
    BY <1>4
  <2>2. F(fresh \union stale, C) = Addition[F(fresh, C)][F(stale, C)]
    BY ONLY <1>2, <1>8, <2>1, FractionsAdd, FoldUnion
  <2> QED BY <1>8, <1>9, <1>14, <2>2
<1>18. F(fresh, M) = Plus(F(fresh, U), F(fresh, C))
  <2>1. \A s \in fresh : U[s] \in Fractions /\ C[s] \in Fractions /\ M[s] = Plus(U[s], C[s])
    BY <1>4, <1>8
  <2> QED BY <1>2, <2>1, SumsOfFractions
<1>19. cash = Plus(Whole(capital), Whole(flow)) /\ Whole(capital) \in Fractions
       /\ Whole(flow) \in Fractions
  <2>1. 1 \in Positive /\ capital + flow \in Int
    BY <1>3 DEF Positive
  <2>2. /\ Whole(capital) = Ratio(capital, 1) /\ Whole(flow) = Ratio(flow, 1)
        /\ cash = Ratio(capital + flow, 1)
        /\ Whole(capital) \in Fractions /\ Whole(flow) \in Fractions
    BY <1>3, <2>1, WholeIsRatio
  <2>3. Plus(Ratio(capital, 1), Ratio(flow, 1)) = Ratio(capital * 1 + flow * 1, 1 * 1)
    BY <1>3, <2>1, PlusIsRatio
  <2>4. capital * 1 + flow * 1 = capital + flow /\ 1 * 1 = 1
    BY <1>3
  <2> QED BY <2>2, <2>3, <2>4
<1>20. ASSUME NEW a \in Fractions, NEW n \in Fractions, NEW c \in Fractions,
              NEW d \in Fractions, NEW u \in Fractions
       PROVE  Plus(a, Plus(Plus(n, Plus(c, d)), u)) = Plus(Plus(Plus(a, n), Plus(u, c)), d)
  <2>1. /\ \A x, y \in Fractions : Plus(x, y) \in Fractions /\ Plus(x, y) = Plus(y, x)
        /\ \A x, y, t \in Fractions : Plus(x, Plus(y, t)) = Plus(Plus(x, y), t)
    <3>1. \A x, y \in Fractions : Plus(x, y) \in Fractions /\ Plus(x, y) = Plus(y, x)
      BY <1>9, FractionsAdd DEF Adding
    <3>2. \A x, y, t \in Fractions : Addition[x][Addition[y][t]] = Addition[Addition[x][y]][t]
      BY FractionsAdd DEF Adding
    <3>3. ASSUME NEW x \in Fractions, NEW y \in Fractions, NEW t \in Fractions
          PROVE  Plus(x, Plus(y, t)) = Plus(Plus(x, y), t)
      <4>1. Plus(y, t) \in Fractions /\ Plus(x, y) \in Fractions
        BY <1>9
      <4>2. Addition[y][t] = Plus(y, t) /\ Addition[x][y] = Plus(x, y)
        BY <1>9
      <4>3. /\ Addition[x][Plus(y, t)] = Plus(x, Plus(y, t))
            /\ Addition[Plus(x, y)][t] = Plus(Plus(x, y), t)
        BY <1>9, <4>1
      <4>4. Addition[x][Addition[y][t]] = Addition[Addition[x][y]][t]
        BY <3>2
      <4> QED BY ONLY <4>2, <4>3, <4>4
    <3> QED BY <3>1, <3>3
  <2>2. Plus(Plus(n, Plus(c, d)), u) = Plus(n, Plus(Plus(u, c), d))
    <3>1. Plus(Plus(n, Plus(c, d)), u) = Plus(n, Plus(Plus(c, d), u))
      BY ONLY <1>20, <2>1
    <3>2. Plus(Plus(c, d), u) = Plus(u, Plus(c, d)) /\ Plus(u, Plus(c, d)) = Plus(Plus(u, c), d)
      BY ONLY <1>20, <2>1
    <3> QED BY <3>1, <3>2
  <2>3. Plus(a, Plus(n, Plus(Plus(u, c), d))) = Plus(Plus(a, n), Plus(Plus(u, c), d))
    BY ONLY <1>20, <2>1
  <2>4. Plus(Plus(a, n), Plus(Plus(u, c), d)) = Plus(Plus(Plus(a, n), Plus(u, c)), d)
    BY ONLY <1>20, <2>1
  <2> QED BY <2>2, <2>3, <2>4
<1> HIDE DEF cash, F, pnl
<1>21. Plus(Whole(capital), Plus(pnl.realized, pnl.unrealized))
         = Plus(pnl.ending, SumOver([s \in stale |-> C[s]]))
  BY <1>5, <1>12, <1>13, <1>14, <1>15, <1>16, <1>17, <1>18, <1>19, <1>20
<1> QED BY <1>5, <1>6, <1>21 DEF pnl, cash, flow, P

\* Once everything executed is applied, each side of a symbol has what was
\* executed of its orders.
LEMMA AppliedIsExecuted ==
    ASSUME StoreInv, LedgerInv, NEW s \in Symbols, NEW side \in Sides,
           \A o \in Orders : executed[o] > 0 => InBook(o) /\ stored[o].quantity = executed[o],
           \A n \in DOMAIN book : book[n] \in Stored
    PROVE  Quantity(side, Booked(s))
             = SumFunctionOnSet(executed, {o \in Orders : Info[o].symbol = s /\ Info[o].side = side})
<1> DEFINE O == {o \in Orders : Info[o].symbol = s /\ Info[o].side = side}
           B == {f \in Booked(s) : f.side = side}
           v == [f \in B |-> f.quantity]
           key == [f \in B |-> f.id]
           bucket == [o \in O |-> {f \in B : key[f] = o}]
<1>1. /\ book \in Seq(Fills) /\ Booked(s) = {f \in ToSet(book) : f.symbol = s}
      /\ IsFiniteSet(Booked(s)) /\ Booked(s) \subseteq Fills
      /\ ToSet(book) = {book[n] : n \in DOMAIN book}
  BY BookFacts DEF LedgerInv, WorkInv, ToSet
<1>2. IsFiniteSet(O) /\ IsFiniteSet(B) /\ \A o \in O : executed[o] \in Int
  BY <1>1, OrdersAssumption, FS_Subset DEF StoreInv
<1>3. ASSUME NEW f \in B
      PROVE  /\ v[f] \in Int /\ v[f] = f.quantity /\ key[f] = f.id /\ f.id \in O
             /\ f = stored[f.id] /\ executed[f.id] > 0 /\ f.quantity = executed[f.id]
  <2>1. f \in Fills /\ f \in Stored
    BY <1>1
  <2>2. /\ f.id \in Orders /\ f.symbol = Info[f.id].symbol /\ f.side = Info[f.id].side
        /\ f.quantity \in Positive
    BY <2>1, FillFacts
  <2>3. f = stored[f.id] /\ f # None /\ f.symbol = s /\ f.side = side
    BY <1>1, <2>1, StoredFacts, NoneAssumption
  <2>4. f.quantity <= executed[f.id] /\ executed[f.id] \in Nat
    <3>1. Fetched(f)
      BY <2>2, <2>3 DEF StoreInv
    <3> QED BY <2>2, <3>1, FetchedIsFill DEF StoreInv
  <2>5. executed[f.id] > 0
    BY <2>2, <2>4 DEF Positive
  <2>6. f.quantity = executed[f.id]
    BY <2>2, <2>3, <2>5
  <2>7. v[f] \in Int /\ v[f] = f.quantity /\ key[f] = f.id
    BY <2>2 DEF Positive
  <2> QED BY <2>2, <2>3, <2>5, <2>6, <2>7
<1>4. ASSUME NEW o \in O
      PROVE  executed[o] = FoldOf({f \in B : key[f] = o}, IntAddition, 0, v)
  <2> DEFINE T == {f \in B : key[f] = o}
  <2>1. executed[o] \in Nat
    BY DEF StoreInv
  <2>2. CASE executed[o] > 0
    <3>1. PICK n \in DOMAIN book : book[n].id = o
      BY <2>2 DEF InBook
    <3> DEFINE f == book[n]
    <3>2. f \in B /\ f.id = o
      <4>1. f \in Fills /\ f \in ToSet(book)
        BY <1>1, BookFacts
      <4>2. f.symbol = Info[o].symbol /\ f.side = Info[o].side
        BY <3>1, <4>1, FillFacts
      <4> QED BY <1>1, <3>1, <4>1, <4>2
    <3> HIDE DEF f
    <3>3. \A g \in B : key[g] = o => g = f
      BY <1>3, <3>2
    <3>4. key[f] = o
      BY <1>3, <3>2
    <3>5. T = {f}
      BY <3>2, <3>3, <3>4
    <3>6. v[f] = executed[o] /\ v[f] \in Int
      BY <1>3, <3>2
    <3> HIDE DEF v, key, B, O
    <3>7. FoldOf({f}, IntAddition, 0, v) = IntAddition[v[f]][FoldOf({}, IntAddition, 0, v)]
      <4>1. IsFiniteSet({f}) /\ \A g \in {f} : v[g] \in Int
        BY <3>6, FS_Singleton
      <4>2. {f} \ {f} = {} /\ f \in {f}
        OBVIOUS
      <4>3. \A g \in {f} : FoldOf({f}, IntAddition, 0, v) = IntAddition[v[g]][FoldOf({f} \ {g}, IntAddition, 0, v)]
        BY ONLY <4>1, IntegersAdd, FoldAdds
      <4> QED BY <4>2, <4>3
    <3>8. FoldOf({}, IntAddition, 0, v) = 0
      <4>1. IsFiniteSet({}) /\ \A g \in {} : v[g] \in Int
        BY FS_EmptySet
      <4> QED BY ONLY <4>1, IntegersAdd, FoldAdds
    <3>9. IntAddition[v[f]][0] = v[f]
      BY <3>6 DEF IntAddition
    <3> QED BY <3>5, <3>6, <3>7, <3>8, <3>9
  <2>3. CASE ~(executed[o] > 0)
    <3>1. T = {} /\ executed[o] = 0
      <4>1. ASSUME NEW f \in B, key[f] = o PROVE FALSE
        <5>1. key[f] = f.id /\ executed[f.id] > 0
          BY <1>3
        <5> HIDE DEF B, key
        <5> QED BY <2>3, <4>1, <5>1
      <4>2. executed[o] = 0
        BY <2>1, <2>3
      <4> HIDE DEF B, key
      <4> QED BY <4>1, <4>2
    <3>2. FoldOf({}, IntAddition, 0, v) = 0
      <4>1. IsFiniteSet({}) /\ \A g \in {} : v[g] \in Int
        BY FS_EmptySet
      <4> HIDE DEF v
      <4> QED BY ONLY <4>1, IntegersAdd, FoldAdds
    <3> QED BY <3>1, <3>2
  <2> QED BY <2>2, <2>3
<1>5. /\ \A f \in B : key[f] \in O
      /\ \A o \in O : bucket[o] = {f \in B : key[f] = o}
  BY <1>3
<1>6. Quantity(side, Booked(s)) = SumFunctionOnSet(v, B)
  <2>1. DOMAIN v = B
    OBVIOUS
  <2> QED BY <2>1 DEF Quantity, SumFunction
<1>7. \A f \in B : v[f] \in Int
  BY <1>3
<1>8. \A o \in O : executed[o] = FoldOf(bucket[o], IntAddition, 0, v)
  BY <1>4
<1> HIDE DEF O, B, v, key, bucket
<1>9. SumFunctionOnSet(v, B) = FoldOf(B, IntAddition, 0, v)
      /\ SumFunctionOnSet(executed, O) = FoldOf(O, IntAddition, 0, executed)
  BY <1>2, <1>7, SumIsFold
<1>10. FoldOf(O, IntAddition, 0, executed) = FoldOf(B, IntAddition, 0, v)
  BY <1>2, <1>5, <1>7, <1>8, IntegersAdd, FoldBuckets
<1> QED BY <1>6, <1>9, <1>10 DEF O

\* Then nothing that the reconciliation finds is major.
LEMMA NothingIsMajor == StoreInv /\ LedgerInv => NoFalseAlarm
<1> SUFFICES ASSUME StoreInv, LedgerInv,
                    \A o \in Orders : executed[o] > 0 => InBook(o) /\ stored[o].quantity = executed[o],
                    \A n \in DOMAIN book : book[n] \in Stored
             PROVE  Severity(Zero, Whole(1), 1) # "major"
  BY DEF NoFalseAlarm
<1>1. ASSUME NEW s \in Symbols PROVE Held(s) = positions[s].quantity /\ positions[s].quantity \in Nat
  <2>1. /\ Quantity("buy", Booked(s))
             = SumFunctionOnSet(executed, {o \in Orders : Info[o].symbol = s /\ Info[o].side = "buy"})
        /\ Quantity("sell", Booked(s))
             = SumFunctionOnSet(executed, {o \in Orders : Info[o].symbol = s /\ Info[o].side = "sell"})
    BY AppliedIsExecuted DEF Sides
  <2>2. /\ positions[s].quantity \in Nat
        /\ positions[s].quantity = Quantity("buy", Booked(s)) - Quantity("sell", Booked(s))
    BY DEF LedgerInv, PositionsInv, Fine
  <2> QED BY <2>1, <2>2 DEF Held
<1>2. ASSUME NEW s \in Symbols
      PROVE  Mismatch(s, Zero, Whole(1), 1) \in {None, "avg_price"}
  <2>1. /\ ~(Held(s) > 0 /\ positions[s].quantity = 0)
        /\ ~(Held(s) = 0 /\ positions[s].quantity > 0)
        /\ ~(Held(s) # positions[s].quantity)
    BY <1>1
  <2> QED BY <2>1 DEF Mismatch
<1> DEFINE found == {Mismatch(s, Zero, Whole(1), 1) : s \in Symbols} \ {None}
<1>3. found = {} \/ found = {"avg_price"}
  BY <1>2
<1>4. Severity(Zero, Whole(1), 1)
        = IF found = {} THEN "ok" ELSE IF found = {"avg_price"} THEN "minor" ELSE "major"
  BY DEF Severity
<1> HIDE DEF found
<1> QED BY <1>3, <1>4

\* The report explains the change of the capital to the last won, also where
\* prices are missing, and once everything executed is stored and applied the
\* reconciliation calls nothing major (pnl/pnl_engine.py, reconciliation.py).
THEOREM ReportsExplainBooksAlways == Spec => []ReportsExplainBooks
<1>1. LedgerInv => CapitalIsExplained
  <2> SUFFICES ASSUME LedgerInv, NEW quote \in {None, Whole(2)}, NEW bar \in {None, Whole(2)}
               PROVE  LET cash == Whole(10 + NetFlow(ToSet(book)))
                          pnl == PortfolioPnL(cash, [s \in Symbols |-> CurrentPrice(quote, bar)])
                      IN  Plus(Whole(10), Plus(pnl.realized, pnl.unrealized)) =
                          Plus(pnl.ending, SumOver([s \in pnl.stale |->
                                   Times(positions[s].avg, positions[s].quantity)]))
    BY DEF CapitalIsExplained
  <2>1. CurrentPrice(quote, bar) = None \/ CurrentPrice(quote, bar) \in Fractions
    BY WholeIsRatio DEF CurrentPrice
  <2>2. PICK price : price = CurrentPrice(quote, bar)
    OBVIOUS
  <2>3. price = None \/ price \in Fractions
    BY <2>1, <2>2
  <2>4. \A capital \in Int :
           LET pnl == PortfolioPnL(Whole(capital + NetFlow(ToSet(book))), [s \in Symbols |-> price])
           IN  Plus(Whole(capital), Plus(pnl.realized, pnl.unrealized)) =
               Plus(pnl.ending, SumOver([s \in pnl.stale |->
                        Times(positions[s].avg, positions[s].quantity)]))
    BY <2>3, ReportExplainsCapital
  <2>5. 10 \in Int
    OBVIOUS
  <2> QED BY <2>2, <2>4, <2>5
<1> QED
  BY <1>1, NothingIsMajor, StoreInvHolds, LedgerInvHolds, PTL DEF ReportsExplainBooks
=============================================================================
