--------------------------- MODULE StrategyRegistry ---------------------------
(* The registry of strategies: strategies/schema.py (what a file must be to *)
(* be loaded), loader.py and registry.py (what is asked of a loaded one),   *)
(* and capital_allocator.py, the split of the capital over its strategies.  *)
(*                                                                         *)
(* A file is its state, whether its version is of the form X.Y, and a       *)
(* sequence of entries.  The fields that are only checked for their form    *)
(* (identifier, module path, class, version, timeframe, categories,         *)
(* symbols, ranges, unknown fields) are one field wellFormed; weights are   *)
(* in percent.  Parameters are leaves: the keys on the way to a value, the  *)
(* value, and how many of the keys are above the first list.  Weights and   *)
(* caps are in percent; amounts are exact until the rounding to won.        *)
EXTENDS Integers, Sequences, FiniteSets, SequencesExt, FiniteSetsExt
Fraction == INSTANCE Decimals

CONSTANTS SecretKeys,
          MaxIterations   \* MAX_REDISTRIBUTION_ITERATIONS

\* _check_no_secret_keys: mappings are descended into, lists are not.
Suspicious(leaf) ==
    \/ \E i \in 1 .. leaf.depth : leaf.keys[i] \in SecretKeys
    \/ leaf.depth = Len(leaf.keys) /\ leaf.value = "credential"

ValidEntry(e) == e.wellFormed /\ ~ \E leaf \in e.parameters : Suspicious(leaf)

\* The duplicates of a universe or of the categories are dropped.
Deduped(s) == FoldLeft(LAMBDA a, x : IF x \in Range(a) THEN a ELSE Append(a, x), <<>>, s)
Stored(e) == [e EXCEPT !.universe = Deduped(@), !.categories = Deduped(@)]

Weight(entries) == FoldLeft(LAMBDA a, e : a + e.weight, 0, entries)
Enabled(entries) == SelectSeq(entries, LAMBDA e : e.enabled)

\* RegistryFile: _check_unique_ids and _check_capital_weight_sum
ValidFile(file) ==
    /\ file.version
    /\ \A i \in DOMAIN file.entries : ValidEntry(file.entries[i])
    /\ \A i, j \in DOMAIN file.entries : file.entries[i].id = file.entries[j].id => i = j
    /\ Weight(Enabled(file.entries)) <= 100

\* load_registry: the entries, or a RegistryLoadError.
Loads(file) == file.state = "mapping" /\ ValidFile(file)
Load(file) == [i \in DOMAIN file.entries |-> Stored(file.entries[i])]

-----------------------------------------------------------------------------
\* registry.py
Ids(reg) == {e.id : e \in Range(reg)}
Get(reg, id) == LET k == SelectInSeq(reg, LAMBDA e : e.id = id) IN IF k = 0 THEN {} ELSE {reg[k]}
ListPaperOnly(reg) == SelectSeq(reg, LAMBDA e : e.paper)
ListLiveEligible(reg) == SelectSeq(reg, LAMBDA e : e.enabled /\ ~e.paper)
ListByTimeframe(reg, t) == SelectSeq(reg, LAMBDA e : e.timeframe = t)
ListBySymbol(reg, s) == SelectSeq(reg, LAMBDA e : e.universe = <<>> \/ s \in Range(e.universe))

\* An unknown strategy is for paper only.
IsPaperOnly(reg, id) == \A e \in Get(reg, id) : e.paper

RegistrySummary(reg) ==
    [total |-> Len(reg), active |-> Len(Enabled(reg)), paper |-> Len(ListPaperOnly(reg)),
     live |-> Len(ListLiveEligible(reg)), weight |-> Weight(Enabled(reg)),
     byTimeframe |-> [t \in {e.timeframe : e \in Range(reg)} |-> Len(ListByTimeframe(reg, t))]]

\* allocate_capital refuses weights above 1 and looks strategies up by id.
ById(reg) == [id \in Ids(reg) |-> CHOOSE e \in Range(reg) : e.id = id]
Refused(reg, mode) == Weight(IF mode = "live" THEN ListLiveEligible(reg) ELSE Enabled(reg)) > 100

-----------------------------------------------------------------------------
(* capital_allocator.py.  The strategies by their identifiers: a function   *)
(* from each to [enabled, paper, weight, cap].                              *)
Active(reg) == {s \in DOMAIN reg : reg[s].enabled}
LiveEligible(reg) == {s \in Active(reg) : ~reg[s].paper}
Candidates(reg, mode) == IF mode = "live" THEN LiveEligible(reg) ELSE Active(reg)

WeightOf(reg, S) == MapThenSumSet(LAMBDA s : reg[s].weight, S)

Raw(reg, total, s) == Fraction!Ratio(total * reg[s].weight, 100)
Cap(reg, total, s) == Fraction!Ratio(total * reg[s].cap, 100)

Above(x, y) == ~Fraction!AtMost(x, y)
Lower(x, y) == IF Above(x, y) THEN y ELSE x
Excess(x, y) == IF Above(x, y) THEN Fraction!Minus(x, y) ELSE Fraction!Zero

\* More than EPSILON, a hundredth of a won.
Counts(x) == Above(x, <<1, 100>>)

\* Give(amounts): every candidate of S is offered offer[s]; the rest of an
\* offer above the cap overflows.
Offer(reg, total, alloc, S, offer) ==
    [alloc |-> [s \in DOMAIN alloc |->
                  IF s \in S THEN Lower(offer[s], Cap(reg, total, s)) ELSE alloc[s]],
     overflow |-> Fraction!SumOver([s \in S |-> Excess(offer[s], Cap(reg, total, s))])]

\* Steps 1 and 2: in proportion to the weights, then capped.
Proportional(reg, total, S) ==
    Offer(reg, total, [s \in S |-> Fraction!Zero], S, [s \in S |-> Raw(reg, total, s)])

HasRoom(reg, total, alloc) ==
    {s \in DOMAIN alloc : ~Fraction!AtMost(Cap(reg, total, s), alloc[s])}

\* Step 3, one iteration: the overflow goes to the strategies with room, by
\* weight, or in equal parts when their weights are all zero.
Share(reg, overflow, E, s) ==
    IF WeightOf(reg, E) = 0 THEN Fraction!Over(overflow, Cardinality(E))
    ELSE Fraction!Over(Fraction!Times(overflow, reg[s].weight), WeightOf(reg, E))

Redistribute(reg, total, split) ==
    LET room == HasRoom(reg, total, split.alloc)
    IN  IF ~Counts(split.overflow) \/ room = {} THEN split
        ELSE Offer(reg, total, split.alloc, room,
                   [s \in room |-> Fraction!Plus(split.alloc[s],
                                                 Share(reg, split.overflow, room, s))])

\* The split after so many iterations.
Split(reg, total, S, redistribute) ==
    LET after[n \in 0 .. MaxIterations] ==
          IF n = 0 THEN Proportional(reg, total, S)
          ELSE Redistribute(reg, total, after[n - 1])
    IN  after[IF redistribute THEN MaxIterations ELSE 0]

\* Step 4: whole won, downwards; the rest is the cash buffer.
Allocation(reg, total, mode, redistribute) ==
    LET S == Candidates(reg, mode)
        split == Split(reg, total, S, redistribute).alloc
    IN  IF WeightOf(reg, S) = 0 THEN [s \in S |-> 0]
        ELSE [s \in S |-> split[s][1] \div split[s][2]]

Allocated(alloc) == MapThenSumSet(LAMBDA s : alloc[s], DOMAIN alloc)

-----------------------------------------------------------------------------
(* No strategy gets more than its cap or less than its proportional part,   *)
(* and all of them together no more than the capital.                       *)
WithinCaps(reg, total, mode, redistribute) ==
    LET alloc == Allocation(reg, total, mode, redistribute)
    IN  /\ \A s \in DOMAIN alloc :
             /\ alloc[s] * 100 <= total * reg[s].cap
             /\ WeightOf(reg, DOMAIN alloc) > 0 =>
                  (alloc[s] + 1) * 100 > total * (IF reg[s].weight < reg[s].cap
                                                  THEN reg[s].weight ELSE reg[s].cap)
        /\ Allocated(alloc) <= total

(* What a cap cuts off is not left idle while another strategy has room:    *)
(* the cash buffer then holds no more than the share nobody's weight asks   *)
(* for, and the rounding.                                                   *)
NoIdleOverflow(reg, total, mode) ==
    LET alloc == Allocation(reg, total, mode, TRUE)
        S == DOMAIN alloc
    IN  WeightOf(reg, S) > 0 /\ (\E s \in S : (alloc[s] + 1) * 100 <= total * reg[s].cap) =>
          (total - Allocated(alloc)) * 100
             <= total * (100 - WeightOf(reg, S)) + 100 * (Cardinality(S) + 1)

(* What loads can be allocated: allocate_capital never refuses it, in any   *)
(* mode, and gives something to the strategies of the list the mode is for  *)
(* and to each of them once, a strategy that must not trade live getting    *)
(* nothing in live mode.                                                    *)
LoadedIsAllocatable(file, total) ==
    LET reg == Load(file)
    IN  Loads(file) => \A mode \in {"live", "paper"} :
          LET alloc == Allocation(ById(reg), total, mode, TRUE)
          IN  /\ ~Refused(reg, mode)
              /\ Allocated(alloc) <= total
              /\ Cardinality(DOMAIN alloc) =
                   Len(IF mode = "live" THEN ListLiveEligible(reg) ELSE Enabled(reg))
              /\ mode = "live" => \A id \in DOMAIN alloc : ~IsPaperOnly(reg, id)

(* The answers about a strategy and the answers about the registry agree:   *)
(* what is found by its id is in every list its fields put it in, the       *)
(* order of the file does not change it, and the counts of the summary      *)
(* are of one set of strategies.                                            *)
AnswersAgree(file) ==
    LET reg == Load(file)
        s == RegistrySummary(reg)
        turned == Load([file EXCEPT !.entries = Reverse(@)])
    IN  Loads(file) =>
          /\ Loads([file EXCEPT !.entries = Reverse(@)])
          /\ \A id \in Ids(reg) : Get(reg, id) = Get(turned, id) /\ Get(reg, id) # {}
          /\ s.live <= s.active /\ s.active + s.paper + s.live <= 2 * s.total
          /\ {e.id : e \in Range(ListLiveEligible(reg))} =
               {id \in Ids(Enabled(reg)) : ~IsPaperOnly(reg, id)}
          /\ MapThenSumSet(LAMBDA t : s.byTimeframe[t], DOMAIN s.byTimeframe) = s.total
          /\ \A e \in Range(file.entries) : \A x \in Range(e.universe) :
               e.id \in Ids(ListBySymbol(reg, x))
=============================================================================
