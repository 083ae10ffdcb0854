---------------------------- MODULE SignalStages ----------------------------
(* The stages a cycle's signals pass (signals/_runner_state.py, _filter.py, *)
(* _dedup.py, _conflict.py, schema.py, _resolve.py): cadence, expiry,       *)
(* duplicates, conflicts, order of priority, capital; and the record of a   *)
(* cycle (_decision.py).                                                    *)
(*                                                                         *)
(* The signals of a batch are a set: no two have the same id, and every     *)
(* stage that depends on an order sorts first.  Costs are what the          *)
(* estimator answers for a BUY.  Hashes are shorter than 32 characters: the *)
(* record of a rejected signal takes a longer one for a secret and raises.  *)
EXTENDS Integers, Sequences, FiniteSets, SequencesExt

CONSTANTS MinCycle,     \* seconds between two cycles
          Grace         \* how far a signal may be of the future

Never == -1             \* no expiry, no earlier cycle
NoHash == 0

-----------------------------------------------------------------------------
(* schema.py: what a signal must be to exist. *)
ValidSignal(s, created) ==
    s.asOf <= created + Grace /\ (s.expires = Never \/ s.expires > s.asOf)

-----------------------------------------------------------------------------
(* Stage 0 *)

\* CadenceTracker.check_and_advance: the last allowed cycle moves only when
\* this one is allowed; a clock that went back is refused.
CheckAndAdvance(tracker, now) ==
    IF tracker.last = Never \/ now - tracker.last >= MinCycle
    THEN [last |-> now, allowed |-> Append(tracker.allowed, now)]
    ELSE tracker
Cycles(times) == FoldLeft(CheckAndAdvance, [last |-> Never, allowed |-> << >>], times).allowed

-----------------------------------------------------------------------------
(* Stages 1 to 3 *)
IsExpired(s, now) == s.expires # Never /\ now >= s.expires
Filter(S, now) == {s \in S : ~IsExpired(s, now)}

\* First come, first served; ties by the id.
Before(s, t) == s.asOf < t.asOf \/ (s.asOf = t.asOf /\ s.id < t.id)

\* The key has no symbol: without a hash it is the category alone.
SameKey(s, t) == s.hash = t.hash /\ s.category = t.category
Dedup(S) == {s \in S : ~\E t \in S : SameKey(s, t) /\ Before(t, s)}

\* Mutant: a CLOSE pulls no way.
DirectionSellOnly(action) ==
    CASE action = "BUY" -> "BUY"
      [] action = "SELL" -> "SELL_OR_CLOSE"
      [] OTHER -> "NONE"

Direction(action) ==
    CASE action = "BUY" -> "BUY"
      [] action \in {"SELL", "CLOSE"} -> "SELL_OR_CLOSE"
      [] OTHER -> "NONE"

\* The whole group goes, a HOLD in it too.
Conflicting(S, s) ==
    LET group == {t \in S : t.symbol = s.symbol /\ t.category = s.category}
    IN  Cardinality({Direction(t.action) : t \in group} \ {"NONE"}) >= 2
DetectConflicts(S) == {s \in S : ~Conflicting(S, s)}

-----------------------------------------------------------------------------
(* Stages 4 and 5 *)
Priority(s) ==
    CASE s.category \in {"STOP_LOSS", "RISK_REDUCE"} -> 1
      [] s.category = "EXIT" -> 2
      [] s.category = "REBALANCE" -> 3
      [] s.category = "ENTRY" -> 4

SortedByPriority(S) ==
    SetToSortSeq(S, LAMBDA s, t : Priority(s) < Priority(t)
                                    \/ (Priority(s) = Priority(t) /\ Before(s, t)))

Cost(s) == IF s.action = "BUY" THEN s.cost ELSE 0

\* A signal that does not fit is left out and the next is tried.
ResolveCapital(sorted, capital) ==
    FoldLeft(LAMBDA r, s : IF Cost(s) <= r.remaining
                           THEN [remaining |-> r.remaining - Cost(s), accepted |-> r.accepted \union {s}]
                           ELSE r,
             [remaining |-> capital, accepted |-> {}], sorted)

Compete(S, now) == DetectConflicts(Dedup(Filter(S, now)))
Cycle(S, now, capital) == ResolveCapital(SortedByPriority(Compete(S, now)), capital)

-----------------------------------------------------------------------------
(* _decision.py: the record of a cycle, and what it must be to exist.  What *)
(* goes into it is as task16_self_verify.py checks it; the runner of today  *)
(* makes no such record.                                                    *)
Flow(in, out) == [in |-> Cardinality(in), out |-> Cardinality(out)]
Metrics(S, now, capital) ==
    LET live == Filter(S, now)
        single == Dedup(live)
        clear == DetectConflicts(single)
    IN  <<Flow(S, live), Flow(live, single), Flow(single, clear), Flow(clear, clear),
          Flow(clear, Cycle(S, now, capital).accepted)>>

\* Stage 0 stops the cycle before the first of the others.
Decision(S, now, capital, stopped, early) ==
    LET runs == ~stopped /\ ~early
    IN  [stopped |-> stopped, early |-> early,
         metrics |-> IF runs THEN Metrics(S, now, capital) ELSE [i \in 1 .. 5 |-> Flow({}, {})],
         accepted |-> IF runs THEN Cycle(S, now, capital).accepted ELSE {},
         consumed |-> IF runs THEN capital - Cycle(S, now, capital).remaining ELSE 0]

ValidDecision(d) ==
    /\ \A i \in 1 .. 5 : d.metrics[i].out <= d.metrics[i].in
    /\ d.stopped \/ d.early => d.accepted = {}
    /\ d.consumed >= 0

\* passthrough_rate, in percent, and is_actionable.
PassthroughRate(d) ==
    IF d.metrics[1].in = 0 THEN 0 ELSE (100 * d.metrics[5].out) \div d.metrics[1].in
IsActionable(d) == ~d.stopped /\ ~d.early /\ d.accepted # {}

-----------------------------------------------------------------------------
(* What a cycle lets through has not expired, is the first of its kind that *)
(* has not, and pulls no symbol two ways within a category.                 *)
AcceptedIsClean(S, now, capital) ==
    LET accepted == Cycle(S, now, capital).accepted IN
    /\ \A s \in accepted : s.expires = Never \/ now < s.expires
    /\ \A s \in accepted, t \in S : SameKey(s, t) /\ Before(t, s) => IsExpired(t, now)
    /\ \A s, t \in accepted :
         s.symbol = t.symbol /\ s.category = t.category /\ s.action = "BUY"
           => t.action \notin {"SELL", "CLOSE"}

(* No signal loses its capital to one behind it that costs as much, none    *)
(* that would still fit is left out, and a sale is never cut.               *)
CapitalGoesByPriority(S, now, capital) ==
    LET result == Cycle(S, now, capital)
        cut == Compete(S, now) \ result.accepted
    IN  /\ result.remaining >= 0
        /\ \A s \in cut : s.action = "BUY" /\ s.cost > result.remaining
        /\ \A s \in cut, t \in result.accepted :
             Priority(s) < Priority(t) \/ (Priority(s) = Priority(t) /\ Before(s, t))
               => Cost(t) < Cost(s)

(* Every cycle of valid signals can be recorded, and its record adds up:    *)
(* the stages hand on what they let through, what is consumed is the cost   *)
(* of what is accepted and is never more than there was, and a cycle that   *)
(* is stopped or early asks for nothing.                                    *)
CycleIsRecordable(S, now, capital) ==
    (\A s \in S : ValidSignal(s, now)) => \A stopped, early \in BOOLEAN :
      LET d == Decision(S, now, capital, stopped, early)
      IN  /\ ValidDecision(d)
          /\ \A i \in 1 .. 4 : d.metrics[i].out = d.metrics[i + 1].in
          /\ d.metrics[5].out = Cardinality(d.accepted) /\ PassthroughRate(d) \in 0 .. 100
          /\ d.consumed <= capital
          /\ d.consumed = FoldLeft(LAMBDA a, s : a + Cost(s), 0, SortedByPriority(d.accepted))
          /\ (stopped \/ early) => ~IsActionable(d)
          /\ \A s \in d.accepted : s.expires = Never \/ s.asOf < s.expires

(* Whatever the clock does, the cycles that run are MinCycle apart.         *)
CyclesAreApart(times) ==
    \A i \in 1 .. Len(Cycles(times)) - 1 : Cycles(times)[i + 1] - Cycles(times)[i] >= MinCycle
=============================================================================
