---------------------------- MODULE CapacityLadder ----------------------------
(***************************************************************************)
(* The two recommendations for the next session's capacity: the ladder of  *)
(* risk/capacity_advisor.py and the five stages of                         *)
(* reports/capacity_recommender.py.  Profits are in percent of the         *)
(* session's capital; the flat band of the ladder lies within one percent. *)
(* The rejection rate and the portfolio warnings the stages also count     *)
(* move the score as exceptions do and are left out.                       *)
(***************************************************************************)
EXTENDS Integers, Sequences

CONSTANTS
    Ladder,          \* the capacities; _validate_ladder demands positive,
                     \* strictly increasing ones
    Profits,         \* the total profits of a session, in percent
    Exceptions,      \* the numbers of its failed executions
    LossThreshold    \* consecutive_loss_threshold

Severities == {"ok", "minor", "major", "missing"}
Signals == [profit : Profits, severity : Severities, exceptions : Exceptions]

Gap(i, capital) == IF Ladder[i] > capital THEN Ladder[i] - capital ELSE capital - Ladder[i]

\* _locate_step: the nearest step, the lower one of two.
StepOf(capital) ==
    CHOOSE i \in 1 .. Len(Ladder) :
      /\ \A j \in 1 .. Len(Ladder) : Gap(i, capital) <= Gap(j, capital)
      /\ \A j \in 1 .. i - 1 : Gap(j, capital) > Gap(i, capital)

AtLeastFirst(i) == IF i < 1 THEN 1 ELSE i
AtMostLast(i) == IF i > Len(Ladder) THEN Len(Ladder) ELSE i

\* Step 6 of recommend; the flat band is less than one percent of the capital.
BaseStep(signal, from) ==
    CASE signal.profit < 0 \/ signal.exceptions > 0 -> AtLeastFirst(from - 1)
      [] signal.profit > 0 /\ signal.severity = "ok" /\ signal.exceptions = 0 ->
            AtMostLast(from + 1)
      [] OTHER -> from

\* A streak of losses costs one more step, but a major mismatch has returned
\* the floor before the history is looked at.
Recommend(signal, from, losses) ==
    LET to == BaseStep(signal, from)
    IN  IF signal.severity = "major" THEN 1
        ELSE IF losses >= LossThreshold THEN AtLeastFirst(to - 1) ELSE to

Direction(signal, from, losses) ==
    LET base == BaseStep(signal, from)
    IN  CASE signal.severity = "major" -> "floor"
          [] signal.severity # "major" /\ losses >= LossThreshold /\ base > 1 -> "down"
          [] OTHER -> IF base < from THEN "down" ELSE IF base > from THEN "up" ELSE "hold"

\* recommend_next_capacity: the most severe signal decides the stage.
Score(signal) ==
    CASE signal.severity = "major" -> 3
      [] signal.severity # "major" /\ (signal.exceptions >= 5 \/ signal.profit <= -5) -> 2
      [] OTHER -> IF signal.exceptions >= 1 \/ signal.profit <= -2 \/ signal.severity = "minor"
                  THEN 1 ELSE 0

\* The multiplier, in percent.
Stage(signal) ==
    CASE Score(signal) = 3 -> 0
      [] Score(signal) = 2 -> 50
      [] Score(signal) = 1 -> 80
      [] OTHER -> IF signal.profit >= 2 THEN 110 ELSE 100

-----------------------------------------------------------------------------
\* a is at least as good a session as b in every signal.
AsGood(a, b) ==
    /\ a.profit >= b.profit /\ a.exceptions <= b.exceptions
    /\ a.severity = b.severity \/ a.severity = "ok" \/ b.severity = "major"

(* A worse session, and a longer run of losses, never earn a larger next    *)
(* session, from either of the two recommenders: not by another branch, not *)
(* by a tie, and not because a mismatch or an exception diverts it from the *)
(* rule for losses.                                                         *)
WorseNeverEarnsMore(good, bad, from, losses) ==
    AsGood(good, bad) =>
      /\ Recommend(bad, from, losses) <= Recommend(good, from, losses)
      /\ Recommend(good, from, losses + 1) <= Recommend(good, from, losses)
      /\ Stage(bad) <= Stage(good)
=============================================================================
