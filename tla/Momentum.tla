------------------------------ MODULE Momentum ------------------------------
(* MomentumStrategyV04 (signals/strategies/momentum_v04.py): six indicators *)
(* of the last bars and quote, their weighted mean, and the side it takes.  *)
(*                                                                         *)
(* A bar is [close, volume, up, down]; an indicator computed from bars is a *)
(* fraction <<numerator, denominator>>.  Generate takes the six indicators  *)
(* and their reliabilities in percent.                                      *)
EXTENDS Integers, Sequences, FiniteSets, FiniteSetsExt, SequencesExt
Fraction == INSTANCE Decimals

CONSTANTS PriceLookback, ShortWindow, LongWindow, IntensityLookback,
          CvdLookback, CvdNormalization,
          WeightOf,              \* [Indicators -> percent]
          Threshold,             \* buy at it, sell at its negative, in percent
          MinConfidence

Indicators == {"price", "volume", "intensity", "cvd", "quote_imb", "spread_quality"}
Missing == 1000
NoValue == <<0, 0>>

-----------------------------------------------------------------------------
Clamp(n, d) == IF n > d THEN <<1, 1>> ELSE IF n < -d THEN <<-1, 1>> ELSE <<n, d>>
LastOf(bars, n) == SubSeq(bars, Len(bars) - n + 1, Len(bars))
SumOver(bars, Value(_)) == FoldLeft(LAMBDA sum, b : sum + Value(b), 0, bars)

\* Ten percent is a full move.
PriceMomentum(bars) ==
    IF Len(bars) < PriceLookback + 1 THEN NoValue
    ELSE LET past == bars[Len(bars) - PriceLookback].close
             latest == bars[Len(bars)].close
         IN  Clamp(10 * (latest - past), past)

\* The ratio of the short mean to the long one: 1 counts as 0, twice as 1 and
\* half as -1, with the sign turned when the price falls.
VolumeConfirmation(bars) ==
    LET short == SumOver(LastOf(bars, ShortWindow), LAMBDA b : b.volume) * LongWindow
        long == SumOver(LastOf(bars, LongWindow), LAMBDA b : b.volume) * ShortWindow
        score == CASE short >= 2 * long -> <<1, 1>>
                   [] 2 * short <= long -> <<-1, 1>>
                   [] long <= short /\ short < 2 * long -> <<short - long, long>>
                   [] OTHER -> <<2 * (short - long), long>>
        direction == IF PriceMomentum(bars)[1] >= 0 THEN 1 ELSE -1
    IN  IF Len(bars) < LongWindow \/ long = 0 THEN NoValue
        ELSE <<direction * score[1], score[2]>>

\* The mean of up / (up + down) over the bars that have volume; half of it
\* counts as 0.  With a lookback of 1 the code would divide by the number of no
\* bars.
Intensity(bars) ==
    LET valid == SelectSeq(LastOf(bars, IntensityLookback), LAMBDA b : b.up + b.down > 0)
        mean == Fraction!Over(
                  Fraction!SumOver([i \in DOMAIN valid |->
                    Fraction!Ratio(valid[i].up, valid[i].up + valid[i].down)]), Len(valid))
    IN  IF Len(bars) < IntensityLookback \/ Len(valid) < IntensityLookback \div 2
        THEN NoValue ELSE Fraction!Minus(Fraction!Times(mean, 2), Fraction!Whole(1))

CvdTrend(bars) ==
    IF Len(bars) < CvdLookback + 1 THEN NoValue
    ELSE Clamp(SumOver(LastOf(bars, CvdLookback), LAMBDA b : b.up - b.down), CvdNormalization)

-----------------------------------------------------------------------------
\* The indicators that are there and count.
Valid(value, reliability) ==
    {k \in Indicators : value[k] # Missing /\ reliability[k] > 0}

WeightedSum(value, reliability) ==
    FoldSet(LAMBDA k, sum : sum + value[k] * WeightOf[k] * reliability[k], 0,
            Valid(value, reliability))
EffectiveWeight(value, reliability) ==
    FoldSet(LAMBDA k, sum : sum + WeightOf[k] * reliability[k], 0, Valid(value, reliability))

\* confidence >= min_confidence: the share by which one sign prevails among
\* the indicators of direction, whichever sign that is.
EnoughAgree(value, valid) ==
    LET signs == valid \ {"spread_quality"}
        net == Cardinality({k \in signs : value[k] > 0}) - Cardinality({k \in signs : value[k] < 0})
    IN  signs # {} /\ 100 * (IF net < 0 THEN -net ELSE net) >= MinConfidence * Cardinality(signs)

Generate(value, reliability) ==
    LET sum == WeightedSum(value, reliability)
        weight == EffectiveWeight(value, reliability)
        valid == Valid(value, reliability)
    IN  CASE weight > 0 /\ EnoughAgree(value, valid) /\ sum >= Threshold * weight -> "buy"
          [] weight > 0 /\ EnoughAgree(value, valid) /\ sum <= -Threshold * weight -> "sell"
          [] OTHER -> "flat"

-----------------------------------------------------------------------------
(* Every indicator lies in [-1, 1], and a price that rises is never counted *)
(* as one that falls.                                                       *)
InRange(f) == f = NoValue \/ (f[2] > 0 /\ -f[2] <= f[1] /\ f[1] <= f[2])
IndicatorsAreInRange(bars) ==
    /\ InRange(PriceMomentum(bars)) /\ InRange(VolumeConfirmation(bars))
    /\ InRange(Intensity(bars)) /\ InRange(CvdTrend(bars))
    /\ Len(bars) > PriceLookback /\ bars[Len(bars)].close > bars[Len(bars) - PriceLookback].close
         => PriceMomentum(bars)[1] > 0

(* A sale is asked for only when an indicator says so, and so is a purchase *)
(* when the spread counts for nothing; then a market turned upside down     *)
(* gives the opposite answer; indicators that cancel out ask for nothing.   *)
Mirror(value) == [k \in Indicators |-> IF value[k] = Missing THEN Missing ELSE -value[k]]
SidesAreBacked(value, reliability) ==
    LET valid == Valid(value, reliability)
        directional == valid \ {"spread_quality"}
        count(S) == Cardinality(S)
        side == Generate(value, reliability)
    IN  /\ side = "sell" => \E k \in directional : value[k] < 0
        /\ "spread_quality" \notin valid =>
             /\ side = "buy" => \E k \in directional : value[k] > 0
             /\ side = "buy" <=> Generate(Mirror(value), reliability) = "sell"
        /\ count({k \in directional : value[k] > 0}) = count({k \in directional : value[k] < 0})
             => side = "flat"

(* quote_signal.py:48 and momentum_v04.py:229 give the spread no direction: *)
(* a purchase needs an indicator of direction that asks for one.            *)
SpreadGivesNoDirection(value, reliability) ==
    Generate(value, reliability) = "buy" =>
      \E k \in Valid(value, reliability) \ {"spread_quality"} : value[k] > 0
=============================================================================
