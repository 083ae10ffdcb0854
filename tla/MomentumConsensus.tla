-------------------------- MODULE MomentumConsensus --------------------------
(* MomentumV1 (signals/strategies/momentum_v1.py) with its indicators       *)
(* (_indicators.py) and the series it reads (_base.py): a signal only when  *)
(* the return, MACD, RSI and the on-balance volume agree.                   *)
(*                                                                         *)
(* A series is [bars, seconds], a bar [at, close, volume], at in hours;     *)
(* indicators are exact fractions.  The size of the return's z-score needs  *)
(* a logarithm: strong says that it is past the threshold, its sign is that *)
(* of the return.                                                           *)
EXTENDS Integers, Sequences, FiniteSets, SequencesExt
Fraction == INSTANCE Decimals
CONSTANTS ReturnLookback, FastPeriod, SlowPeriod, SignalPeriod, RsiPeriod, VolumeLookback,
          MacdPermille,           \* weak MACD threshold, per 1000 of the mean close
          RsiBuy, RsiSell,        \* in percent
          VolumePercent,          \* weak slope of the on-balance volume
          MaxZeroPercent,         \* bars without volume that are tolerated
          BarSeconds, Validity

Largest(S) == CHOOSE n \in S : \A m \in S : m <= n
Lookback ==
    Largest({ReturnLookback + 1, SlowPeriod + SignalPeriod, RsiPeriod + 1, VolumeLookback + 1})

LastBars(bars, n) == SubSeq(bars, Len(bars) - n + 1, Len(bars))
Total(values) == FoldLeft(LAMBDA a, x : a + x, 0, values)
Closes(bars) == [i \in DOMAIN bars |-> bars[i].close]
Volumes(bars) == [i \in DOMAIN bars |-> bars[i].volume]

\* PriceSeries: strictly later, bars of one length.
Valid(series) == series.bars # <<>> /\ \A i \in 1 .. Len(series.bars) - 1 :
                                          series.bars[i].at < series.bars[i + 1].at

\* is_normal_gap: about a bar, a night (17.5 h) or a weekend (65.5 h), to 4 hours.
NormalGap(series, gap) ==
    \/ 10 * gap * 3600 < 11 * series.seconds /\ 10 * gap * 3600 > 9 * series.seconds
    \/ gap \in 14 .. 21 \/ gap \in 62 .. 69
    \/ series.seconds >= 86400 /\ series.seconds <= gap * 3600 /\ gap * 3600 <= 5 * series.seconds
AbnormalGaps(series) ==
    {i \in 2 .. Len(series.bars) : ~NormalGap(series, series.bars[i].at - series.bars[i - 1].at)}

-----------------------------------------------------------------------------
\* _ema: the mean of the first values, then 2 / (period + 1) of each.
Ema(values, period) ==
    LET from[i \in period .. Len(values)] ==
          IF i = period
          THEN Fraction!Over(FoldLeft(LAMBDA a, x : Fraction!Plus(a, x), Fraction!Zero,
                                      SubSeq(values, 1, period)), period)
          ELSE Fraction!Over(Fraction!Plus(Fraction!Times(values[i], 2),
                                           Fraction!Times(from[i - 1], period - 1)), period + 1)
    IN  from

\* compute_macd: the line is there from the slow period on.
Macd(bars) ==
    LET closes == [i \in DOMAIN bars |-> Fraction!Whole(bars[i].close)]
        fast == Ema(closes, FastPeriod)
        slow == Ema(closes, SlowPeriod)
        line == [i \in 1 .. Len(bars) - SlowPeriod + 1 |->
                   Fraction!Minus(fast[i + SlowPeriod - 1], slow[i + SlowPeriod - 1])]
    IN  [line |-> Last(line), signal |-> Ema(line, SignalPeriod)[Len(line)]]
Hist(macd) == Fraction!Minus(macd.line, macd.signal)

\* compute_rsi: smoothed gains and losses; no loss is 100, no move 50.
Smoothed(moves) ==
    LET from[i \in RsiPeriod .. Len(moves)] ==
          IF i = RsiPeriod THEN Fraction!Ratio(Total(SubSeq(moves, 1, RsiPeriod)), RsiPeriod)
          ELSE Fraction!Over(Fraction!Plus(Fraction!Times(from[i - 1], RsiPeriod - 1),
                                           Fraction!Whole(moves[i])), RsiPeriod)
    IN  from[Len(moves)]
Move(bars, i) == bars[i + 1].close - bars[i].close
Gains(bars) == [i \in 1 .. Len(bars) - 1 |-> Largest({Move(bars, i), 0})]
Losses(bars) == [i \in 1 .. Len(bars) - 1 |-> Largest({- Move(bars, i), 0})]
Share(gain, loss) ==
    LET n == gain[1] * loss[2]
        m == loss[1] * gain[2]
    IN  IF n + m = 0 THEN <<50, 1>> ELSE Fraction!Ratio(100 * n, n + m)
Rsi(bars) == Share(Smoothed(Gains(bars)), Smoothed(Losses(bars)))

\* compute_obv, and the slope of its last values by least squares over their
\* mean volume.
Obv(bars) ==
    LET from[i \in DOMAIN bars] ==
          IF i = 1 THEN 0
          ELSE LET up == Move(bars, i - 1) > 0 IN
               from[i - 1] + (IF Move(bars, i - 1) = 0 THEN 0
                              ELSE IF up THEN bars[i].volume ELSE - bars[i].volume)
    IN  from
ObvSlope(bars) ==
    LET n == VolumeLookback
        obv == LastBars(Obv(bars), n)
        volume == Total(LastBars(Volumes(bars), n))
        dev == Total([i \in 1 .. n |-> (2 * i - n - 1) * obv[i]])
    IN  IF volume = 0 THEN Fraction!Zero
        ELSE Fraction!Ratio(6 * dev, (n * n - 1) * volume)

-----------------------------------------------------------------------------
Past(x, threshold) == ~Fraction!AtMost(x, threshold)
Negative(x) == <<- x[1], x[2]>>
Side(up, down) == IF up THEN "BUY" ELSE IF down THEN "SELL" ELSE "NEUTRAL"

\* compute_zscore: returns that are all equal have no deviation and score 0.
ReturnDirection(bars, strong) ==
    LET recent == LastBars(bars, ReturnLookback + 1)
        move == recent[Len(recent)].close - recent[1].close
        spread == \E i, j \in 1 .. ReturnLookback :
                    recent[i + 1].close * recent[j].close # recent[j + 1].close * recent[i].close
    IN  Side(strong /\ spread /\ move > 0, strong /\ spread /\ move < 0)
MacdDirection(macd, weak) ==
    Side(Past(Hist(macd), weak) /\ Past(macd.line, macd.signal),
         Past(Negative(Hist(macd)), weak) /\ Past(macd.signal, macd.line))
WeakMacd(bars) ==
    Fraction!Ratio(MacdPermille * Total(Closes(LastBars(bars, SlowPeriod))), 1000 * SlowPeriod)
RsiDirection(rsi) ==
    Side(Past(rsi, Fraction!Whole(RsiBuy)), Past(Fraction!Whole(RsiSell), rsi))
VolumeDirection(slope) ==
    LET weak == Fraction!Ratio(VolumePercent, 100)
    IN  Side(Past(slope, weak), Past(Negative(slope), weak))

\* All of them or none.
Agreed(price, volume) ==
    IF price \notin {{"BUY"}, {"SELL"}} \/ volume = "NEUTRAL" THEN "NO_CONSENSUS"
    ELSE IF price # {volume} THEN "PRICE_VOLUME_DISAGREE" ELSE volume

\* _evaluate_one: why there is no signal, or the side of it.
Outcome(series, strong) ==
    LET bars == series.bars
        zeros == Cardinality({i \in 1 .. VolumeLookback :
                                LastBars(bars, VolumeLookback)[i].volume = 0})
    IN  IF Len(bars) < Lookback THEN "INSUFFICIENT"
        ELSE IF series.seconds # BarSeconds THEN "INVALID_DATA"
        ELSE IF AbnormalGaps(series) # {} THEN "ABNORMAL_GAP"
        ELSE IF 100 * zeros > MaxZeroPercent * VolumeLookback THEN "HIGH_ZERO_VOLUME"
        ELSE Agreed({ReturnDirection(bars, strong), MacdDirection(Macd(bars), WeakMacd(bars)),
                        RsiDirection(Rsi(bars))}, VolumeDirection(ObvSlope(bars)))

\* evaluate: a batch and the counts of what gave no signal.
Reasons == <<"INSUFFICIENT", "INVALID_DATA", "ABNORMAL_GAP", "HIGH_ZERO_VOLUME",
             "NO_CONSENSUS", "PRICE_VOLUME_DISAGREE">>
Batch(of, asOf) ==
    [signals |-> {[symbol |-> s, action |-> of[s], asOf |-> asOf, expires |-> asOf + Validity,
                   category |-> IF of[s] = "BUY" THEN "ENTRY" ELSE "EXIT"] :
                    s \in {x \in DOMAIN of : of[x] \in {"BUY", "SELL"}}},
     universe |-> Cardinality(DOMAIN of),
     skipped |-> [i \in DOMAIN Reasons |-> Cardinality({s \in DOMAIN of : of[s] = Reasons[i]})]]
Evaluate(universe, strong, asOf) ==
    Batch([s \in DOMAIN universe |-> Outcome(universe[s], strong)], asOf)

-----------------------------------------------------------------------------
(* A signal is backed by the whole series, not by one indicator: a series   *)
(* that is bought closes above where its return began, gained more than it  *)
(* lost at the end, rises on volume in the window the volume is read from,  *)
(* and the same series with its moves turned round is never bought too.     *)
SidesAreUnanimous(series, turned, strong) ==
    LET bars == series.bars IN
    \A side \in {Outcome(series, strong)} \cap {"BUY", "SELL"} :
      Valid(series) =>
          /\ Outcome(turned, strong) # side
          /\ LET ahead == IF side = "BUY" THEN bars ELSE turned.bars
             IN  Past(Smoothed(Gains(ahead)), Smoothed(Losses(ahead)))
          /\ \E i \in Len(bars) - VolumeLookback + 2 .. Len(bars) :
               bars[i].volume > 0 /\ (IF side = "BUY" THEN Move(bars, i - 1) > 0
                                      ELSE Move(bars, i - 1) < 0)

(* Every symbol of the universe is a signal or is counted under one reason, *)
(* and no signal comes from bars with a hole or without volume.             *)
EverySymbolCounts(universe, strong, asOf) ==
    \A batch \in {Evaluate(universe, strong, asOf)} :
        /\ Cardinality(batch.signals) + Total(batch.skipped) = batch.universe
        /\ \A s \in batch.signals :
             LET bars == universe[s.symbol].bars
             IN  /\ s.expires > s.asOf
                 /\ 2 * Len(SelectSeq(LastBars(bars, VolumeLookback), LAMBDA b : b.volume = 0))
                      <= VolumeLookback
                 /\ \A i \in 2 .. Len(bars) :
                      LET gap == bars[i].at - bars[i - 1].at IN
                      \/ BarSeconds >= 86400
                      \/ gap <= 69 /\ (10 * gap * 3600 < 11 * BarSeconds \/ gap >= 14)
=============================================================================
