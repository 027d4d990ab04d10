---------------------------- MODULE RegimeDetector ----------------------------
(***************************************************************************)
(* The classification of the market from a benchmark's closes:             *)
(* quant/regime/detector.py over quant/indicators.  Averages and slopes are *)
(* compared by cross-multiplication, so that nothing is rounded.           *)
(***************************************************************************)
EXTENDS Integers, Sequences, FiniteSetsExt

CONSTANTS
    ShortPeriod, LongPeriod,    \* trend_short_period, trend_long_period
    SlopeWindow,                \* trend_slope_window
    Turbulent(_)                \* whether the closes' annualized volatility
                                \* reaches volatility_threshold

ASSUME DetectorAssumption ==
    /\ {ShortPeriod, LongPeriod, SlopeWindow} \subseteq Nat
    /\ 0 < ShortPeriod /\ ShortPeriod < LongPeriod
    /\ 1 < SlopeWindow /\ SlopeWindow <= LongPeriod

Newest(s, n) == SubSeq(s, IF Len(s) > n THEN Len(s) - n + 1 ELSE 1, Len(s))

Total(s) == MapThenSumSet(LAMBDA i : s[i], DOMAIN s)

\* sma: the last average is Total / period.
AverageOver(closes, period) == [total |-> Total(Newest(closes, period)), of |-> period]

Exceeds(x, y) == x.total * y.of > y.total * x.of

\* _normalized_slope times sign exceeds trend_slope_threshold (1 / 2000).
Steep(values, sign) ==
    LET n == Len(values)
        xs == [i \in 1..n |-> i]
        products == [i \in 1..n |-> i * values[i]]
        squares == [i \in 1..n |-> i * i]
    IN  sign * (n * Total(products) - Total(xs) * Total(values)) * n * 2000
          > (n * Total(squares) - Total(xs) * Total(xs)) * Total(values)

\* _classify_trend
Trend(closes) ==
    LET price == AverageOver(closes, 1)
        short == AverageOver(closes, ShortPeriod)
        long == AverageOver(closes, LongPeriod)
        recent == Newest(closes, SlopeWindow)
    IN  CASE Len(closes) < LongPeriod -> "UNKNOWN"
          [] Exceeds(price, short) /\ Exceeds(short, long) /\ Steep(recent, 1) -> "BULLISH"
          [] Exceeds(short, price) /\ Exceeds(long, short) /\ Steep(recent, -1) -> "BEARISH"
          [] OTHER -> "SIDEWAYS"

\* _classify_volatility
Volatility(closes) ==
    CASE Len(closes) < 2 -> "UNKNOWN"
      [] Turbulent(closes) -> "HIGH_VOLATILITY"
      [] OTHER -> "LOW_VOLATILITY"

\* _classify_risk, without breadth: no caller supplies it.
Risk(trend, volatility) ==
    CASE trend = "BULLISH" /\ volatility = "LOW_VOLATILITY" -> "RISK_ON"
      [] trend = "BEARISH" /\ volatility = "HIGH_VOLATILITY" -> "RISK_OFF"
      [] OTHER -> "UNKNOWN"

\* detect
Detect(closes) ==
    [trend |-> Trend(closes), risk |-> Risk(Trend(closes), Volatility(closes))]
=============================================================================
