------------------------------ MODULE SignalRules ------------------------------
(***************************************************************************)
(* Which attention signal an asset deserves: brain/signals/rules.py and     *)
(* schemas.py over the context of brain/signals/context.py.                *)
(*                                                                         *)
(* A context is a record                                                   *)
(*   [day, quant, regime, thesis, researched, top, cost, watched, pe]      *)
(* : what the closes say, the newest regime observation, the active thesis *)
(* (assessment NoThesis for none), whether a research document exists, the *)
(* score (in percent) and the number of reasons of the first open entry of *)
(* the queue, the average cost of an open position (0 for none), watchlist *)
(* membership and the verdict on the P/E ratio.                            *)
(***************************************************************************)
EXTENDS RegimeDetector

CONSTANTS
    TrendWindow,        \* closes in the long average (200)
    MomentumWindow,     \* _MOMENTUM_WINDOW
    RsiPeriod           \* closes in the RSI (14)

ASSUME WindowAssumption == {TrendWindow, MomentumWindow, RsiPeriod} \subseteq Nat \ {0}

ThesisStaleDays == 45
TriggerScore == 60          \* RESEARCH_QUEUE_TRIGGER_SCORE, in percent
DrawdownPercent == 20       \* DRAWDOWN_EXIT_REVIEW
Overbought == 75            \* RSI_OVERBOUGHT

NoThesis == "none"
Never == -1
Full == 10000
Broken == {"THESIS_INVALIDATED", "THESIS_WEAKENED"}
Sound == {"THESIS_INTACT", "THESIS_STRENGTHENED"}
NoRegime == [trend |-> "none", risk |-> "none"]

Categories == {"WATCH", "RESEARCH", "ACCUMULATE", "REDUCE", "EXIT_REVIEW", "THESIS_REVIEW"}

-----------------------------------------------------------------------------
\* QuantView

Rise(closes, i) == IF closes[i] > closes[i - 1] THEN closes[i] - closes[i - 1] ELSE 0
Fall(closes, i) == IF closes[i] < closes[i - 1] THEN closes[i - 1] - closes[i] ELSE 0

\* rsi: Wilder's averages, both scaled by the same power of the period.
Smoothed(moves, n) ==
    LET avg[i \in RsiPeriod..n] ==
            IF i = RsiPeriod THEN Total(SubSeq(moves, 1, RsiPeriod))
            ELSE avg[i - 1] * (RsiPeriod - 1) + moves[i] * RsiPeriod ^ (i - RsiPeriod)
    IN  avg[n]

\* The last RSI is above Overbought; without a fall it is 100.
Extended(closes) ==
    LET n == Len(closes) - 1
        gain == Smoothed([i \in 1..n |-> Rise(closes, i + 1)], n)
        loss == Smoothed([i \in 1..n |-> Fall(closes, i + 1)], n)
    IN  /\ n >= RsiPeriod
        /\ loss = 0 \/ gain * 100 > Overbought * (gain + loss)

\* _quant_view, above_long_trend, positive_momentum.  last is 0 when no close
\* is stored.
QuantView(closes) ==
    LET n == Len(closes)
        last == AverageOver(closes, 1)
        past == closes[n - MomentumWindow]
    IN  [last |-> IF n = 0 THEN 0 ELSE closes[n],
         long |-> CASE n < TrendWindow -> "unknown"
                    [] Exceeds(last, AverageOver(closes, TrendWindow)) -> "above"
                    [] OTHER -> "below",
         momentum |-> CASE n <= MomentumWindow -> "unknown"
                        [] closes[n] > past -> "up"
                        [] closes[n] < past -> "down"
                        [] OTHER -> "flat",
         extended |-> n > 0 /\ Extended(closes)]

-----------------------------------------------------------------------------
\* Evidence is a sequence of [kind, stance].

Says(kind, stance) == <<[kind |-> kind, stance |-> stance]>>

When(condition, evidence) == IF condition THEN evidence ELSE <<>>

Stance(evidence, stance) == Cardinality({i \in DOMAIN evidence : evidence[i].stance = stance})

\* compute_confidence
Confidence(evidence) ==
    LET supporting == Stance(evidence, "supports")
        weight == 2 * supporting + 2 * Stance(evidence, "contradicts") + Stance(evidence, "unknown")
    IN  IF weight = 0 THEN 0 ELSE (2 * supporting * Full) \div weight

\* What a rule returns: None of the code is fires = FALSE.
Verdict(category, fires, evidence) ==
    [category |-> category, fires |-> fires, evidence |-> evidence]

IsHeld(c) == c.cost > 0
HasThesis(c) == c.thesis.assessment # NoThesis

\* thesis_review_rule: weakened, invalidated, or long unreviewed.
ThesisReview(c) ==
    LET age == IF c.thesis.reviewed = Never THEN ThesisStaleDays + 1
               ELSE c.day - c.thesis.reviewed
    IN  Verdict("THESIS_REVIEW",
                HasThesis(c) /\ (c.thesis.assessment \in Broken \/ age > ThesisStaleDays),
                Says("thesis", "supports") \o When(IsHeld(c), Says("position", "supports")))

\* The code compares floats, last / cost - 1 <= -0.20.  A loss of exactly 20%
\* does not fire: 8 / 10 - 1 is -0.19999999999999996, and so it is for every
\* whole price; with cents (0.04 / 0.05) the quotient may round the other way.
InDrawdown(c) == c.quant.last > 0 /\ c.quant.last * 100 < (100 - DrawdownPercent) * c.cost

\* exit_review_rule
ExitReview(c) ==
    LET invalid == c.thesis.assessment = "THESIS_INVALIDATED"
        valued == CASE c.quant.last = 0 -> "unknown"
                    [] InDrawdown(c) -> "supports"
                    [] OTHER -> "contradicts"
    IN  Verdict("EXIT_REVIEW",
                IsHeld(c) /\ (invalid \/ InDrawdown(c) \/ c.quant.long = "below"),
                When(invalid, Says("thesis", "supports"))
                \o Says("position", valued)
                \o When(c.quant.long = "below", Says("quant", "supports"))
                \o When(c.quant.long = "unknown", Says("quant", "unknown")))

\* reduce_rule
Reduce(c) ==
    LET riskOff == c.regime.risk = "RISK_OFF"
        bearish == c.regime.trend = "BEARISH"
        falling == c.quant.momentum = "down"
    IN  Verdict("REDUCE",
                /\ IsHeld(c) /\ c.thesis.assessment \notin Broken
                /\ riskOff \/ bearish \/ falling,
                When(riskOff, Says("regime", "supports"))
                \o When(bearish, Says("regime", "supports"))
                \o When(c.regime = NoRegime, Says("regime", "unknown"))
                \o When(falling, Says("quant", "supports"))
                \o When(c.quant.momentum = "unknown", Says("quant", "unknown"))
                \o When(HasThesis(c), Says("thesis", "contradicts")))

\* accumulate_rule: an unknown P/E does not block, it is recorded.
Accumulate(c) ==
    Verdict("ACCUMULATE",
            /\ c.thesis.assessment \in Sound /\ c.regime.trend = "BULLISH"
            /\ c.quant.momentum = "up" /\ c.pe # "high",
            Says("thesis", "supports") \o Says("regime", "supports") \o Says("quant", "supports")
            \o Says("valuation", IF c.pe = "unknown" THEN "unknown" ELSE "supports")
            \o When(c.quant.extended, Says("quant", "contradicts")))

\* research_rule: the entry and at most four of its reasons.
ResearchWaits(c) ==
    Verdict("RESEARCH", c.top.score >= TriggerScore,
            LET reasons == IF c.top.reasons > 4 THEN 4 ELSE c.top.reasons
            IN  [i \in 1..(reasons + 1) |-> [kind |-> "research", stance |-> "supports"]])

\* watch_rule
Watch(c) ==
    Verdict("WATCH", c.watched \/ IsHeld(c),
            When(c.watched, Says("research", "supports"))
            \o When(IsHeld(c), Says("position", "supports"))
            \o When(~c.researched, Says("research", "unknown"))
            \o When(c.regime # NoRegime, Says("regime", "supports"))
            \o When(c.quant.last = 0, Says("quant", "unknown")))

\* A mutant of Rules: the opportunity before the warnings.
RulesOpportunityFirst(c) ==
    <<ThesisReview(c), Accumulate(c), ExitReview(c), Reduce(c), ResearchWaits(c), Watch(c)>>

\* RULES: most severe first.
Rules(c) ==
    <<ThesisReview(c), ExitReview(c), Reduce(c), Accumulate(c), ResearchWaits(c), Watch(c)>>

\* generate_for_asset: the first rule that fires, if one does.
SignalsFor(c) ==
    LET rules == Rules(c)
        first == {i \in DOMAIN rules : rules[i].fires /\ \A j \in 1..(i - 1) : ~rules[j].fires}
    IN  {rules[i] : i \in first}
=============================================================================
