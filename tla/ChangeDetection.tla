--------------------------- MODULE ChangeDetection ---------------------------
(***************************************************************************)
(* What deserves attention: the rules of brain/research/change_detection.py*)
(* over the stored facts of one asset, and the score of                    *)
(* brain/research/priority.py that orders the research queue.              *)
(*                                                                         *)
(* The facts of an asset are a record                                      *)
(*   [closes, earnings, thesis, researched, stake, lists]                  *)
(* : its stored closes, the days of its earnings events, its active thesis *)
(* (None for an assessment: it has none), the day of its newest research document (or Never), the      *)
(* largest share of a paper portfolio it stands for in percent, and the    *)
(* number of watchlists it is on.  Magnitudes and scores are fractions of  *)
(* Full.                                                                   *)
(***************************************************************************)
EXTENDS Integers, Sequences, FiniteSets

CONSTANT MoveWindow     \* large_move_window, in closes

ASSUME DetectionAssumption == MoveWindow \in Nat \ {0}

\* ChangeDetectionConfig
ShockPercent == 5
MovePercent == 15
EarningsDays == 7
StaleResearchDays == 30
ThesisStaleDays == 45

None == "none"
Never == -1
Full == 10000

Assessments == {"THESIS_INTACT", "THESIS_STRENGTHENED", "THESIS_WEAKENED",
                "THESIS_INVALIDATED", "INSUFFICIENT_EVIDENCE"}

ChangeTypes == {"price_shock", "large_move", "earnings_release",
                "regime_change", "thesis_violation", "stale_research"}

Change(a, type, magnitude) == [asset |-> a, type |-> type, magnitude |-> magnitude]

Distance(x, y) == IF x >= y THEN x - y ELSE y - x

AtMost(limit, x) == IF x <= limit THEN x ELSE limit

\* A mutant of Scaled: no saturation.
ScaledFreely(num, den, thrNum, thrDen) == (num * thrDen * Full) \div (2 * thrNum * den)

\* _scaled: half at the threshold, saturated at twice the threshold.  The
\* observation is the fraction num / den, the threshold likewise.
Scaled(num, den, thrNum, thrDen) ==
    AtMost(Full, (num * thrDen * Full) \div (2 * thrNum * den))

\* abs(new / old - 1) against a threshold in percent
Breaches(new, old, percent) == Distance(new, old) * 100 >= percent * old

MoveMagnitude(new, old, percent) == Scaled(Distance(new, old), old, percent, 100)

LastOf(s, n) == SubSeq(s, IF Len(s) > n THEN Len(s) - n + 1 ELSE 1, Len(s))

\* _price_changes
PriceChanges(a, closes) ==
    LET recent == LastOf(closes, MoveWindow + 1)
        n == Len(recent)
        shock == n >= 2 /\ Breaches(recent[n], recent[n - 1], ShockPercent)
        move == n >= 2 /\ n > MoveWindow /\ Breaches(recent[n], recent[1], MovePercent)
    IN  (IF shock
         THEN <<Change(a, "price_shock", MoveMagnitude(recent[n], recent[n - 1], ShockPercent))>>
         ELSE <<>>)
        \o
        (IF move
         THEN <<Change(a, "large_move", MoveMagnitude(recent[n], recent[1], MovePercent))>>
         ELSE <<>>)

\* _earnings_changes: one change for EVERY event of the last days, so that
\* several of them share a queue key.
EarningsChanges(a, earnings, day) ==
    LET recent == {i \in DOMAIN earnings : earnings[i] >= day - EarningsDays}
    IN  [i \in 1..Cardinality(recent) |-> Change(a, "earnings_release", Full)]

\* _thesis_changes: a broken thesis, or one not reviewed for long.
ThesisChanges(a, thesis, day) ==
    LET age == IF thesis.reviewed = Never THEN ThesisStaleDays + 1 ELSE day - thesis.reviewed
        magnitude ==
            CASE thesis.assessment = "THESIS_INVALIDATED" -> Full
              [] thesis.assessment = "THESIS_WEAKENED" -> (7 * Full) \div 10
              [] OTHER -> IF age > ThesisStaleDays
                          THEN Scaled(age, 1, ThesisStaleDays, 1) ELSE 0
    IN  IF magnitude = 0 THEN <<>> ELSE <<Change(a, "thesis_violation", magnitude)>>

\* _stale_research
StaleResearch(a, researched, day) ==
    LET age == IF researched = Never THEN StaleResearchDays + 1 ELSE day - researched
    IN  IF age <= StaleResearchDays THEN <<>>
        ELSE <<Change(a, "stale_research", Scaled(age, 1, StaleResearchDays, 1))>>

\* detect_for_asset
DetectForAsset(a, facts, day) ==
    PriceChanges(a, facts.closes)
    \o EarningsChanges(a, facts.earnings, day)
    \o (IF facts.thesis.assessment = None THEN <<>> ELSE ThesisChanges(a, facts.thesis, day))
    \o StaleResearch(a, facts.researched, day)

\* detect_regime_change: the two latest observations, oldest first.  A regime
\* is [trend, other]; the result is a magnitude, 0 for no change.
RegimeMagnitude(observed) ==
    LET n == Len(observed)
    IN  IF n < 2 THEN 0
        ELSE CASE observed[n].trend # observed[n - 1].trend -> Full
               [] observed[n].other # observed[n - 1].other -> Full \div 2
               [] OTHER -> 0

\* _regime_changes: only assets that are held or watched hear of it.
RegimeChanges(a, facts, observed) ==
    IF RegimeMagnitude(observed) > 0 /\ (facts.lists > 0 \/ facts.stake > 0)
    THEN <<Change(a, "regime_change", RegimeMagnitude(observed))>>
    ELSE <<>>

-----------------------------------------------------------------------------
\* ResearchPriorityScorer

\* PriorityWeights, in percent
ImportanceWeight == 40
NoveltyWeight == 20
PortfolioWeight == 25
WatchlistWeight == 15

NoveltySaturationDays == 30

\* _novelty
Novelty(facts, day) ==
    IF facts.researched = Never THEN Full
    ELSE AtMost(Full, ((day - facts.researched) * Full) \div (2 * NoveltySaturationDays))

\* _portfolio_impact, of a cost basis given as a percentage of initial cash
PortfolioImpact(facts) == AtMost(Full, facts.stake * (Full \div 100))

\* _watchlist_relevance
WatchlistRelevance(facts) ==
    IF facts.lists = 0 THEN 0
    ELSE AtMost(Full, (6 * Full) \div 10 + ((2 * Full) \div 10) * (facts.lists - 1))

\* score
Score(change, facts, day) ==
    (ImportanceWeight * change.magnitude + NoveltyWeight * Novelty(facts, day)
       + PortfolioWeight * PortfolioImpact(facts)
       + WatchlistWeight * WatchlistRelevance(facts)) \div 100

-----------------------------------------------------------------------------
(***************************************************************************)
(* Whether a detected change justifies a language model, and at what tier: *)
(* ai/escalation.py.  It recommends; nothing in it calls the gateway.      *)
(***************************************************************************)

\* NON_ESCALATING: facts the quantitative layer already handles
NonEscalating == {"price_shock", "large_move", "stale_research"}

\* _TRIGGER_FOR: a closed table
TriggerFor ==
    [earnings_release |-> "earnings_release",
     regime_change |-> "regime_shift",
     thesis_violation |-> "thesis_contradiction"]

MaterialityThreshold == (6 * Full) \div 10
ThesisMaterialityThreshold == (4 * Full) \div 10

Threshold(kind) ==
    IF kind = "thesis_contradiction" THEN ThesisMaterialityThreshold
    ELSE MaterialityThreshold

Trigger(kind, outcome, task, risk) ==
    [kind |-> kind, outcome |-> outcome, task |-> task, risk |-> risk]

\* A mutant of Evaluate: one bar for every kind of event, and a higher one.
EvaluateWithOneBar(type, magnitude, contradictions) ==
    IF type \in NonEscalating THEN Trigger(None, "deterministic_only", None, "medium")
    ELSE IF magnitude < (7 * Full) \div 10 + 1
    THEN Trigger(TriggerFor[type], "no_action", None, "medium")
    ELSE Trigger(TriggerFor[type], "frontier_high", "thesis_review", "high")

\* evaluate: the cheapest refusal first.
Evaluate(type, magnitude, contradictions) ==
    IF type \in NonEscalating THEN Trigger(None, "deterministic_only", None, "medium")
    ELSE IF type \notin DOMAIN TriggerFor THEN Trigger(None, "no_action", None, "medium")
    ELSE LET kind == TriggerFor[type]
         IN  CASE magnitude < Threshold(kind) ->
                    Trigger(kind, "no_action", None, "medium")
               [] kind = "thesis_contradiction" ->
                    Trigger(kind, "frontier_high", "thesis_review", "high")
               [] contradictions ->
                    Trigger(kind, "frontier_high", "research_synthesis", "high")
               [] OTHER ->
                    Trigger(kind, "frontier", "research_synthesis", "medium")

\* AITrigger.escalate
Escalates(trigger) == trigger.outcome \in {"local", "frontier", "frontier_high"}

\* _recommendation: computed from a queue row whenever it is read.
Recommendation(row) == Evaluate(row.type, row.importance, FALSE)
=============================================================================
