---------------------------- MODULE LearningMetrics ----------------------------
(***************************************************************************)
(* What the learning loop measures: brain/learning/metrics.py over the     *)
(* stored signals, bars, documents, trades and thesis reviews, and the     *)
(* periods of brain/learning/engine.py.                                    *)
(***************************************************************************)
EXTENDS Signals

CONSTANTS
    MonthDays,      \* days in a month
    Horizon,        \* horizon_days
    Company,        \* [sector, cap] of an asset; cap in billions, or NoCap
    Closings        \* [regime, r, stop] of the trades that close: the regime
                    \* in the journal, the R-multiple in tenths, whether
                    \* there was a stop

ASSUME MetricsAssumption ==
    {MonthDays, Horizon} \subseteq Nat \ {0}

VARIABLES
    documents,      \* committed research documents
    trades          \* closed trades

recordVars == <<documents, trades>>

NoCap == -1

\* ReviewKind, in months
Months == [monthly |-> 1, quarterly |-> 3, annual |-> 12]
Kinds == DOMAIN Months

RecordsInit == documents = {} /\ trades = {}

\* A research document, by its transaction's day.
AddDocument(a) ==
    /\ Happens
    /\ documents' = documents \cup {[id |-> events, asset |-> a, day |-> today]}
    /\ UNCHANGED trades

\* A closed trade, with the regime noted in its journal.
CloseTrade(a, closing) ==
    /\ Happens
    /\ trades' = trades \cup {[id |-> events, asset |-> a, day |-> today, regime |-> closing.regime,
                              r |-> closing.r, stop |-> closing.stop]}
    /\ UNCHANGED documents

-----------------------------------------------------------------------------
\* A mutant of PeriodBounds: the running period.
PeriodBoundsRunning(kind, asOf) ==
    LET length == MonthDays * Months[kind]
        this == (asOf \div length) * length
    IN  [start |-> this, end |-> this + length - 1]

\* period_bounds: the period before the one that contains asOf.
PeriodBounds(kind, asOf) ==
    LET length == MonthDays * Months[kind]
        this == (asOf \div length) * length
    IN  [start |-> this - length, end |-> this - 1]

During(period, rows) == {row \in rows : period.start <= row.day /\ row.day <= period.end}

LastDay(days) == CHOOSE day \in days : \A other \in days : other <= day
FirstDay(days) == CHOOSE day \in days : \A other \in days : day <= other

NoMove == [from |-> 0, to |-> 0]

\* A mutant of ForwardReturn: up to the newest bar.
ForwardReturnToDate(a, anchor) ==
    LET before == {day \in BarDays(a) : day <= anchor}
        window == {day \in BarDays(a) : anchor < day}
    IN  IF before = {} \/ window = {} THEN NoMove
        ELSE [from |-> history[a][LastDay(before)], to |-> history[a][LastDay(window)]]

\* forward_return: the last close at or before the anchor and the last one
\* stored within the horizon after it.
ForwardReturn(a, anchor) ==
    LET before == {day \in BarDays(a) : day <= anchor}
        window == {day \in BarDays(a) : anchor < day /\ day <= anchor + Horizon}
    IN  IF before = {} \/ window = {} THEN NoMove
        ELSE [from |-> history[a][LastDay(before)], to |-> history[a][LastDay(window)]]

-----------------------------------------------------------------------------
\* DIRECTIONAL_SIGNALS: the sign that confirms.
Directional == [ACCUMULATE |-> 1, REDUCE |-> -1, EXIT_REVIEW |-> -1]

MoveOf(signal) == ForwardReturn(signal.asset, signal.day)

OutcomeOf(category, move) ==
    CASE move = NoMove -> "unresolved"
      [] Directional[category] * (move.to - move.from) > 0 -> "correct"
      [] OTHER -> "incorrect"

Outcome(signal) == OutcomeOf(signal.category, MoveOf(signal))

Scored(period) == {signal \in During(period, signals) : signal.category \in DOMAIN Directional}

\* Assets with a resolved warning in the period.
Warned(period) ==
    {signal.asset : signal \in
        {s \in Scored(period) : Directional[s.category] < 0 /\ Outcome(s) # "unresolved"}}

\* _count_false_negatives: drops of 15 percent from the period's start.
FalseNegatives(period) ==
    Cardinality({a \in Assets \ Warned(period) :
        LET move == ForwardReturn(a, period.start)
        IN  move # NoMove /\ move.to * 100 <= 85 * move.from})

\* signal_accuracy; overall is the sum of the categories.
SignalAccuracy(period) ==
    [scores |-> [category \in DOMAIN Directional |->
                   [outcome \in {"correct", "incorrect", "unresolved"} |->
                      Cardinality({s \in Scored(period) : s.category = category /\ Outcome(s) = outcome})]],
     missed |-> FalseNegatives(period)]

\* research_outcomes
ResearchOutcomes(period) ==
    LET found == During(period, documents)
        move == [d \in found |-> ForwardReturn(d.asset, d.day)]
        resolved == {d \in found : move[d] # NoMove}
    IN  [documents |-> Cardinality(found), resolved |-> Cardinality(resolved),
         positive |-> Cardinality({d \in resolved : move[d].to > move[d].from}),
         negative |-> Cardinality({d \in resolved : move[d].to < move[d].from})]

\* thesis_accuracy: the period is not used; the days run from the thesis's
\* creation (day 0) to its FIRST invalidating review.
ThesisAccuracy ==
    LET kept == {a \in Assets : theses[a].assessment # NoThesis}
        invalidating(a) == {r.day : r \in {r \in reviewed : r.asset = a /\ r.to = "THESIS_INVALIDATED"}}
    IN  [total |-> Cardinality(kept),
         now |-> [assessment \in Verdicts |->
                    Cardinality({a \in kept : theses[a].assessment = assessment})],
         reviews |-> Cardinality(reviewed),
         invalidations |-> {[asset |-> a, days |-> FirstDay(invalidating(a))] :
                              a \in {a \in kept : invalidating(a) # {}}}]

\* _cap_bucket
CapBucket(cap) ==
    CASE cap = NoCap -> "unknown" [] cap < 2 -> "small" [] cap < 10 -> "mid" [] OTHER -> "large"

SumR(rows) == MapThenSumSet(LAMBDA t : t.r, rows)

\* _group_stats: win rate, expectancy and profit factor as their terms.
GroupStats(rows) ==
    [trades |-> Cardinality(rows), wins |-> Cardinality({t \in rows : t.r > 0}),
     sum |-> SumR(rows), profit |-> SumR({t \in rows : t.r > 0}), loss |-> SumR({t \in rows : t.r < 0})]

GroupedBy(Label(_), rows) ==
    [label \in {Label(t) : t \in rows} |-> GroupStats({t \in rows : Label(t) = label})]

\* strategy_performance
StrategyOf(closed) ==
    LET rows == {t \in closed : t.stop}
    IN  [regime |-> GroupedBy(LAMBDA t : t.regime, rows),
         sector |-> GroupedBy(LAMBDA t : Company[t.asset].sector, rows),
         cap |-> GroupedBy(LAMBDA t : CapBucket(Company[t.asset].cap), rows),
         unscored |-> Cardinality(closed \ rows)]

StrategyPerformance(period) == StrategyOf(During(period, trades))

\* build_report
BuildReport(kind, asOf) ==
    LET period == PeriodBounds(kind, asOf)
    IN  [kind |-> kind, start |-> period.start, end |-> period.end, generated |-> today,
         signals |-> SignalAccuracy(period), research |-> ResearchOutcomes(period),
         theses |-> ThesisAccuracy, strategy |-> StrategyPerformance(period)]
=============================================================================
