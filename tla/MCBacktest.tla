----------------------------- MODULE MCBacktest -----------------------------
(***************************************************************************)
(* Instance of BacktestRuns for TLC: two tickers over four days.  The      *)
(* first moves between two prices and may miss a day; the second keeps one *)
(* price on one of a few calendars.  The second run's history is the first *)
(* run's with one bar of the moving ticker changed, added or removed.      *)
(***************************************************************************)
EXTENDS BacktestRuns, TLC

CONSTANTS base, twin, moving, steady

MCRuns == {base, twin}
MCTickers == {moving, steady}
MCUniverse == <<moving, steady>>

Bar(open, close) == [open |-> open, close |-> close]

MovingBars == {Bar(10, 10), Bar(10, 20), Bar(20, 10)}
Missing == Bar(0, 0)

Calendars == {{1, 3, 4}, {2, 4}}

Series(cells) == [d \in {e \in 1..Days : cells[e] # Missing} |-> cells[d]]

MarketOf(cells, calendar) ==
    [t \in MCTickers |-> IF t = moving THEN Series(cells) ELSE [d \in calendar |-> Bar(10, 10)]]

MCHistories ==
    {[r \in MCRuns |-> MarketOf(IF r = base THEN c ELSE [c EXCEPT ![d] = bar], k)] :
        c \in [1..Days -> MovingBars \union {Missing}],
        d \in 1..Days,
        bar \in MovingBars \union {Missing},
        k \in Calendars}

BuyHold == [kind |-> "buy_and_hold", held |-> {}, fast |-> 0, slow |-> 0]
Cross(fast, slow) == [kind |-> "ma_cross", held |-> {}, fast |-> fast, slow |-> slow]

Fraction(p) == [kind |-> "fraction", percent |-> p, stopPercent |-> 0]
Quantity(n) == [kind |-> "quantity", percent |-> n, stopPercent |-> 0]
RiskSized(p) == [kind |-> "risk", percent |-> p, stopPercent |-> 50]

\* A strategy of the kind the engine's tests use: it enters while a ticker is
\* cheap and sells half of the position while it is dear.
Dip == [kind |-> "dip", held |-> {}, fast |-> 0, slow |-> 0]

DipSignal(view, t) ==
    IF ~IsCurrent(view, t) THEN Signal(t, "hold", 100)
    ELSE IF view.bars[t][view.now].close = 10 THEN Signal(t, "buy", 50) ELSE Signal(t, "sell", 50)

MCOnBar(mem, view) ==
    IF mem.kind = "dip"
    THEN [mem |-> mem, signals |-> [i \in DOMAIN MCUniverse |-> DipSignal(view, MCUniverse[i])]]
    ELSE StandardOnBar(mem, view)

NoPlan == [train |-> 1, validation |-> 0, test |-> 1, step |-> 0, anchored |-> FALSE]

Request(mode, start, end, strategy, sizer) ==
    [mode |-> mode, start |-> start, end |-> end, known |-> TRUE, strategy |-> strategy,
     sizer |-> sizer, plan |-> NoPlan, period |-> Period(start, end + 1), warmup |-> 0,
     lag |-> 0, sources |-> [t \in MCTickers |-> "yahoo"], testDefined |-> TRUE]

Plan(train, validation, test, step, anchored) ==
    [train |-> train, validation |-> validation, test |-> test, step |-> step,
     anchored |-> anchored]

\* An experiment over one test period of its plan.
Experiment(plan, fold, warmup, lag, sources) ==
    [Request("experiment", 1, Days, Cross(1, 2), Fraction(100)) EXCEPT
        !.plan = plan, !.period = fold.test, !.warmup = warmup, !.lag = lag,
        !.sources = sources]

RealSources == [t \in MCTickers |-> "yahoo"]
MixedSources == [t \in MCTickers |-> IF t = moving THEN "yahoo" ELSE "mock"]

\* The last fold of a plan over the four days.
LastFold(plan) ==
    CHOOSE f \in RollingFolds(Period(1, Days + 1), plan) :
        \A g \in RollingFolds(Period(1, Days + 1), plan) : g.test.start <= f.test.start

ExperimentRequests ==
    {Experiment(Plan(1, 1, 1, 0, TRUE), LastFold(Plan(1, 1, 1, 0, TRUE)), 1, 0, MixedSources),
     Experiment(Plan(2, 0, 1, 1, FALSE), LastFold(Plan(2, 0, 1, 1, FALSE)), 0, 1, RealSources),
     Experiment(Plan(1, 0, 2, 0, FALSE), LastFold(Plan(1, 0, 2, 0, FALSE)), 1, 1, RealSources)}

ApiRequests ==
    {Request("api", 1, Days, BuyHold, Quantity(90)),
     Request("api", 1, Days, Cross(1, 2), Fraction(100)),
     Request("api", 1, Days, Dip, Fraction(100)),
     Request("api", 1, Days, Dip, RiskSized(40)),
     Request("api", 3, 2, BuyHold, Fraction(100))}

WalkRequests ==
    {Request("walk", w.testStart, w.testEnd, Dip, Fraction(60)) :
        w \in Split(<<1, 2, 3, 4>>, Plan(1, 0, 2, 0, FALSE))}

MCRequests == ApiRequests \union WalkRequests \union ExperimentRequests
=============================================================================
