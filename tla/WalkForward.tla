---------------------------- MODULE WalkForward -----------------------------
(***************************************************************************)
(* The pure part of the experiment framework: the half-open periods of     *)
(* experiments/config.py, the folds and leakage controls of                *)
(* experiments/walkforward.py, the index windows of                        *)
(* backtesting/walk_forward.py and the provenance rule of                  *)
(* experiments/runner.py.                                                  *)
(*                                                                         *)
(* Days are integers.  A series is a function from the days on which a     *)
(* ticker printed a bar to its bars, so it is in time order and, as after  *)
(* experiments/data.py align(), holds one bar a day.                       *)
(***************************************************************************)
EXTENDS Integers, Sequences, FiniteSets, SequencesExt, Folds

Period(a, b) == [start |-> a, end |-> b]

\* Period.contains: half-open, so consecutive periods share no bar.
InPeriod(p, day) == p.start <= day /\ day < p.end

\* ExperimentConfig._check_period_ordering, over the periods that are given.
OrderedPeriods(ps) == \A i \in 1..(Len(ps) - 1) : ps[i + 1].start >= ps[i].end

-----------------------------------------------------------------------------
\* The starts of the training windows that rolling_folds visits: it goes on
\* while the whole fold still ends inside the period.
FoldSpan(plan) == plan.train + plan.validation + plan.test

FoldStep(plan) == IF plan.step = 0 THEN plan.test ELSE plan.step

FoldStarts(period, plan) ==
    {s \in period.start..period.end :
        /\ (s - period.start) % FoldStep(plan) = 0
        /\ s + FoldSpan(plan) <= period.end}

\* Mutant: the test window opens where the training window ends, on the days
\* the validation window already used.
FoldOverlapping(period, plan, s) ==
    LET trained   == s + plan.train
        validated == trained + plan.validation
    IN  [train      |-> Period(IF plan.anchored THEN period.start ELSE s, trained),
         validation |-> Period(trained, validated),
         test       |-> Period(trained, validated + plan.test)]

\* One fold; an empty validation period stands for None.
Fold(period, plan, s) ==
    LET trained   == s + plan.train
        validated == trained + plan.validation
    IN  [train      |-> Period(IF plan.anchored THEN period.start ELSE s, trained),
         validation |-> Period(trained, validated),
         test       |-> Period(validated, validated + plan.test)]

RollingFolds(period, plan) == {Fold(period, plan, s) : s \in FoldStarts(period, plan)}

\* available_at: a bar stamped on a day is known only after the publication lag.
AvailableAt(day, lag) == day + lag

\* The n latest days of a set of days.
LatestDays(days, n) == {d \in days : Cardinality({e \in days : e > d}) < n}

\* slice_bars: the bars of the period, and before them at most warmup bars
\* that were available before it starts.
SliceDays(days, period, warmup, lag) ==
    {d \in days : InPeriod(period, AvailableAt(d, lag))}
        \union LatestDays({d \in days : AvailableAt(d, lag) < period.start}, warmup)

\* assert_no_future_bars: a decision at the cutoff may see no later bar.
NoFutureBars(days, cutoff) == \A d \in days : d < cutoff

-----------------------------------------------------------------------------
\* WalkForwardValidator.split: windows by index over the sorted timeline.
SplitStarts(timeline, plan) ==
    {s \in 0..Len(timeline) :
        /\ s % FoldStep(plan) = 0
        /\ s + plan.train + plan.test <= Len(timeline)}

SplitWindow(timeline, plan, s) ==
    [trainStart |-> timeline[s + 1],
     trainEnd   |-> timeline[s + plan.train],
     testStart  |-> timeline[s + plan.train + 1],
     testEnd    |-> timeline[s + plan.train + plan.test]]

Split(timeline, plan) == {SplitWindow(timeline, plan, s) : s \in SplitStarts(timeline, plan)}

-----------------------------------------------------------------------------
\* describe_data: the quality follows from the sources the bars carry.
SyntheticMarkers == {"mock", "synthetic", "fake", "generated", "test"}

\* Mutant: one vendor bar is enough to call the data vendor data.
QualityOptimistic(sources) ==
    IF sources = {} THEN "unknown"
    ELSE IF sources \subseteq SyntheticMarkers THEN "synthetic" ELSE "vendor"

Quality(sources) ==
    IF sources = {} THEN "unknown"
    ELSE IF sources \intersect SyntheticMarkers # {} THEN "synthetic" ELSE "vendor"

\* certifiable: real data, at least one bar, and a test period in the config.
Certifiable(quality, bars, testDefined) == quality = "vendor" /\ bars > 0 /\ testDefined
=============================================================================
