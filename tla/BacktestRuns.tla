---------------------------- MODULE BacktestRuns ----------------------------
(***************************************************************************)
(* What the three callers of the engine hand it, and what must hold of a   *)
(* run: its orders, its two sets of books, and the isolation of the test   *)
(* periods it is scored on.                                                *)
(*                                                                         *)
(* A request is [mode, start, end, known, strategy, sizer, plan, period,   *)
(* warmup, lag, sources, testDefined]; fields a mode does not use are      *)
(* ignored.                                                                *)
(***************************************************************************)
EXTENDS Backtest, BacktestStrategies, WalkForward

\* rolling_folds refuses a plan without training or test days, and one of which
\* no fold fits the period.
ASSUME PlanAssumption ==
    \A req \in Requests : req.mode = "experiment" =>
        /\ req.plan.train \in Nat \ {0} /\ req.plan.test \in Nat \ {0}
        /\ req.plan.validation \in Nat /\ req.plan.step \in Nat
        /\ req.plan.anchored \in BOOLEAN
        /\ FoldSpan(req.plan) <= Days
        /\ req.lag \in Nat

\* Histories are stamped with days.
ASSUME HistoryAssumption ==
    \A h \in Histories, r \in Runs, t \in Tickers : DOMAIN h[r][t] \subseteq Int

Restricted(bars, days(_)) == [t \in DOMAIN bars |-> [d \in days(DOMAIN bars[t]) |-> bars[t][d]]]

\* "api": get_historical_prices(ticker, start, end) of the router.
\* "experiment": slice_bars over the period the experiment runs on; with no
\* warm-up and no lag this is _period_bars of experiments/v2_baseline.py.
\* "walk": WalkForwardValidator.run hands over the whole history.
RequestBars(req, bars) ==
    CASE req.mode = "api" -> Restricted(bars, LAMBDA D : {d \in D : req.start <= d /\ d <= req.end})
      [] req.mode = "experiment" ->
            Restricted(bars, LAMBDA D : SliceDays(D, req.period, req.warmup, req.lag))
      [] req.mode = "walk" -> bars

\* The start and end of engine.run; only the validator gives them.
RequestWindow(req, day) == req.mode = "walk" => req.start <= day /\ day <= req.end

StandardOnBar(mem, view) ==
    CASE mem.kind = "buy_and_hold" -> BuyAndHold(mem, view)
      [] mem.kind = "ma_cross"     -> MovingAverageCross(mem, view)

-----------------------------------------------------------------------------
\* The verdict runner.run attaches to an experiment over what it loaded.
LoadedSources(r) == {request.sources[t] : t \in {u \in Tickers : DOMAIN loaded[r][u] # {}}}

BarCount(r) == MapThenSumSet(LAMBDA t : Cardinality(DOMAIN loaded[r][t]), Tickers)

Certified(r) ==
    Certifiable(Quality(LoadedSources(r)), BarCount(r), request.testDefined)

-----------------------------------------------------------------------------
TradeType == [ticker : Tickers, quantity : Nat, opened : 0..Days, at : 1..Days, pnl : Int]

FillType ==
    [ticker : Tickers, side : {"buy", "sell"}, quantity : Nat \ {0}, price : Nat \ {0},
     fee : Nat, at : 1..Days, queued : 1..Days]

TypeOK ==
    /\ phase \in {"submit", "bar", "fill", "end", "done", "rejected"}
    /\ clock \in 1..(Days + 1)
    /\ \A r \in Runs :
        /\ run[r].cash \in Int
        /\ \A t \in Tickers : run[r].positions[t] \in PositionState
        /\ \A i \in DOMAIN run[r].fills : run[r].fills[i] \in FillType
        /\ \A i \in DOMAIN run[r].closed : run[r].closed[i] \in TradeType

(* No order disappears ("the refusal is recorded", docs/backtesting.md:68;   *)
(* BacktestResult.unfilled, backtesting/schemas.py:104): every order a        *)
(* strategy issued is still queued, was filled, or is listed as unfilled with *)
(* its reason, and none of them is counted twice.                            *)
OrdersAccounted ==
    \A r \in Runs :
        run[r].issued = Len(run[r].pending) + Len(run[r].fills) + Len(run[r].unfilled)

SumOf(s) ==
    LET sum[i \in 0..Len(s)] == IF i = 0 THEN 0 ELSE sum[i - 1] + s[i]
    IN  sum[Len(s)]

Cost(f) ==
    IF f.side = "buy" THEN f.quantity * f.price + f.fee ELSE f.fee - f.quantity * f.price

\* What each fill cost, how it moved the position in a ticker, and what each
\* trade in a ticker earned.
Costs(fills) == [i \in DOMAIN fills |-> Cost(fills[i])]

Moved(f, t) == IF f.ticker = t THEN Signed(f.side, f.quantity) ELSE 0

Moves(fills, t) == [i \in DOMAIN fills |-> Moved(fills[i], t)]

Earned(trade, t) == IF trade.ticker = t THEN trade.pnl ELSE 0

Earnings(trades, t) == [i \in DOMAIN trades |-> Earned(trades[i], t)]

(* The engine never spends cash it does not have, so that no equity point is *)
(* leveraged (experiments/metrics.py:173 calls leverage above one "a bug     *)
(* signal"), and its cash and positions are what its list of fills says.     *)
FillsReplay ==
    \A r \in Runs :
        /\ run[r].cash >= 0
        /\ run[r].cash = InitialCash - SumOf(Costs(run[r].fills))
        /\ \A t \in Tickers :
            run[r].positions[t].quantity = SumOf(Moves(run[r].fills, t))

(* The open lots and closed trades that the trade statistics are computed    *)
(* from tell the same story as the positions: a lot is open exactly while    *)
(* its ticker is held, at the average cost of the position, and the profits  *)
(* of the closed trades, of which every sale makes one, add up to the        *)
(* realised profit of the positions.                                         *)
TradesMatchPositions ==
    \A r \in Runs, t \in Tickers :
        LET position == run[r].positions[t]
        IN  /\ position.quantity > 0 <=> run[r].lots[t] # NoLot
            /\ position.quantity > 0 => run[r].lots[t].entry = position.cost
            /\ position.realized = SumOf(Earnings(run[r].closed, t))

(* The three accounts a result gives of one run agree: what became of each   *)
(* order, the cash and positions, and the lots and trades of the statistics  *)
(* (backtesting/engine.py, schemas.py).                                      *)
BooksAgree == OrdersAccounted /\ FillsReplay /\ TradesMatchPositions

(* The folds of an experiment keep the future out of training: in each fold  *)
(* the training, validation and test periods follow one another, the bars a  *)
(* training run may load, warm-up included, are all known before its test    *)
(* period starts, no bar loaded for a test period is known after it ends,    *)
(* the test periods of a plan that steps by its test length are disjoint,    *)
(* and a later fold would not fit.  No experiment over a generated bar is    *)
(* certified.                                                                *)
TestPeriodsSealed ==
    LET plan  == request.plan
        whole == Period(1, Days + 1)
        folds == RollingFolds(whole, plan)
    IN  request.mode = "experiment" /\ phase = "end" =>
        /\ \A f \in folds :
            /\ OrderedPeriods(<<f.train, f.validation, f.test>>)
            /\ \A r \in Runs, t \in Tickers :
                /\ NoFutureBars(SliceDays(DOMAIN hist[r][t], f.train, request.warmup, request.lag),
                                f.test.start - request.lag)
                /\ \A d \in SliceDays(DOMAIN hist[r][t], f.test, request.warmup, request.lag) :
                        AvailableAt(d, request.lag) < f.test.end
        /\ plan.step = 0 =>
            \A f, g \in folds : f # g => f.test.end <= g.test.start \/ g.test.end <= f.test.start
        /\ \A f \in folds : f.test.end <= whole.end
        /\ \E f \in folds : f.test.end + FoldStep(plan) > whole.end
        /\ \A r \in Runs, t \in Tickers :
            Certified(r) /\ DOMAIN loaded[r][t] # {} => request.sources[t] \notin SyntheticMarkers
=============================================================================
