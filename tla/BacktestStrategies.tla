------------------------- MODULE BacktestStrategies -------------------------
(***************************************************************************)
(* The strategies of backtesting/strategy.py and the sizers of             *)
(* backtesting/sizing.py.  A strategy is a function of what it remembers   *)
(* and of the MarketView it is handed; what it remembers starts as         *)
(* on_start leaves it.                                                     *)
(*                                                                         *)
(* A view is [now, bars]: bars[ticker] is a function from the days up to   *)
(* now on which the ticker printed a bar to [open, close].                 *)
(***************************************************************************)
EXTENDS Integers, Sequences, FiniteSetsExt, SequencesExt

CONSTANT Universe     \* the tickers, in the order the strategy visits them

Signal(ticker, action, strength) ==
    [ticker |-> ticker, action |-> action, strength |-> strength]

\* MarketView.is_current: the ticker printed a bar on this very timestamp.
IsCurrent(view, ticker) == view.now \in DOMAIN view.bars[ticker]

\* The days of the n newest bars of a ticker.
NewestDays(view, ticker, n) ==
    {d \in DOMAIN view.bars[ticker] :
        Cardinality({e \in DOMAIN view.bars[ticker] : e > d}) < n}

\* sma(closes, n)[-1], as the sum over the window: the divisor is put on the
\* other side of the comparison that uses it.
SumOfCloses(view, ticker, n) ==
    MapThenSumSet(LAMBDA d : view.bars[ticker][d].close, NewestDays(view, ticker, n))

-----------------------------------------------------------------------------
\* BuyAndHoldStrategy: a ticker enters _bought when its order is issued.
BuyAndHold(mem, view) ==
    LET due == SelectSeq(Universe, LAMBDA t : t \notin mem.held /\ IsCurrent(view, t))
    IN  [mem     |-> [mem EXCEPT !.held = @ \union ToSet(due)],
         signals |-> [i \in DOMAIN due |-> Signal(due[i], "buy", 100)]]

\* MovingAverageCrossStrategy: long while the fast average is above the slow one.
AboveSlow(mem, view, t) ==
    SumOfCloses(view, t, mem.fast) * mem.slow > SumOfCloses(view, t, mem.slow) * mem.fast

Crossed(mem, view, t) ==
    /\ IsCurrent(view, t)
    /\ Cardinality(DOMAIN view.bars[t]) >= mem.slow
    /\ AboveSlow(mem, view, t) # (t \in mem.held)

MovingAverageCross(mem, view) ==
    LET crossed == SelectSeq(Universe, LAMBDA t : Crossed(mem, view, t))
        ups     == {t \in ToSet(crossed) : t \notin mem.held}
    IN  [mem     |-> [mem EXCEPT !.held = (@ \union ups) \ (ToSet(crossed) \ ups)],
         signals |-> [i \in DOMAIN crossed |->
                        Signal(crossed[i], IF crossed[i] \in ups THEN "buy" ELSE "sell", 100)]]

-----------------------------------------------------------------------------
\* FixedFractionSizer: a fraction of the equity it is told, never more than cash.
FixedFraction(sizer, strength, price, equity, cash) ==
    LET wanted == (equity * sizer.percent * strength) \div 10000
        budget == IF wanted < cash THEN wanted ELSE cash
    IN  IF price <= 0 \/ budget <= 0 THEN 0 ELSE budget \div price

\* FixedQuantitySizer.
FixedQuantity(sizer, strength, price, equity, cash) ==
    LET affordable == IF price > 0 THEN cash \div price ELSE 0
        wanted     == (sizer.percent * strength) \div 100
    IN  IF wanted < affordable THEN wanted ELSE affordable

\* RiskBasedSizer over quant.performance.risk.position_size: a stop stopPercent
\* below the price costs percent of the equity.
RiskBased(sizer, strength, price, equity, cash) ==
    LET wanted     == (equity * sizer.percent * strength) \div (100 * price * sizer.stopPercent)
        affordable == cash \div price
    IN  IF wanted < affordable THEN wanted ELSE affordable

StandardSize(sizer, strength, price, equity, cash) ==
    CASE sizer.kind = "fraction" -> FixedFraction(sizer, strength, price, equity, cash)
      [] sizer.kind = "quantity" -> FixedQuantity(sizer, strength, price, equity, cash)
      [] sizer.kind = "risk"     -> RiskBased(sizer, strength, price, equity, cash)
=============================================================================
