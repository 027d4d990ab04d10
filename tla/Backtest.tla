------------------------------ MODULE Backtest ------------------------------
(***************************************************************************)
(* The back-test engine of backtesting/engine.py and the three ways the    *)
(* repository runs it: the route of apps/api/routers/backtests.py, one     *)
(* experiment of experiments/runner.py over one period, and one test       *)
(* window of backtesting/walk_forward.py.                                  *)
(*                                                                         *)
(* The engine has the whole price history in memory from the start.  To    *)
(* say that it uses none of it too early, several runs (Runs) serve the    *)
(* same request side by side over histories of their own, in step on one   *)
(* clock; an invariant that compares two runs then says what a run may     *)
(* depend on.                                                              *)
(*                                                                         *)
(* Amounts are whole ticks, quantities whole lots; a strength is a per     *)
(* cent.  A history gives each ticker a function from the days on which it *)
(* printed a bar to [open, close].                                         *)
(***************************************************************************)
EXTENDS Integers, Sequences, PaperAccounting

CONSTANTS
    Runs,               \* the runs compared
    Tickers,
    Days,               \* the last day of any history
    Histories,          \* the tuples of histories the runs may be given
    Requests,           \* the requests served
    InitialCash,
    CommissionBps,
    SlippageBps,
    MaxRangeDays,
    LoadedBars(_, _),   \* what a request loads of a history
    InWindow(_, _),     \* is a day inside the start and end given to run()
    OnBar(_, _),        \* the strategy: what it remembers and a view
    Size(_, _, _, _, _) \* the sizer

ASSUME DaysAssumption == Days \in Nat

\* Bars are stamped with days.
ASSUME LoadedAssumption ==
    \A req \in Requests, h \in Histories, r \in Runs, t \in Tickers :
        DOMAIN LoadedBars(req, h[r])[t] \subseteq Int

\* A bar has a positive open; the price 0 stands for a bar that is not there.
ASSUME OpenAssumption ==
    \A req \in Requests, h \in Histories, r \in Runs, t \in Tickers :
        \A d \in DOMAIN LoadedBars(req, h[r])[t] :
            LoadedBars(req, h[r])[t][d].open \in Nat \ {0}

\* The rates of BacktestConfig; a commission is at most the notional.
ASSUME MoneyAssumption ==
    InitialCash \in Nat /\ SlippageBps \in Nat /\ CommissionBps \in 0..10000

VARIABLES
    hist,               \* run -> the market's history
    request,
    phase,              \* "submit", "bar", "fill", "end", "done", "rejected"
    clock,              \* the day of the timeline the loop is at
    loaded,             \* run -> bars_by_ticker, what the engine was given
    run,                \* run -> the engine's local state
    saved               \* run -> the stored result, or NoRow

vars == <<hist, request, phase, clock, loaded, run, saved>>

NoLot == [entry |-> 0, opened |-> 0]
NoRow == [stored |-> FALSE]
NoBar == 0

\* BacktestEngine.run before the loop.
Fresh(mem) ==
    [cash |-> InitialCash, positions |-> [t \in Tickers |-> Flat],
     lots |-> [t \in Tickers |-> NoLot], mem |-> mem, pending |-> <<>>, issued |-> 0,
     fills |-> <<>>, closed |-> <<>>, unfilled |-> <<>>, curve |-> <<>>]

-----------------------------------------------------------------------------
(* Record updates, one per local variable of the loop. *)

Unfilled(st, order, reason) ==
    [st EXCEPT !.unfilled = Append(st.unfilled, [ticker |-> order.ticker, reason |-> reason])]

Popped(st) == [st EXCEPT !.pending = Tail(st.pending)]

Booked(st, t, position, lot, cashDelta, fill) ==
    [st EXCEPT !.cash = st.cash + cashDelta,
               !.positions = [st.positions EXCEPT ![t] = position],
               !.lots = [st.lots EXCEPT ![t] = lot],
               !.fills = Append(st.fills, fill)]

Closed(st, trade) == [st EXCEPT !.closed = Append(st.closed, trade)]

-----------------------------------------------------------------------------
(* Filling one queued order. *)

CommissionOn(notional) == (notional * CommissionBps) \div 10000

\* slippage_price: fills are adverse.
SlippagePrice(price, action) ==
    LET adjustment == (price * SlippageBps) \div 10000
    IN  CASE action = "buy"  -> price + adjustment
          [] action = "sell" -> IF price > adjustment THEN price - adjustment ELSE 1
          [] OTHER           -> price

\* The position effects with their fees, which a buy capitalises into the
\* average cost and a sell deducts from the proceeds.
BuyEffect(position, q, price, fee) ==
    [quantity |-> position.quantity + q,
     cost     |-> Rounded(position.quantity * position.cost + q * price + fee,
                          position.quantity + q),
     realized |-> position.realized]

SellGain(position, q, price, fee) == q * (price - position.cost) - fee

SellEffect(position, q, price, fee) ==
    [quantity |-> position.quantity - q,
     cost     |-> IF position.quantity > q THEN position.cost ELSE 0,
     realized |-> position.realized + SellGain(position, q, price, fee)]

\* The largest quantity whose cost with its commission is covered by cash.
Affordable(cash, price) == (cash * 10000) \div (price * (10000 + CommissionBps))

\* Mutant: the quantity is trimmed to the price and forgets the commission.
TrimmedCarelessly(cash, price, q) == IF q * price > cash THEN cash \div price ELSE q

Trimmed(cash, price, q) ==
    IF q * price + CommissionOn(q * price) > cash THEN Affordable(cash, price) ELSE q

\* _fill_buy.  The equity the sizer is told counts this ticker's position only.
\* Where the code trims to a part of a lot, which lots cannot say, the order is
\* listed with those the sizer refuses; without any cash the trim leaves
\* nothing, and the order goes without a record.
FillBuy(st, order, price, day) ==
    LET t        == order.ticker
        position == st.positions[t]
        sized    == Size(request.sizer, order.strength, price,
                         st.cash + position.quantity * price, st.cash)
        q        == Trimmed(st.cash, price, sized)
        fee      == CommissionOn(q * price)
        effect   == BuyEffect(position, q, price, fee)
        opened   == IF st.lots[t] = NoLot THEN day ELSE st.lots[t].opened
        fill     == [ticker |-> t, side |-> "buy", quantity |-> q, price |-> price,
                     fee |-> fee, at |-> day, queued |-> order.queued]
    IN  IF sized <= 0 \/ (q <= 0 /\ st.cash > 0)
        THEN Unfilled(st, order, "sizer returned zero")
        ELSE IF q <= 0 THEN st
        ELSE Booked(st, t, effect, [entry |-> effect.cost, opened |-> opened],
                    -(q * price + fee), fill)

\* Mutant: a partial sale closes the lot that is still partly held.
LotAfterSaleForgetful(lot, effect) == NoLot

\* What is left of the open lot after a sale.
LotAfterSale(lot, effect) == IF effect.quantity <= 0 THEN NoLot ELSE lot

\* max(0.0, min(1.0, strength)), in per cent.
ShareSold(strength) == IF strength < 0 THEN 0 ELSE IF strength > 100 THEN 100 ELSE strength

\* The lots a share of a position comes to; a part of a lot is sold as one.
LotsOf(quantity, share) == (quantity * share + 99) \div 100

\* _fill_sell: the strength of a sale is the fraction of the position to close.
\* A sale of no share at all goes without a record.
FillSell(st, order, price, day) ==
    LET t        == order.ticker
        position == st.positions[t]
        q        == LotsOf(position.quantity, ShareSold(order.strength))
        fee      == CommissionOn(q * price)
        effect   == SellEffect(position, q, price, fee)
        lot      == st.lots[t]
        fill     == [ticker |-> t, side |-> "sell", quantity |-> q, price |-> price,
                     fee |-> fee, at |-> day, queued |-> order.queued]
        trade    == [ticker |-> t, quantity |-> q, opened |-> lot.opened, at |-> day,
                     pnl |-> SellGain(position, q, price, fee)]
        sold     == Booked(st, t, effect, LotAfterSale(lot, effect), q * price - fee, fill)
    IN  IF position.quantity <= 0 THEN Unfilled(st, order, "no position to sell")
        ELSE IF q <= 0 THEN st
        ELSE IF lot = NoLot THEN sold ELSE Closed(sold, trade)

\* Mutant: an order fills at the close of the bar instead of its open.
OpenAtClose(bars, t, day) ==
    IF t \in Tickers /\ day \in DOMAIN bars[t] THEN bars[t][day].close ELSE NoBar

\* _bar_at, of which the engine uses the open.
OpenAt(bars, t, day) ==
    IF t \in Tickers /\ day \in DOMAIN bars[t] THEN bars[t][day].open ELSE NoBar

\* Mutant: an order whose ticker does not trade is dropped without a record.
MissedQuietly(st, order) == st

Missed(st, order) == Unfilled(st, order, "ticker did not trade on the next bar")

\* One turn of the loop of _execute_pending.
FillHead(st, bars, day) ==
    LET order == Head(st.pending)
        open  == OpenAt(bars, order.ticker, day)
        price == SlippagePrice(open, order.action)
    IN  IF open = NoBar THEN Missed(Popped(st), order)
        ELSE IF order.action = "buy" THEN FillBuy(Popped(st), order, price, day)
        ELSE IF order.action = "sell" THEN FillSell(Popped(st), order, price, day)
        ELSE Popped(st)

-----------------------------------------------------------------------------
(* The close of a bar. *)

\* Mutant: the view also holds the bar of the following day.
ViewAtLate(bars, day) ==
    [now |-> day, bars |-> [t \in Tickers |-> [d \in {e \in DOMAIN bars[t] : e <= day + 1} |->
                                                  bars[t][d]]]]

\* MarketView.at: every series sliced to the bars at or before the timestamp.
ViewAt(bars, day) ==
    [now |-> day, bars |-> [t \in Tickers |-> [d \in {e \in DOMAIN bars[t] : e <= day} |->
                                                  bars[t][d]]]]

Decided(st, view) == OnBar(st.mem, view)

\* The newest close of a ticker in a view, its average cost before any bar.
CurrentPrice(st, view, t) ==
    LET days == DOMAIN view.bars[t]
    IN  IF days = {} THEN st.positions[t].cost
        ELSE view.bars[t][CHOOSE d \in days : \A e \in days : e <= d].close

PositionsValue(st, view) ==
    [t \in Tickers |-> st.positions[t].quantity * CurrentPrice(st, view, t)]

OrderOf(signal, day) ==
    [ticker |-> signal.ticker, action |-> signal.action,
     strength |-> signal.strength, queued |-> day]

\* The signals are queued one by one, the holds left out.
Orders(signals, day) ==
    LET queue[i \in 0..Len(signals)] ==
            IF i = 0 THEN <<>>
            ELSE IF signals[i].action = "hold" THEN queue[i - 1]
            ELSE Append(queue[i - 1], OrderOf(signals[i], day))
    IN  queue[Len(signals)]

\* Steps 2 to 5 of the loop: the strategy sees the bar, its orders are queued
\* for the next one, and the portfolio is marked to the close.
CloseBar(st, bars, day) ==
    LET view    == ViewAt(bars, day)
        decided == Decided(st, view)
        orders  == Orders(decided.signals, day)
        mark    == [day |-> day, cash |-> st.cash, values |-> PositionsValue(st, view)]
    IN  [st EXCEPT !.mem = decided.mem,
                   !.pending = orders,
                   !.issued = st.issued + Len(orders),
                   !.curve = Append(st.curve, mark)]

\* The orders still queued after the last bar of the timeline.
Expired(st) ==
    [st EXCEPT !.pending = <<>>,
               !.unfilled = st.unfilled \o
                    [i \in DOMAIN st.pending |->
                        [ticker |-> st.pending[i].ticker,
                         reason |-> "no subsequent bar to fill against"]]]

-----------------------------------------------------------------------------
\* _build_timeline: the days on which some ticker printed a bar.
OnTimeline(r, day) == InWindow(request, day) /\ \E t \in Tickers : day \in DOMAIN loaded[r][t]

HasBars(bars) == \E t \in Tickers : DOMAIN bars[t] # {}

Init ==
    /\ hist \in Histories
    /\ request \in Requests
    /\ phase = "submit"
    /\ clock = 1
    /\ loaded = [r \in Runs |-> [t \in Tickers |-> <<>>]]
    /\ run = [r \in Runs |-> Fresh(request.strategy)]
    /\ saved = [r \in Runs |-> NoRow]

\* run_backtest: the checks before any bar is fetched, and a provider error.
Refused(req) ==
    \/ req.end < req.start
    \/ req.end - req.start > MaxRangeDays
    \/ ~req.known
    \/ req.strategy.kind = "ma_cross" /\ req.strategy.fast >= req.strategy.slow

ApiReject ==
    /\ phase = "submit"
    /\ request.mode = "api"
    /\ phase' = "rejected"
    /\ UNCHANGED <<hist, request, clock, loaded, run, saved>>

\* The bars are fetched and the engine started; runs whose history holds no
\* bar of the range go through the loop without a timeline.
Load ==
    /\ phase = "submit"
    /\ request.mode = "api" => ~Refused(request)
    /\ loaded' = [r \in Runs |-> LoadedBars(request, hist[r])]
    /\ phase' = "bar"
    /\ UNCHANGED <<hist, request, clock, run, saved>>

\* Mutant: the loop runs past the end of the timeline.
BeginPastEnd ==
    /\ phase = "bar"
    /\ phase' = "fill"
    /\ UNCHANGED <<hist, request, clock, loaded, run, saved>>

\* The next day of the calendar begins.
Begin ==
    /\ phase = "bar"
    /\ clock <= Days
    /\ phase' = "fill"
    /\ UNCHANGED <<hist, request, clock, loaded, run, saved>>

Filling(r) == OnTimeline(r, clock) /\ run[r].pending # <<>>

FillNext ==
    /\ phase = "fill"
    /\ \E r \in Runs : Filling(r)
    /\ run' = [r \in Runs |-> IF Filling(r) THEN FillHead(run[r], loaded[r], clock) ELSE run[r]]
    /\ UNCHANGED <<hist, request, phase, clock, loaded, saved>>

Close ==
    /\ phase = "fill"
    /\ \A r \in Runs : ~Filling(r)
    /\ run' = [r \in Runs |->
                IF OnTimeline(r, clock) THEN CloseBar(run[r], loaded[r], clock) ELSE run[r]]
    /\ clock' = clock + 1
    /\ phase' = "bar"
    /\ UNCHANGED <<hist, request, loaded, saved>>

End ==
    /\ phase = "bar"
    /\ clock > Days
    /\ run' = [r \in Runs |-> Expired(run[r])]
    /\ phase' = "end"
    /\ UNCHANGED <<hist, request, clock, loaded, saved>>

\* The route stores the result, unless the range held no bar; an experiment
\* keeps its record either way.
Row(r) ==
    [stored |-> TRUE, request |-> request, closed |-> run[r].closed,
     unfilled |-> run[r].unfilled, curve |-> run[r].curve]

Save ==
    /\ phase = "end"
    /\ saved' = [r \in Runs |->
                    IF request.mode = "api" /\ ~HasBars(loaded[r]) THEN NoRow ELSE Row(r)]
    /\ phase' = "done"
    /\ UNCHANGED <<hist, request, clock, loaded, run>>

Finished == phase \in {"done", "rejected"} /\ UNCHANGED vars

Next == ApiReject \/ Load \/ Begin \/ FillNext \/ Close \/ End \/ Save \/ Finished

Spec == Init /\ [][Next]_vars

-----------------------------------------------------------------------------
(* What two runs have seen in common when the loop is where it is. *)

SamePast(a, b, last) ==
    \A t \in Tickers :
        \A d \in DOMAIN loaded[a][t] \union DOMAIN loaded[b][t] :
            d <= last => /\ d \in DOMAIN loaded[a][t] \intersect DOMAIN loaded[b][t]
                         /\ loaded[a][t][d] = loaded[b][t][d]

SameOpens(a, b, day) ==
    \A t \in Tickers :
        /\ day \in DOMAIN loaded[a][t] <=> day \in DOMAIN loaded[b][t]
        /\ day \in DOMAIN loaded[a][t] => loaded[a][t][day].open = loaded[b][t][day].open

\* Every bar before the current one and, while its orders are being filled,
\* the current opens, but not the current closes.
SameSoFar(a, b) ==
    /\ SamePast(a, b, clock - 1)
    /\ phase = "fill" => SameOpens(a, b, clock)

(* The anti-lookahead contract of backtesting/engine.py and of MarketView:  *)
(* two runs of the same request over histories that agree on every bar seen *)
(* so far are in the same state, whatever the histories hold later: the     *)
(* same cash, positions, orders, fills, trades and equity curve.  A fill    *)
(* may depend on the open of its bar and never on its close.                *)
NoLookAhead ==
    phase \in {"submit", "bar", "fill"} =>
        \A a, b \in Runs : SameSoFar(a, b) => run[a] = run[b]
=============================================================================
