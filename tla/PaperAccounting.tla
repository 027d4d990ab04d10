--------------------------- MODULE PaperAccounting ---------------------------
(***************************************************************************)
(* quant/performance/portfolio.py: the pure functions that turn one fill   *)
(* into a new position state.  Amounts are whole ticks of the Numeric(18,6)*)
(* columns they are stored in; fees, which no caller in the repository     *)
(* passes, are zero.                                                       *)
(***************************************************************************)
EXTENDS Integers

PositionState == [quantity : Int, cost : Int, realized : Int]

Flat == [quantity |-> 0, cost |-> 0, realized |-> 0]

\* round(a / b) to the nearest tick, for b > 0.
Rounded(a, b) == (2 * a + b) \div (2 * b)

BuyCost(q, price) == q * price

\* apply_buy: quantities add up, the average cost is re-weighted.
ApplyBuy(st, q, price) ==
    [quantity |-> st.quantity + q,
     cost     |-> Rounded(st.quantity * st.cost + BuyCost(q, price), st.quantity + q),
     realized |-> st.realized]

Gain(st, q, price) == q * (price - st.cost)

\* Mutant: closing a position forgets what it earned.
ApplySellForgetful(st, q, price) ==
    [quantity |-> st.quantity - q,
     cost     |-> IF st.quantity > q THEN st.cost ELSE 0,
     realized |-> IF st.quantity > q THEN st.realized + Gain(st, q, price) ELSE 0]

\* apply_sell: the average cost stays, unless nothing is left to average.
ApplySell(st, q, price) ==
    [quantity |-> st.quantity - q,
     cost     |-> IF st.quantity > q THEN st.cost ELSE 0,
     realized |-> st.realized + Gain(st, q, price)]

Fill(st, side, q, price) ==
    IF side = "buy" THEN ApplyBuy(st, q, price) ELSE ApplySell(st, q, price)

\* What the ledger row of a fill records.
CashDelta(side, q, price) == IF side = "buy" THEN -BuyCost(q, price) ELSE q * price

Signed(side, q) == IF side = "buy" THEN q ELSE -q

RealizedPnl(st, side, q, price) == IF side = "buy" THEN 0 ELSE Gain(st, q, price)
=============================================================================
