---------------------------- MODULE PaperTrading ----------------------------
(***************************************************************************)
(* Paper trading: the API's open and close handlers, the proposal gate and *)
(* the snapshot job, each in a database session of its own.                *)
(*                                                                         *)
(* Sessions read row by row (read committed, autoflush off), compute new   *)
(* values in Python and write them back in one commit, as absolute values  *)
(* and with no row lock or version column: whatever another session        *)
(* commits in between is overwritten.  So a session is                     *)
(*                                                                         *)
(*   Begin* (the trade, proposal or portfolio row) -> ReadPortfolio        *)
(*         -> ReadPosition -> Commit*                                      *)
(*                                                                         *)
(* `ledger` adds up the columns of paper_transactions: every row is        *)
(* appended in the commit that also writes positions and cash.             *)
(* `fresh` and `stale` are history: a session is fresh while nobody else   *)
(* has committed since it began, and stale is set once a session that is   *)
(* not fresh commits.                                                      *)
(***************************************************************************)
EXTENDS PaperAccounting, Sequences, FiniteSets

LOCAL INSTANCE TLC          \* Permutations

CONSTANTS
    Sessions,               \* database sessions: request handlers, the worker, scripts
    Portfolios, Assets,
    InitialCash,            \* every portfolio's initial_cash
    Quantities, Prices,     \* what a request may ask for
    MaxTrades, MaxProposals \* bounds on journal rows and on proposals

ASSUME PaperAssumption ==
    /\ IsFiniteSet(Sessions)
    /\ InitialCash \in Nat
    /\ Portfolios # {} /\ Assets # {}
    /\ Quantities \subseteq Nat \ {0} /\ Prices \subseteq Nat \ {0}
    /\ MaxTrades \in Nat /\ MaxProposals \in Nat

VARIABLES
    portfolios,             \* names of the portfolios that exist
    cash,                   \* cash_balance
    position,               \* position[p][a], or Absent
    ledger,                 \* cash_delta, quantity (signed) and realized_pnl, summed
    trades,                 \* the journal
    proposals,              \* paper_trade_proposals
    snapshot,               \* today's snapshot of each portfolio, or NoSnapshot
    task, phase, seen,      \* what each session does, where it is, what it read
    fresh, stale,           \* history: see above
    approvals,              \* history: proposals a human has approved
    fills, sales            \* history: fills per proposal, closing sells per trade

rows == <<portfolios, cash, position, ledger, trades, proposals, snapshot>>

vars == <<rows, task, phase, seen, fresh, stale, approvals, fills, sales>>

None == "none"

Absent == [Flat EXCEPT !.quantity = -1]

Sides == {"buy", "sell"}

Statuses == {"pending_approval", "approved", "rejected", "executed", "expired"}

Trades == [asset : Assets, quantity : Nat, status : {"open", "closed"}]

Proposals == [portfolio : Portfolios, asset : Assets, side : Sides, quantity : Nat,
              status : Statuses]

Snapshots == [cash : Int, held : [Assets -> Int]]

NoSnapshot == [cash |-> -1, held |-> [a \in Assets |-> 0]]

Tasks == [op : {"idle", "open", "close", "execute", "decide", "snapshot"},
          portfolio : Portfolios, asset : Assets, item : Nat, side : Sides,
          quantity : Nat, price : Nat, verdict : Statuses \cup {None}]

Phases == {"idle", "portfolio", "position", "commit"}

TypeOK ==
    /\ portfolios \subseteq Portfolios
    /\ cash \in [Portfolios -> Int]
    /\ position \in [Portfolios -> [Assets -> PositionState]]
    /\ ledger \in [Portfolios -> [cash : Int, quantity : [Assets -> Int],
                                  realized : [Assets -> Int]]]
    /\ trades \in Seq(Trades) /\ proposals \in Seq(Proposals)
    /\ snapshot \in [Portfolios -> Snapshots]
    /\ task \in [Sessions -> Tasks]
    /\ phase \in [Sessions -> Phases]
    /\ seen \in [Sessions -> [cash : Int, position : [Assets -> PositionState]]]
    /\ fresh \in [Sessions -> BOOLEAN] /\ stale \in BOOLEAN
    /\ approvals \subseteq DOMAIN proposals
    /\ fills \in Seq(Nat) /\ Len(fills) = Len(proposals)
    /\ sales \in Seq(Nat) /\ Len(sales) = Len(trades)

Idle == [op |-> "idle", portfolio |-> CHOOSE p \in Portfolios : TRUE,
         asset |-> CHOOSE a \in Assets : TRUE, item |-> 0, side |-> "buy",
         quantity |-> 0, price |-> 0, verdict |-> None]

NothingSeen == [cash |-> 0, position |-> [a \in Assets |-> Absent]]

Init ==
    /\ portfolios = {}
    /\ cash = [p \in Portfolios |-> InitialCash]
    /\ position = [p \in Portfolios |-> [a \in Assets |-> Absent]]
    /\ ledger = [p \in Portfolios |-> [cash |-> 0, quantity |-> [a \in Assets |-> 0],
                                       realized |-> [a \in Assets |-> 0]]]
    /\ trades = <<>> /\ proposals = <<>>
    /\ snapshot = [p \in Portfolios |-> NoSnapshot]
    /\ task = [s \in Sessions |-> Idle]
    /\ phase = [s \in Sessions |-> "idle"]
    /\ seen = [s \in Sessions |-> NothingSeen]
    /\ fresh = [s \in Sessions |-> TRUE] /\ stale = FALSE
    /\ approvals = {}
    /\ fills = <<>> /\ sales = <<>>

-----------------------------------------------------------------------------
\* _state_of: a position row that does not exist yet is an empty position.
StateOf(st) == IF st = Absent THEN Flat ELSE st

Start(s, t, at) ==
    /\ phase[s] = "idle"
    /\ task' = [task EXCEPT ![s] = t]
    /\ phase' = [phase EXCEPT ![s] = at]
    /\ fresh' = [fresh EXCEPT ![s] = TRUE]
    /\ UNCHANGED <<rows, stale, approvals, fills, sales>>

\* The session ends and forgets what it read.
End(s) ==
    /\ task' = [task EXCEPT ![s] = Idle]
    /\ phase' = [phase EXCEPT ![s] = "idle"]
    /\ seen' = [seen EXCEPT ![s] = NothingSeen]

\* An exception, or a 4xx answer: the session is closed without a commit.
Refuse(s) == End(s) /\ UNCHANGED <<rows, fresh, stale, approvals, fills, sales>>

\* session.commit(): everybody else's reads may be out of date from here on.
Committed(s) ==
    /\ End(s)
    /\ fresh' = [t \in Sessions |-> t = s]
    /\ stale' = (stale \/ ~fresh[s])

\* create_portfolio; the unique name makes a concurrent duplicate fail.
CreatePortfolio(p) ==
    /\ p \notin portfolios
    /\ portfolios' = portfolios \cup {p}
    /\ UNCHANGED <<cash, position, ledger, trades, proposals, snapshot,
                   task, phase, seen, fresh, stale, approvals, fills, sales>>

-----------------------------------------------------------------------------
SawCash(s, p) == seen' = [seen EXCEPT ![s].cash = cash[p]]

\* The bound MaxTrades, counting the sessions that are about to open one.
RoomForTrade == Len(trades) + Cardinality({s \in Sessions : task[s].op = "open"}) < MaxTrades

\* open_paper_trade: a portfolio is named, or the only one.
BeginOpen(s, p, a, q, price) ==
    /\ p \in portfolios /\ RoomForTrade
    /\ Start(s, [Idle EXCEPT !.op = "open", !.portfolio = p, !.asset = a, !.side = "buy",
                             !.quantity = q, !.price = price], "position")
    /\ SawCash(s, p)

\* Mutant: a trade that is already closed may be closed again.
BeginCloseAgain(s, i, price) ==
    /\ Start(s, [Idle EXCEPT !.op = "close", !.item = i, !.asset = trades[i].asset,
                             !.side = "sell", !.quantity = trades[i].quantity,
                             !.price = price], "portfolio")
    /\ UNCHANGED seen

\* close_paper_trade: "already closed" is decided on the row as read now.
BeginClose(s, i, price) ==
    /\ trades[i].status = "open"
    /\ Start(s, [Idle EXCEPT !.op = "close", !.item = i, !.asset = trades[i].asset,
                             !.side = "sell", !.quantity = trades[i].quantity,
                             !.price = price], "portfolio")
    /\ UNCHANGED seen

\* Mutant: whatever is not executed yet may be executed.
BeginExecuteUngated(s, i, price) ==
    /\ proposals[i].status # "executed"
    /\ Start(s, [Idle EXCEPT !.op = "execute", !.item = i,
                             !.portfolio = proposals[i].portfolio,
                             !.asset = proposals[i].asset, !.side = proposals[i].side,
                             !.quantity = proposals[i].quantity,
                             !.price = price], "portfolio")
    /\ UNCHANGED seen

\* execute_proposal: only an approved proposal, at the price the caller gives.
BeginExecute(s, i, price) ==
    /\ proposals[i].status = "approved"
    /\ Start(s, [Idle EXCEPT !.op = "execute", !.item = i,
                             !.portfolio = proposals[i].portfolio,
                             !.asset = proposals[i].asset, !.side = proposals[i].side,
                             !.quantity = proposals[i].quantity,
                             !.price = price], "portfolio")
    /\ UNCHANGED seen

\* propose_from_signal: the signal's category decides the side and the size, if any.
Suggestion(p, a, side, quantity) ==
    [portfolio |-> p, asset |-> a, side |-> side, quantity |-> quantity,
     status |-> "pending_approval"]

Drafts(p, a, category, price, held, balance) ==
    LET budget == IF InitialCash <= 20 * balance THEN InitialCash ELSE 20 * balance
    IN  CASE category = "ACCUMULATE" ->
               IF budget > 0 THEN {Suggestion(p, a, "buy", Rounded(budget, 20 * price))} ELSE {}
          [] category = "REDUCE" ->
               IF held > 0 THEN {Suggestion(p, a, "sell", Rounded(held, 4))} ELSE {}
          [] category = "EXIT_REVIEW" ->
               IF held > 0 THEN {Suggestion(p, a, "sell", held)} ELSE {}

Categories == {"ACCUMULATE", "REDUCE", "EXIT_REVIEW"}

\* The draft reads the position and then the portfolio row its caller loaded.
Propose(s, p, a, category, price) ==
    /\ p \in portfolios /\ phase[s] = "idle"
    /\ Len(proposals) < MaxProposals
    /\ \E draft \in Drafts(p, a, category, price, StateOf(position[p][a]).quantity, cash[p]) :
         proposals' = Append(proposals, draft)
    /\ fills' = Append(fills, 0)
    /\ UNCHANGED <<portfolios, cash, position, ledger, trades, snapshot,
                   task, phase, seen, fresh, stale, approvals, sales>>

\* approve, reject and expire: the guard is on the row as read now.
BeginDecide(s, i, verdict) ==
    /\ \/ proposals[i].status = "pending_approval"
       \/ proposals[i].status = "approved" /\ verdict = "rejected"
    /\ Start(s, [Idle EXCEPT !.op = "decide", !.item = i, !.verdict = verdict], "commit")
    /\ UNCHANGED seen

\* portfolio_update: value a portfolio, to be stored as today's snapshot.
BeginSnapshot(s, p) ==
    /\ p \in portfolios
    /\ Start(s, [Idle EXCEPT !.op = "snapshot", !.portfolio = p], "position")
    /\ SawCash(s, p)

\* A close sells from "the only portfolio", an execution from the proposal's.
ReadPortfolio(s, p) ==
    /\ phase[s] = "portfolio"
    /\ task[s].op = "close" => portfolios = {p}
    /\ task[s].op = "execute" => task[s].portfolio = p
    /\ task' = [task EXCEPT ![s].portfolio = p]
    /\ SawCash(s, p)
    /\ phase' = [phase EXCEPT ![s] = "position"]
    /\ UNCHANGED <<rows, fresh, stale, approvals, fills, sales>>

\* With several portfolios, a close cannot tell which one to sell from.
Ambiguous(s) ==
    /\ phase[s] = "portfolio" /\ task[s].op = "close"
    /\ \A p \in Portfolios : portfolios # {p}
    /\ Refuse(s)

ReadPosition(s) ==
    /\ phase[s] = "position"
    /\ seen' = [seen EXCEPT ![s].position = position[task[s].portfolio]]
    /\ phase' = [phase EXCEPT ![s] = "commit"]
    /\ UNCHANGED <<rows, task, fresh, stale, approvals, fills, sales>>

-----------------------------------------------------------------------------
Read(s) == seen[s].position[task[s].asset]

\* Mutant: the cash constraint is not enforced.
FillableOnCredit(s) ==
    LET t == task[s]
    IN  /\ t.quantity > 0
        /\ t.side = "sell" => t.quantity <= StateOf(Read(s)).quantity
        /\ Read(s) = Absent => position[t.portfolio][t.asset] = Absent

(***************************************************************************)
(* record_buy and record_sell check what the session read, and a position  *)
(* row somebody else inserted meanwhile makes the insert fail.             *)
(***************************************************************************)
Fillable(s) ==
    LET t == task[s]
    IN  /\ t.quantity > 0
        /\ t.side = "buy" => BuyCost(t.quantity, t.price) <= seen[s].cash
        /\ t.side = "sell" => t.quantity <= StateOf(Read(s)).quantity
        /\ Read(s) = Absent => position[t.portfolio][t.asset] = Absent

\* The ORM writes the columns whose value differs from the one it loaded.
Overwrite(new, read, current) ==
    [column \in DOMAIN new |->
        IF read = Absent \/ new[column] # read[column] THEN new[column] ELSE current[column]]

\* _record_transaction: one more row under the sums.
Entered(sums, a, delta, q, gain) ==
    [cash     |-> sums.cash + delta,
     quantity |-> [sums.quantity EXCEPT ![a] = @ + q],
     realized |-> [sums.realized EXCEPT ![a] = @ + gain]]

\* The rows a fill writes: cash, position, and one ledger entry.
RecordFill(s) ==
    LET t == task[s]
        delta == CashDelta(t.side, t.quantity, t.price)
        new == Fill(StateOf(Read(s)), t.side, t.quantity, t.price)
    IN  /\ cash' = [cash EXCEPT ![t.portfolio] = seen[s].cash + delta]
        /\ position' = [position EXCEPT ![t.portfolio][t.asset] = Overwrite(new, Read(s), @)]
        /\ ledger' = [ledger EXCEPT ![t.portfolio] =
              Entered(@, t.asset, delta, Signed(t.side, t.quantity),
                      RealizedPnl(StateOf(Read(s)), t.side, t.quantity, t.price))]

Committing(s, op) == phase[s] = "commit" /\ task[s].op = op

CommitOpen(s) ==
    /\ Committing(s, "open") /\ Fillable(s) /\ RecordFill(s) /\ Committed(s)
    /\ trades' = Append(trades, [asset |-> task[s].asset,
                                 quantity |-> task[s].quantity, status |-> "open"])
    /\ sales' = Append(sales, 0)
    /\ UNCHANGED <<portfolios, proposals, snapshot, approvals, fills>>

\* The trade is closed whether or not the sale leaves some of the position.
CommitClose(s) ==
    /\ Committing(s, "close") /\ Fillable(s) /\ RecordFill(s) /\ Committed(s)
    /\ trades' = [trades EXCEPT ![task[s].item].status = "closed"]
    /\ sales' = [sales EXCEPT ![task[s].item] = @ + 1]
    /\ UNCHANGED <<portfolios, proposals, snapshot, approvals, fills>>

\* Nothing journals this fill: journal_paper_fill is left to the caller.
CommitExecute(s) ==
    /\ Committing(s, "execute") /\ Fillable(s) /\ RecordFill(s) /\ Committed(s)
    /\ proposals' = [proposals EXCEPT ![task[s].item].status = "executed"]
    /\ fills' = [fills EXCEPT ![task[s].item] = @ + 1]
    /\ UNCHANGED <<portfolios, trades, snapshot, approvals, sales>>

\* Not enough cash, not enough held, or the position row was inserted meanwhile.
FillRefused(s) ==
    /\ \E op \in {"open", "close", "execute"} : Committing(s, op)
    /\ ~Fillable(s)
    /\ Refuse(s)

CommitDecision(s) ==
    /\ Committing(s, "decide")
    /\ proposals' = [proposals EXCEPT ![task[s].item].status = task[s].verdict]
    /\ approvals' = IF task[s].verdict = "approved" THEN approvals \cup {task[s].item}
                                                   ELSE approvals
    /\ Committed(s)
    /\ UNCHANGED <<portfolios, cash, position, ledger, trades, snapshot, fills, sales>>

Valued(balance, held) == [cash |-> balance, held |-> [a \in Assets |-> StateOf(held[a]).quantity]]

\* Mutant: a snapshot taken earlier in the day is kept.
CommitSnapshotOnce(s) ==
    /\ Committing(s, "snapshot")
    /\ snapshot' = [snapshot EXCEPT ![task[s].portfolio] =
                      IF @ = NoSnapshot THEN Valued(seen[s].cash, seen[s].position) ELSE @]
    /\ Committed(s)
    /\ UNCHANGED <<portfolios, cash, position, ledger, trades, proposals,
                   approvals, fills, sales>>

\* take_snapshot updates today's row, or inserts it.
CommitSnapshot(s) ==
    /\ Committing(s, "snapshot")
    /\ snapshot' = [snapshot EXCEPT ![task[s].portfolio] =
                      Valued(seen[s].cash, seen[s].position)]
    /\ Committed(s)
    /\ UNCHANGED <<portfolios, cash, position, ledger, trades, proposals,
                   approvals, fills, sales>>

\* Two first snapshots of a day collide on their unique key.
SnapshotCollides(s) ==
    /\ Committing(s, "snapshot")
    /\ ~fresh[s] /\ snapshot[task[s].portfolio] # NoSnapshot
    /\ Refuse(s)

Step(s) ==
    \/ \E p \in Portfolios : ReadPortfolio(s, p)
    \/ Ambiguous(s) \/ ReadPosition(s)
    \/ CommitOpen(s) \/ CommitClose(s) \/ CommitExecute(s) \/ CommitDecision(s)
    \/ CommitSnapshot(s) \/ FillRefused(s) \/ SnapshotCollides(s)

Begin(s) ==
    \/ \E p \in Portfolios, a \in Assets, price \in Prices :
         \/ \E q \in Quantities : BeginOpen(s, p, a, q, price)
         \/ \E c \in Categories : Propose(s, p, a, c, price)
    \/ \E i \in DOMAIN trades, price \in Prices : BeginClose(s, i, price)
    \/ \E i \in DOMAIN proposals :
         \/ \E price \in Prices : BeginExecute(s, i, price)
         \/ \E v \in {"approved", "rejected", "expired"} : BeginDecide(s, i, v)
    \/ \E p \in Portfolios : BeginSnapshot(s, p)

Next ==
    \/ \E p \in Portfolios : CreatePortfolio(p)
    \/ \E s \in Sessions : Begin(s) \/ Step(s)

Spec == Init /\ [][Next]_vars

-----------------------------------------------------------------------------
(***************************************************************************)
(* Long-only, and no spending of money the portfolio does not have         *)
(* (InsufficientPositionError, InsufficientCashError).  What is stored is  *)
(* never negative, even when sessions overwrite each other, because each   *)
(* writes what it checked; what was traded, the ledger, never adds up to   *)
(* more bought than the cash or more sold than was held, as long as no     *)
(* session committed on top of another's commit.                           *)
(***************************************************************************)
NoOverdraft ==
    \A p \in Portfolios :
        /\ cash[p] >= 0
        /\ ~stale => InitialCash + ledger[p].cash >= 0
        /\ \A a \in Assets :
             /\ StateOf(position[p][a]).quantity >= 0
             /\ ~stale => ledger[p].quantity[a] >= 0

(***************************************************************************)
(* As long as no session committed on top of another's commit, the stored  *)
(* cash and positions are what replaying the ledger gives.  So the only    *)
(* way to lose the ledger's authority is a stale commit.                   *)
(***************************************************************************)
Reconciled ==
    \A p \in Portfolios :
        /\ cash[p] = InitialCash + ledger[p].cash
        /\ \A a \in Assets :
             /\ StateOf(position[p][a]).quantity = ledger[p].quantity[a]
             /\ StateOf(position[p][a]).realized = ledger[p].realized[a]

LedgerReplaysUnlessStale == ~stale => Reconciled

(***************************************************************************)
(* The approval gate: no fill for a proposal no human ever approved, in    *)
(* any interleaving; and, stale commits aside, exactly one fill for an     *)
(* executed proposal and none for a pending, rejected or expired one.      *)
(***************************************************************************)
ApprovalGate ==
    \A i \in DOMAIN proposals :
        /\ fills[i] > 0 => i \in approvals
        /\ ~stale => fills[i] = IF proposals[i].status = "executed" THEN 1 ELSE 0

(***************************************************************************)
(* No trade is closed without its sale (close_paper_trade), and its sale   *)
(* is not repeated ("already closed"): a stale commit may sell it again,   *)
(* and then once for each session that had found it open, never more.      *)
(***************************************************************************)
ClosedMeansSold ==
    \A i \in DOMAIN trades :
        /\ trades[i].status = "closed" => sales[i] > 0
        /\ ~stale => sales[i] <= 1
        /\ sales[i] <= Cardinality(Sessions)

(***************************************************************************)
(* "Point-in-time portfolio valuation": today's snapshot, first or redone, *)
(* combines cash and positions that are true together, unless some other   *)
(* session committed between its reads.                                    *)
(***************************************************************************)
SnapshotIsPointInTime ==
    [][\A s \in Sessions :
         /\ task[s].op = "snapshot" /\ phase[s] = "commit"
         /\ phase'[s] = "idle" /\ fresh[s]
         => LET p == task[s].portfolio
            IN  /\ snapshot'[p].cash = cash[p]
                /\ \A a \in Assets :
                     snapshot'[p].held[a] = StateOf(position[p][a]).quantity]_vars

(***************************************************************************)
(* What was approved is what is filled: executing a proposal enters its    *)
(* own quantity, side and asset in its own portfolio's ledger, and nothing *)
(* anywhere else, whatever other portfolios exist by then.                 *)
(***************************************************************************)
FilledAsProposed ==
    [][\A i \in DOMAIN proposals :
         fills'[i] > fills[i] =>
           \A p \in Portfolios, a \in Assets :
             ledger'[p].quantity[a] = ledger[p].quantity[a] +
               IF p = proposals[i].portfolio /\ a = proposals[i].asset
               THEN Signed(proposals[i].side, proposals[i].quantity) ELSE 0]_vars

-----------------------------------------------------------------------------
\* Nothing tells one session, or one portfolio, from another.
Interchangeable == Permutations(Sessions) \cup Permutations(Portfolios)

(***************************************************************************)
(* A statement the repository makes about paper trading that its code does *)
(* not keep; the run that refutes it is listed in the README.              *)
(***************************************************************************)

\* "Position state is always reproducible by replaying it" (the ledger).
LedgerAlwaysReplays == Reconciled
=============================================================================
