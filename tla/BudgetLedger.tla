---------------------------- MODULE BudgetLedger -----------------------------
(***************************************************************************)
(* BudgetLedger of ai/governance.py: the in-process spend guard.  Every    *)
(* window's deque receives the same (time, amount) entries, so the three   *)
(* deques are one log, `ledger`, and a head position per window.           *)
(* Each operator is one critical section of the ledger's lock, working     *)
(* with the time `at` its caller read before taking the lock.              *)
(***************************************************************************)
EXTENDS Clock, Sequences, FiniteSets

CONSTANTS
    PerRequest,             \* per-request ceiling; 0 turns it off
    Limit,                  \* Limit[w] for w in WindowNames; 0 turns the window off
    HourLen, DayLen,        \* lengths of the rolling windows, in ticks
    MonthLen,               \* length of a calendar month, in ticks
    WarnPercent             \* ai_budget_warn_ratio, in percent

WindowOrder == <<"hour", "day", "month">>

WindowNames == {"hour", "day", "month"}

RollingWindows == {"hour", "day"}

ASSUME LedgerAssumption ==
    /\ PerRequest \in Nat /\ WarnPercent \in 0..100
    /\ Limit \in [WindowNames -> Nat]
    /\ HourLen \in Nat /\ DayLen \in Nat /\ MonthLen \in Nat \ {0}

VARIABLES
    ledger,                 \* every recorded [at, amount]
    start                   \* start[w]: where window w's deque begins

ledgerVars == <<ledger, start>>

LedgerTypeOK ==
    /\ ledger \in Seq([at : 0..MaxTime, amount : Nat])
    /\ start \in [WindowNames -> Nat \ {0}]
    /\ \A w \in WindowNames : start[w] <= Len(ledger) + 1

LedgerInit == ledger = <<>> /\ start = [w \in WindowNames |-> 1]

-----------------------------------------------------------------------------
Duration == [w \in RollingWindows |-> IF w = "hour" THEN HourLen ELSE DayLen]

\* Mutant: an entry exactly one window old is dropped.
KeepsLater(w, entry, at) ==
    IF w \in RollingWindows
    THEN entry.at > at - Duration[w]
    ELSE entry.at \div MonthLen = at \div MonthLen

\* _Window.prune keeps an entry at the head of window w, at time `at`.
Keeps(w, entry, at) ==
    IF w \in RollingWindows
    THEN entry.at >= at - Duration[w]
    ELSE entry.at \div MonthLen = at \div MonthLen

\* _Window.prune
Pruned(w, at) ==
    PopLeft(start[w], Len(ledger), {i \in DOMAIN ledger : Keeps(w, ledger[i], at)})

Total(amounts) ==
    LET sum[i \in 0..Len(amounts)] == IF i = 0 THEN 0 ELSE sum[i - 1] + amounts[i]
    IN  sum[Len(amounts)]

SumFrom(from) ==
    Total([i \in DOMAIN ledger |-> IF i >= from THEN ledger[i].amount ELSE 0])

\* _Window.spent
Spent(w, at) == SumFrom(Pruned(w, at))

Active(w) == Limit[w] > 0

\* Mutant: past spend alone is compared with the limit, not the projection.
OverAlready(w, amount, at) == Active(w) /\ Spent(w, at) > Limit[w]

Over(w, amount, at) == Active(w) /\ Spent(w, at) + amount > Limit[w]

Near(w, amount, at) ==
    Active(w) /\ 100 * (Spent(w, at) + amount) > Limit[w] * WarnPercent

\* BudgetLedger.check: the verdict ...
BudgetState(cost, at) ==
    CASE ~cost.known                                            -> "healthy"
      [] cost.known /\ PerRequest > 0 /\ cost.amount > PerRequest -> "exceeded"
      [] OTHER ->
           IF \E w \in WindowNames : Over(w, cost.amount, at) THEN "exceeded"
           ELSE IF \E w \in WindowNames : Near(w, cost.amount, at) THEN "warning"
           ELSE "healthy"

(***************************************************************************)
(* ... and the effect: windows are pruned in order up to and including the *)
(* first one that refuses.                                                 *)
(***************************************************************************)
ReachedBy(w, amount, at) ==
    \A i, j \in 1..3 :
        WindowOrder[j] = w /\ i < j => ~Over(WindowOrder[i], amount, at)

LedgerCheck(cost, at) ==
    /\ start' = [w \in WindowNames |->
                   IF /\ cost.known
                      /\ PerRequest = 0 \/ cost.amount <= PerRequest
                      /\ Active(w) /\ ReachedBy(w, cost.amount, at)
                   THEN Pruned(w, at) ELSE start[w]]
    /\ UNCHANGED ledger

\* BudgetLedger.record
LedgerRecord(cost, at) ==
    /\ ledger' = IF cost.known
                 THEN Append(ledger, [at |-> at, amount |-> cost.amount])
                 ELSE ledger
    /\ UNCHANGED start

\* BudgetLedger.snapshot prunes every window, on behalf of a status page.
LedgerSnapshot(at) ==
    /\ start' = [w \in WindowNames |-> IF Active(w) THEN Pruned(w, at) ELSE start[w]]
    /\ UNCHANGED ledger

-----------------------------------------------------------------------------
(***************************************************************************)
(* Spend that still lies inside a rolling window is never dropped from it, *)
(* whatever the order in which threads with lagging clocks check and       *)
(* record (the head-only pruning of _Window.prune).                        *)
(***************************************************************************)
NoSpendForgotten ==
    \A w \in RollingWindows : \A i \in DOMAIN ledger :
        i < start[w] => ledger[i].at < now - Duration[w]

\* Spend recorded inside rolling window w as of now, whatever the deque holds.
InWindowSpend(w) ==
    Total([i \in DOMAIN ledger |->
             IF ledger[i].at >= now - Duration[w] THEN ledger[i].amount ELSE 0])
=============================================================================
