---------------------------- MODULE HealthChecks -----------------------------
(***************************************************************************)
(* The three-state health checks (observability/checks.py) as operators on *)
(* the configuration, the stored records and the job_runs table.  A check  *)
(* is its verdict here; names and explanations are left out.  Times are    *)
(* ticks of one clock.                                                     *)
(***************************************************************************)
EXTENDS Integers, Sequences, FiniteSets

CONSTANTS
    PriceStale, PriceCritical,  \* age of the newest bar: 4 and 10 days
    ThesisStale,                \* time since an active thesis was reviewed: 60 days
    QueueStale,                 \* age of a pending research item: 14 days
    SchedulerQuiet,             \* time since any job ran: 2 days
    FailureWindow,              \* 48 hours
    RunLimit,                   \* job runs a probe looks at: 200
    CashTolerance               \* one cent

ASSUME HealthAssumption ==
    /\ {PriceStale, PriceCritical, ThesisStale, QueueStale, SchedulerQuiet,
        FailureWindow, CashTolerance} \subseteq Nat
    /\ PriceStale <= PriceCritical
    /\ RunLimit \in Nat \ {0}

Severity == [healthy |-> 0, degraded |-> 1, unavailable |-> 2]

\* Mutant: the mildest verdict counts.
AggregateBest(checks) ==
    IF checks = {} THEN "healthy"
    ELSE CHOOSE v \in checks : \A w \in checks : Severity[v] <= Severity[w]

\* aggregate: worst status wins.
Aggregate(checks) ==
    IF checks = {} THEN "healthy"
    ELSE CHOOSE v \in checks : \A w \in checks : Severity[w] <= Severity[v]

\* "warn" beyond the limit.
Aged(at, now, limit) == now - at > limit

Graded(bad, verdict) == IF bad THEN verdict ELSE "healthy"

-----------------------------------------------------------------------------
(***************************************************************************)
(* Dependencies.  config: the database answers; what the single probe of   *)
(* the vault finds; whether a key for the language model is set; what      *)
(* building and probing the primary provider of prices gives; production;  *)
(* whether API tokens are set.                                             *)
(***************************************************************************)
Configurations ==
    [database : BOOLEAN, claude : BOOLEAN, production : BOOLEAN, tokens : BOOLEAN,
     obsidian : {"unset", "reachable", "error", "rejected", "unreachable"},
     provider : {"unbuildable", "synthetic", "down", "up"}]

CheckDatabase(config) == Graded(~config.database, "unavailable")

CheckObsidian(config) ==
    CASE config.obsidian = "reachable" -> "healthy"
      [] config.obsidian \in {"unset", "error"} -> "degraded"
      [] config.obsidian \in {"rejected", "unreachable"} -> "unavailable"

\* Configuration only: a probe would cost money.
CheckClaude(config) == Graded(~config.claude, "degraded")

CheckMarketData(config) ==
    CASE config.provider \in {"unbuildable", "down"} -> "unavailable"
      [] config.provider = "synthetic" -> Graded(config.production, "degraded")
      [] config.provider = "up" -> "healthy"

CheckApiAuth(config) ==
    CASE config.tokens -> "healthy"
      [] ~config.tokens /\ config.production -> "unavailable"
      [] ~config.tokens /\ ~config.production -> "degraded"

DependencyChecks(config) ==
    {CheckDatabase(config), CheckApiAuth(config), CheckMarketData(config),
     CheckObsidian(config), CheckClaude(config)}

-----------------------------------------------------------------------------
\* bars: the time stamps of the stored price bars.  Mutant: an empty table is fresh.
FreshUnlessStale(bars, now) ==
    LET age(limit) == \A at \in bars : Aged(at, now, limit)
    IN  CASE bars = {} -> "healthy"
          [] bars # {} /\ age(PriceCritical) -> "unavailable"
          [] bars # {} /\ age(PriceStale) /\ ~age(PriceCritical) -> "degraded"
          [] OTHER -> "healthy"

CheckPriceFreshness(bars, now) ==
    LET age(limit) == \A at \in bars : Aged(at, now, limit)
    IN  CASE bars = {} -> "degraded"
          [] bars # {} /\ age(PriceCritical) -> "unavailable"
          [] bars # {} /\ age(PriceStale) /\ ~age(PriceCritical) -> "degraded"
          [] OTHER -> "healthy"

\* reviews: for each active thesis, the times it was reviewed at.
CheckStaleTheses(reviews, now) ==
    Graded(\E thesis \in reviews : \A at \in thesis : Aged(at, now, ThesisStale), "degraded")

\* pending: when each pending entry of the research queue was detected.
CheckResearchQueueAge(pending, now) ==
    Graded(\E at \in pending : Aged(at, now, QueueStale), "degraded")

\* watchlists: the items of each.
CheckWatchlists(watchlists) == Graded(watchlists = {} \/ {} \in watchlists, "degraded")

Distance(a, b) == IF a < b THEN b - a ELSE a - b

\* books: of each portfolio the cash expected from its ledger, and its balance.
CheckPortfolioConsistency(books) ==
    Graded(\E b \in books : Distance(b.expected, b.cash) > CashTolerance, "unavailable")

DataChecks(stored, now) ==
    {CheckPriceFreshness(stored.bars, now), CheckPortfolioConsistency(stored.books),
     CheckStaleTheses(stored.reviews, now), CheckResearchQueueAge(stored.pending, now),
     CheckWatchlists(stored.watchlists)}

-----------------------------------------------------------------------------
\* Rows in the order of started_at; two attempts of one process, which the
\* microsecond tells apart in the table, may share a tick here.
StartedAfter(trail, i, k) ==
    \/ trail[i].started > trail[k].started
    \/ trail[i].started = trail[k].started /\ i > k

\* Among the RunLimit newest rows, which are all that a probe sees.
Seen(trail, k) ==
    Cardinality({i \in DOMAIN trail : StartedAfter(trail, i, k)}) < RunLimit

\* Mutant: dict assignment instead of setdefault, so the oldest row stays.
OldestOfItsJob(trail, k) ==
    \A i \in DOMAIN trail :
      trail[i].job = trail[k].job /\ i # k /\ Seen(trail, i) => StartedAfter(trail, i, k)

LatestOfItsJob(trail, k) ==
    \A i \in DOMAIN trail :
      trail[i].job = trail[k].job /\ i # k /\ Seen(trail, i) => StartedAfter(trail, k, i)

Failures(trail) == {k \in DOMAIN trail : trail[k].status = "failed" /\ Seen(trail, k)}

CurrentlyFailing(trail) == {k \in Failures(trail) : LatestOfItsJob(trail, k)}

RecentFailures(trail, now) ==
    {k \in Failures(trail) : trail[k].started >= now - FailureWindow}

CheckJobFailures(trail, now) ==
    CASE CurrentlyFailing(trail) # {} -> "unavailable"
      [] CurrentlyFailing(trail) = {} /\ RecentFailures(trail, now) # {} -> "degraded"
      [] OTHER -> "healthy"

\* The newest row says how long the worker has been silent.
CheckScheduler(trail, now) ==
    Graded(\A k \in DOMAIN trail : Aged(trail[k].started, now, SchedulerQuiet), "degraded")

JobChecks(trail, now) ==
    IF trail = <<>> THEN {"degraded"}
    ELSE {CheckScheduler(trail, now), CheckJobFailures(trail, now)}

\* What the stored records and the trail say, and full_health.
RecordChecks(stored, trail, now) == DataChecks(stored, now) \cup JobChecks(trail, now)

FullHealth(config, findings) == Aggregate(DependencyChecks(config) \cup findings)
=============================================================================
