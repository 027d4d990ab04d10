# TradingBrain: a verification project

TradingBrain is a personal research assistant for equities: a FastAPI process answers
requests and calls language models through one gateway, a worker process runs scheduled
jobs, both share one database and an Obsidian vault, and trading is on paper only. This
directory holds TLA+ modules that model its parts, TLC configurations that check them on
small instances, and theorems about them that TLAPS proves for every value of the
constants.

Run from this directory:

    tlc -workers 2 -config MCGateway.cfg MCGateway      # one configuration
    tlapm AIGatewayProofs.tla                           # one module's proofs

## 1. Inventory

| Component | State it keeps | Operations | Talks to |
|---|---|---|---|
| AI gateway (`ai/gateway.py`) | none of its own beside display counters; it drives the four below | `invoke`, `status` | router, limiter, ledger, cache, provider, usage recorder |
| Rate limiter (`ai/governance.py`) | per (principal, task) deque of hit times, one lock | `check`, `record` | gateway |
| Budget ledger (`ai/governance.py`) | three deques of (time, cost), one lock | `check`, `record`, `snapshot` | gateway, `/ai/budget` |
| Response cache (`ai/governance.py`) | entries with an expiry, the set of fingerprints in flight, one lock | `get`, `put`, `begin`, `end` | gateway |
| Router, registry (`ai/router.py`, `ai/provider.py`) | the disabled providers | `route`, `register`, `enable`, `disable` | gateway, operator |
| Pricing (`config/ai_pricing.py`) | none | `project`, `estimate` | gateway |
| Providers (`ai/providers/`) | HTTP clients | `invoke` | the outside |
| Usage recorder (`ai/usage.py`) | `ai_requests` rows | `record` | database |
| Paper trading (`paper_trading/`, `routers/paper_trades.py`, `portfolio_repository.py`) | portfolios (cash), positions, trades, proposals, snapshots | open, close, propose, approve, reject, expire, execute, snapshot | database |
| Scheduler (`apps/worker/main.py`, `scheduler/`, `job_repository.py`) | `job_runs` rows, append-only | the loop, `run-due`, `run <job>`, retries | jobs, database |
| Market update (`jobs/daily_market.py`, `data/ingestion/`, `data/normalization/`, `price_repository.py`) | prices, validation errors, regime observations | window, fetch with fallback, validate, insert | scheduler, providers, database |
| Other jobs (`apps/worker/jobs/`) | the tables and notes they fill | company update, research refresh, three reports, learning review | scheduler, every repository |
| Research queue (`research_queue_repository.py`, `routers/research_queue.py`) | queue entries with a status | enqueue, process, dismiss | jobs, API, vault |
| Theses (`brain/thesis/`, `routers/thesis.py`) | the current assessment, append-only reviews, a note | review | gateway, vault, database |
| Backtesting (`backtesting/`) | cash, positions, lots, pending orders of one run | step a bar, walk forward | prices, API |
| Experiments (`experiments/`) | none | folds, slices, provenance and certification | backtesting |
| Signals (`brain/signals/`, `quant/`) | rows of `signals` | the rules over one asset, a run over all, acknowledge, dismiss | prices, regimes, theses |
| Learning (`brain/learning/`) | rows of `learning_reviews`, notes | build a report over a period, publish it | every table, vault |
| Reports (`brain/reporting/`) | notes | daily, weekly, monthly | every table, vault |
| Knowledge store (`integrations/obsidian/`) | notes on disk | write, append, append under a heading | a REST plugin |
| Observability (`observability/`) | none | health checks, lineage | every table |
| Dashboard, API wiring, configuration | none | read-only | all |

What is hard, and where:

* **Threads.** FastAPI runs the synchronous handlers in a thread pool. The gateway's
  limiter, ledger and cache are shared; each method is one critical section and the gateway
  strings several of them together with a slow provider call in the middle.
* **Clocks.** Every governance method reads the clock before taking its lock, so entries
  can be appended out of time order and pruned by a caller whose time is behind.
* **Failures.** A provider may time out, refuse, or return garbage; the audit database may
  reject a row; the process may restart, forgetting limiter, ledger and cache while the
  audit table remains.
* **Processes.** The worker loop, a `run-due` or `run` typed at a prompt, and the API share the
  database. Nothing locks a row; unique keys and the isolation of a transaction are all there is.
* **Midnight.** Daily jobs are due by calendar day, a cycle's clock is read once, and an
  attempt's start is read later: the two may lie on different days.
* **Operators.** A provider can be taken out of rotation between routing and calling.
* **Two stores.** Research, theses, learning and reports write a note to a vault that knows no
  transaction and a row to a database that does; either may fail, or be lost, after the other.
* **Hindsight.** A back-test holds the whole history in memory and a learning review looks for
  the outcome of old signals in bars that keep arriving.

What makes each part correct: nobody works twice on one question at a time and no claim is
leaked (cache); nothing that still counts is forgotten (limiter, ledger); privacy outranks
every other routing rule and nothing is substituted silently (router); every answer is
accounted for (gateway); cash and positions replay from the ledger and nothing is filled without
an approval (paper trading); a job is not repeated that is known to be done, and not forgotten
when it failed (scheduler); stored prices are real, plausible and without holes (market update);
no decision of a back-test rests on a price of its future and its books agree (backtesting,
experiments); what a scan found is in the queue and what the queue calls done is written up
(research); every assessment has its audit entry (theses); a settled review stands and names the
note that shows it (learning); what protects outranks what tempts (signals); adjoining reports
lose nothing (reports); and a failure is never reported as health (observability).

## 2. Plan

The order follows what a mistake would cost: first the gateway (money and private data leave
the machine there), then paper trading (the book every later conclusion is drawn from), then
the worker that drives everything on a schedule, then the stores it fills.

| Step | Modules | Abstract promise | Runs and bounds | Theorems |
|---|---|---|---|---|
| 1 | `Clock`, `RateLimiter`, `BudgetLedger`, `ResponseCache`, `AIPricing`, `AIRouter`, composed by `GovernanceCalls`, `AIRouterCalls` and `AIGateway` | `AnswerService` | two threads, two or three requests, windows of one or two ticks | types, claims, policy, nothing forgotten, cache and audit, overshoot, routing policy, the service implemented |
| 2 | `PaperAccounting`, `PaperTrading` | the ledger replays | two sessions, two portfolios, one trade, one proposal, two prices | types, no overdraft, ledger, approval gate, one sale, true snapshots, terms of a proposal |
| 3 | `Schedules`, `Scheduler` | every day's job runs once, and what failed runs again | two processes, one daily job, two days, one fault | types, no early repeat |
| 4 | `MarketUpdate` | stored bars are real and history has no hole | two runs, two assets, four days, one fault | types, no deadlock, bars accounted for, windows |
| 5 | `BacktestStrategies`, `WalkForward`, composed by `Backtest` and `BacktestRuns` | a run over one history decides as a run over another that agrees so far | two tickers, four days | no look-ahead, types, books agree, test periods sealed |
| 6 | `ChangeDetection`, `KnowledgeStore`, composed by `ResearchDesk` | found is queued, done is written up | two sessions, one asset, one fault | types, no duplicates without an overlap, found is queued, done is written up, assessments audited, advice fits |
| 7 | `RegimeDetector`, `SignalRules`, `Signals`, `LearningMetrics`, composed with `KnowledgeStore` by `Learning` | settled reviews stand | two sessions, one asset, four days, two events | types, settled reviews stand, notes show reviews, regime lineage, warnings first |
| 8 | `HealthChecks`, composed with `Scheduler` by `NightlyWork` | a failure is not health | one worker, four jobs, two days and a half | prices before report, reports lose nothing, honest health |

All eight steps are done. What is left of the plan are the parts listed in section 10.

Modules with theorems extend the module they are about and reach no `RECURSIVE` operator:
recursion is written as folds or as functions over positions. Where a proof needs induction over
positions, the set of positions at which a claim fails would have a least member (`SetInduction` in
`BacktestProofs`); the induction theorems of the library, which take an operator, are out of the provers' reach.

## 3. The AI gateway

| Module | Models | Correspondence |
|---|---|---|
| `Clock` | wall-clock reads, `while dq and old(dq[0]): dq.popleft()` | `since[t]..now` are the times a method called by thread `t` may have read before its lock; a deque is a growing log with a head position, so a property can speak of what was dropped |
| `RateLimiter`, `BudgetLedger`, `ResponseCache` | the classes of `ai/governance.py` | one operator per critical section |
| `GovernanceCalls` | limiter and ledger under the gateway's calling order | one action per critical section |
| `AIPricing` | `PricingTable` | `Project`, `Estimate`; an unknown rate or count makes the cost unknown |
| `AIRouter` | `route`, `_select_model`, `models_for_tier`, request validation, fingerprint | pure operators; `AIRouterCalls` calls them with every budget state and every set of disabled providers |
| `AnswerService` | (abstract) what the gateway promises its callers | |
| `AIGateway` | `invoke` and all it calls | a program counter per thread, one action per critical section, attempt or row; `calls` is the history of requests |
| `AIPolicyProofs`, `AIGatewayProofs` | | lemmas about the operators and theorems about router, limiter and ledger; theorems about the gateway, which cite those lemmas |

The gateway's chain is `rate -> lookup -> claim -> route -> budget -> admit -> get -> call ->
account -> store -> audit -> release`; a refusal sets `err` and goes to `release` (the
`finally` of `_invoke`) if the claim is held, then to `fail`.

Left out: `GatewayStats`, prompt and evidence text (a prompt is a model value), provider
wire formats, the month window in the gateway runs (`MCGovernance` has it), `reset` and
`clear`, which only tests call.

### Runs

| Run | Question | Answer |
|---|---|---|
| `MCGateway` | `SingleFlight`, `NoLeakedClaim`, `PolicyHeldAtCall`, `CachedAnswerSound`, `AnswersAudited` with outages, a restart, unpriced usage, an audit table that may reject any row and a moving clock | hold |
| `MCGatewayLive` | `EveryRequestEnds`, `ImplementsAnswerService` | hold |
| `MCGovernance` | `NoHitForgotten`, `NoSpendForgotten`, `OvershootBounded`; `RoutingPolicy` of the router, which shares no state with limiter and ledger (`MCSpec` drives one or the other): no substitution across tiers, privacy outranks, escalation of one visible tier, labelled downgrades | hold |

The gateway's pre-route check passes an unknown cost, for which the ledger always answers
HEALTHY (`ai/gateway.py:229`), so the gateway never routes under a warning, although
`ai/governance.py:28` says that a "router prefers cheaper tiers" then. `MCGovernance` exercises the
routing under both states; `Degraded` of `AIGateway` is what the gateway really computes.

Bounds. Two threads are enough for the races here: every property is about a pair of
threads or one thread and the environment, and the theorems below remove the bound for the
safety ones. Two requests reach every step of the chain, a duplicate, a cache hit and a
refusal; windows are one or two ticks long, so that an entry can be inside one window and outside another
within `MaxTime`. Limits are small enough for every limit to be hit (the mutants that
weaken a limit are all caught).

Fairness. `MCGatewayLive` assumes weak fairness of each thread's `Step`: the pool runs its
threads, no lock is held across a blocking call, and both providers pass a timeout to their
client. Nothing is assumed of the operator, the clock, restarts, or of requests arriving.

Further things the code does, noticed while modelling. `cache.get` and `cache.begin` are
separate critical sections, so a thread that missed the cache just before another stored the
answer can claim just after the other has released, and pays a second time (`SingleFlight` only
forbids paying at the same time). The month window drops entries of any month other than the
caller's (`ai/governance.py:68`), a later one included. With no local model the router raises,
where `docs/AI_ROUTING_POLICY.md:155` escalates. The fingerprint leaves out the
policy fields that pick the tier (`ai/schemas.py:232`), so `CachedAnswerSound` can only
promise an answer to the same question, not one from the same tier.

*The audit table and the docs.* `ai/usage.py:28` and `docs/ai-gateway.md:166-168` say that every
request writes one row, a cache hit included. The code does not: a budget refusal writes two,
and an answer served from the cache none (`Lookup` returns without a row). So `AnswersAudited` asks
for one success row for a provider's answer, allows two only where the budget refuses, and says
nothing of a cached answer. Nor is a row written always stored: `_record` swallows what the
database raises, so each row carries `stored`, which in `MCGateway` may be false for any of
them, and what is shown is that the caller is told the same either way (the mutant lets the
exception through).

### Proofs

For any number of threads, requests, models and providers, any limits, windows and costs:

* `AIPolicyProofs!RoutingPolicyHolds`: the four routing properties for every model list and
  every set of requests that validation accepts. The work is in `AIPolicyProofs!RouteFacts`,
  which characterises what `Route` returns.
* `AIPolicyProofs!OvershootIsBounded`, about `GovernanceCalls`. `OvershootBounded` is not
  inductive: nothing in it says how many threads are between check and record. `CallsInv` counts
  them (`HitsFit`, `SpendFits`): what a window holds plus what the threads that passed the check
  may still add stays within the limit and one call of every thread. The sum over a window is a
  fold over a sequence that only grows, so the lemmas about `Total` (monotone, additive at the
  end) carry the step that records; the steps that move the clock only take entries out of a window.
* `AIGatewayProofs`, from the inductive invariant `IInv`: `GatewayTypes`, `OneFlightPerQuestion`
  (SingleFlight), `ClaimsAreExact` (NoLeakedClaim), `PolicyHolds` (PolicyHeldAtCall),
  `HitsAreKept` (NoHitForgotten) and `SpendIsKept` (NoSpendForgotten). `NoLeakedClaim`
  is not inductive by itself: a release removes the holder's fingerprint, which is right only if no
  other holder has the same one, so `SingleFlight` is a conjunct; `PolicyHeldAtCall` needs that
  the decision a thread carries from `route` on was routed from its own request, and that attempts
  are counted from zero. The "never forgets" conjuncts need that a stamp is never later than
  `now` and that a deque's head is the least kept position (`PopLeftFacts`).
* `AuditsAreTrue` (AnswersAudited) and `CacheIsSound` (CachedAnswerSound), from `HInv` on top of
  `IInv`: no two threads work on one entry of the history (`JobsApart`), each position of
  the chain has written the rows that belong to it and no other (`ChainOK`), a pending entry
  has a thread (`Owned`), and a cache entry comes from a delivered provider answer (`EntryOK`).
* `GatewayImplementsService`: the refinement, that is, the initial states and every step of the gateway,
  restarts included, map to the initial state and a step or a stutter of `AnswerService`. The map goes
  through the in-flight set and the owners, so it rests on both invariants.
* Assumptions: only the named ASSUMEs of the modules (limits are naturals, keys and
  fingerprints cover the requests, there is a largest cost, and so on).

Model-checked only: liveness (`EveryRequestEnds`).

## 4. Paper trading

| Module | Models | Correspondence |
|---|---|---|
| `PaperAccounting` | `quant/performance/portfolio.py` | `ApplyBuy`, `ApplySell` on (quantity, average cost, realized profit), in whole units with the code's rounding to the nearest unit standing for its six decimals |
| `PaperTrading` | the open and close endpoints, `paper_trading/proposals.py`, `portfolio_repository.py`, `tracking.py`, `PortfolioUpdateJob` | a session is one request or job with its own database session: `Begin*` reads the trade, proposal or portfolio row, `ReadPortfolio` and `ReadPosition` the rows the fill is computed from, `Commit*` writes |
| `PaperTradingProofs` | | theorems |

The state is the tables: `cash`, `position`, `trades` (the journal), `proposals`,
`snapshot`, and `ledger`, the sums of the columns of `paper_transactions`, which is what a replay
needs. No row is locked and no row carries a version; the ORM writes back the columns whose
value changed since *this* session loaded them (`Overwrite`), so a commit can undo another's.
Inserts are protected by unique keys: a position row and a snapshot of the day can be
inserted once, and the second insert ends its session (`FillRefused`, `SnapshotCollides`).

History variables name what the database does not record: `fresh[s]` (nobody else committed
since `s` began), `stale` (some session that was not fresh has committed), `approvals`,
`fills` per proposal and `sales` per trade. They let a property say exactly what survives the
missing locks and what does not.

### Runs

| Run | Question | Answer |
|---|---|---|
| `MCPaperTrading` | `NoOverdraft`, `LedgerReplaysUnlessStale`, `ApprovalGate`, `ClosedMeansSold`, `SnapshotIsPointInTime` with two sessions, two portfolios, two prices | hold |
| `MCLedgerReplay` | `LedgerAlwaysReplays`: portfolio_repository.py:5-6 "always reproducible by replaying" | violated: two fills read the same balance, the second overwrites the first |

Bounds. `MaxTrades` and `MaxProposals` are one each: the races are between two sessions on one
row, and a close, an execution and a snapshot can still overlap an open on the same position.
`MCPaperTrading` creates its two portfolios at any moment, so a close, which resolves "the only
portfolio", meets one or two of them and is refused with two (`Ambiguous`). Cash of 10, quantities
of 10 and prices of 1 and 2 make the cheap buy spend the whole balance, every other buy
unaffordable until a sale, and a sale even or at a profit; sessions and portfolios are
interchangeable, which the run uses as symmetry. `MCLedgerReplay` has one portfolio and cash of
20, so that two buys can both read a balance that covers them. The theorems drop all these
bounds, and with them come the sales at a loss. That an executed proposal is filled on its own
terms in its own portfolio (`FilledAsProposed`) is proved and in no run.

What the exemption of stale commits leaves open is what the code really allows. Two closes that
both found the trade open sell it twice, 20 of 10 held, although `docs/portfolio.md:52-55` and
`portfolio_repository.py:147` promise that overselling is refused: the position each sale is
checked against was read before the other's commit. `NoOverdraft` therefore says of the *stored*
columns that they are never negative, in every interleaving, and of what was *traded* that it
never exceeds cash and holdings unless such a commit happened; `ClosedMeansSold` allows one sale of
a trade per overlapping session and one where none overlaps. In the same way two executions can
fill one proposal twice, and a fill can tear a snapshot.

`CommitClose` closes the trade whatever is left of the position, as the endpoint does;
`docs/paper-trading.md:50-51` and `journal.py:131-132` say that a sale closes a trade only when the
position is flat, which is what `journal_paper_fill` would do. Nothing calls it, so an approved
proposal that sells a position to nothing leaves the trade open, and the close handler closes a
trade whose position is not flat. No property takes a side there.

No fairness is assumed and no liveness stated: every step is a person's request or a
scheduled job, and nothing obliges a person to close a trade or decide a proposal.

Abstractions. Fees are zero, because no caller passes any. A proposal is drafted in one step:
it reads one position and inserts one row whose size only a human decides on later. The
snapshot job handles one portfolio per session, where the code handles them one after the
other in one session, and a snapshot keeps cash and quantities, from which the valuation
follows given prices; there is one snapshot date. Stops, R-multiples, win/loss labels and
notes are left out: no decision reads them. `journal_paper_fill` is left out: nothing calls it
outside its tests, so a position that comes from an executed proposal shows in no journal row,
whatever `routers/paper_trades.py:9-10` says of the two being indistinguishable.

### Proofs

All for any number of sessions, portfolios, assets, prices and quantities.

* `Base` is what every interleaving keeps: the types, that balances and quantities *as stored and
  as read* are not negative (`Stored`, `SeenSound`), that a task names rows that exist
  (`TasksOK`), and that what is approved or executed was approved by somebody (`Vetted`).
  `NeverOverdrawn` is not inductive without `SeenSound`: a commit writes what was read plus the
  fill, so it is the read balance that must cover the cost. From `Base`: `PaperTypes`.
* `Exact` adds `FreshOK`: a fresh session's reads still equal the rows, and the status it was
  admitted on still holds. Together with the three history invariants it is inductive:
  `LedgerReplays`, `GateHolds`, `NeverOverdrawn` (a ledger that replays adds up to the stored
  columns, which `Base` bounds), `SnapshotsAreTrue`.
* `Claimed` counts: the sales of a trade plus the sessions about to sell it never exceed the
  sessions, because a session claims an open trade only and only a commit, which gives up a claim,
  sells. With it, `ClosedOnce`.
* `Faithful` says that an executing session carries its proposal's terms; `TermsKept` that no step
  changes a proposal's terms: `ProposalsFilledAsProposed`.
* The only assumption is `PaperAssumption` (initial cash is a natural number, quantities and prices
  are positive, there is a portfolio and an asset to name, the sessions are finitely many).

## 5. The worker and the market update

| Module | Models | Correspondence |
|---|---|---|
| `Schedules` | `scheduler/schedule.py` | `IsDue`; time is counted in ticks, `DayLength` of them to a UTC day |
| `Scheduler` | `scheduler/scheduler.py`, the three commands of `main.py`, `job_repository.py` | a process builds a context (`BeginCycle`), decides what is due (`PlanCycle`), and for each planned job starts an attempt and ends it with a committed row; `run <job>` (`RunManually`) skips the decision |
| `SchedulerProofs`, `MarketUpdateProofs` | | theorems (`SchedulerProofs` also those of section 9) |
| `MarketUpdate` | `data/normalization/validation.py`, `jobs/daily_market.py`, `registry.py`, `price_repository.py` and the two small repositories beside it | which bars of an answer are kept and the issues recorded about the others; one action for each read, answer, flush and commit of a run; a run's uncommitted rows are its `tx` |

A job of `Scheduler` is its outcome: done (SUCCESS and PARTIAL, which every query treats alike),
failed or skipped. `MarketUpdate` is one such job from the inside. The two meet in the session:
a job that raises is rolled back (`Fail`) and gets its FAILED row (`EndAttempt`). The history
field `saw` of a row is the length of the table when its process asked what was due;
`heard` and `asked` in `MarketUpdate` are the notable bars committed runs received and the days
they requested.

Two processes stand for the worker loop and a command typed while it runs, or for two replicas.
An insert that meets another transaction's uncommitted row with the same key waits (`Flush` is
not enabled); when the other commits, it fails (`Collide`); when the other is rolled back, it
goes through. That is what PostgreSQL does with `uq_prices_asset_ts_interval`.

### Runs

| Run | Question | Answer |
|---|---|---|
| `MCScheduler` | `NoEarlyRepeat`, and `FaultsAreRetried` under fairness, with a lost process, failed and skipped attempts and a manual run | hold |
| `MCMissedDay` | `NoDaySkipped` under fairness, one process and no fault: scheduler.py:5-6 "never skips a missed one" | violated: a run planned before midnight and started after it is taken for the new day's |
| `MCMarketUpdate` | `WindowsCover` (no hole, no inverted window), `BarsAccounted` (every bar heard for a new timestamp is stored with its close or an issue; nothing generated or implausible is stored), `NoDeadlock` | hold |

Two promises that the code does not keep. `scheduler.py:5-6` and `docs/resilience.md:67-69` say
that a missed job is never skipped, but `started_at` is read when the attempt begins
(`scheduler.py:86`), so a cycle begun before midnight that stamps its run after midnight makes the
new day's run not due. `MCMissedDay` finds it, and `FaultsAreRetried` exempts it by name
(`SlotTaken`): it says that nothing *else* leaves a day without its run. `daily_market.py:35-36`
and `docs/scheduler.md:48-50` re-fetch an overlap so that "late vendor corrections" are picked up,
but `price_repository.py:59` skips every stored timestamp, so a revised close is fetched and thrown
away without an issue. `BarsAccounted` compares closes and so cannot hold of such a bar: it is
stated of the *notable* bars of an answer, those of a timestamp the table did not hold when they
came and the malformed ones, and claims nothing of the others. In the run the fallback quotes
another close than the primary and either may correct its own, so both kinds of bar occur.

Bounds. In `MCScheduler` a day is two ticks and the job is due in the second one, so there is a
time before and after the hour in each of two days, and midnight can fall between any two steps;
two attempts, one fault and one manual run give a retry that succeeds, one that does not, and a
repetition. `NoEarlyRepeat` allows exactly the repetition the code cannot see: two processes that
planned the job before either wrote its row.

In `MCMarketUpdate` a tick is a day. Four days are what a window that started from today
instead of from the newest bar needs to leave a hole; `Backfill` is three, the whole
past: with fewer, two first runs of which one is days late leave a hole between their backfills,
which the code's 400 days never meet. `Overlap` is one, the least with which a bar stamped a day
ahead does not invert the window; the code has five. `MinCloses` is four. The future tolerance
is a day, as in the code. A correction counts as a fault, like an outage. The clock may move between any two steps, so a run can be
days behind; `NoInvertedWindow` (in `WindowsCover`) says what then remains true. With days of one tick all providers stamp
alike; the configuration has a fallback that answers and a synthetic provider after it that
must not.

Fairness. `FairSpec` of `Scheduler` assumes that a process always takes its next step: the loop
polls for ever, and a job's calls have timeouts. It assumes nothing of the clock, the faults or
of an operator. `FaultsAreRetried` says that once faults and clock have come to rest every
job is done for the day, unless its slot was taken; time is bounded in the run, so they do come to rest.

Abstractions. The poll interval is left out: a cycle may begin at any time. Reads of committed
rows are at READ COMMITTED. A bar is a timestamp, a close (0 for a bar some OHLCV check refuses)
and whether it was generated; what a provider's parser drops (Yahoo's null bars) never reaches
the job and is not in its answer. `asked` counts weekends like other days. A job's
`knowledge_store` and `registry` are given.

### Proofs

For any jobs, schedules, number of processes and bounds, from `DayLengthAssumption` and the
named assumptions of `Scheduler`:

* `SchedulerTypes`: types, and that a process has something planned exactly while it runs a cycle.
* `NeverRepeatedEarly`: `NoEarlyRepeat`. It is not inductive, because a row is written long after
  the decision it records, so `IInv` follows the decision: what a process has still planned is
  clear of every done run its due check could see, measured at the cycle's clock (`Careful`),
  and an attempt starts no earlier than that clock, so it is clear at its start too (`RowsClear`).
  The table is append-only (`OldRowsStay`), so what a check saw stays where it was.

`MarketUpdateProofs`, for any number of processes, assets and providers, any day length, tolerance,
overlap and backfill. Its invariant has three layers.

* `BaseInv`: types; a run's batch belongs to its current asset and what it has inserted to
  earlier ones (`Placed`); no key is twice in the table, in a transaction or in two
  transactions (`Apart`, `TxApart`). It gives `MarketTypes` and `NoRunsDeadlock`: a run that waits
  needs a row of an asset after all it has inserted, so the run that waits for the greatest
  asset waits for nobody.
* `HeldInv`: what a run holds, committed or not, is well-formed, not of the future and not generated, and its
  answers are accounted for by what is stored, held or recorded. It gives `BarsAreAccounted`, and
  `NoWindowInverts` for the windows: a stored bar is at most a day ahead of the clock of the run
  that stored it, and `Overlap` takes that day back.
* `CoverInv`: the days asked about are joined to the stored bars and to each other (`Anchored`,
  `Bridged`, `Sound`, `Reached`). It gives `WindowsCoverTheDays` under one hypothesis, `Prompt`: no
  run goes on for longer than a backfill. The hypothesis is needed. With an overlap of two days a
  run that stalls for longer than a backfill has computed a window that ends before the days
  another run, which found no bar, started its own backfill at, and the days between are never
  asked about. In the code a backfill is 400 days, so no run gets near it; `MCMarketUpdate` covers
  its whole time with `Backfill`, so `Prompt` holds in all its states.

The proofs need the named assumptions of `MarketUpdate` only. Model-checked only: `FaultsAreRetried`
(liveness).

## 6. Back-tests and experiments

| Module | Models | Correspondence |
|---|---|---|
| `Backtest` | `backtesting/engine.py`, `market_view.py`, `routers/backtests.py` | per bar: fill the pending orders at its open one by one (`FillNext`), show the strategy the bars up to its close and queue what it decides (`Close`); at the end list what never filled; `Load`, `Refused`, `Save` are the handler's |
| `BacktestStrategies` | `strategy.py`, `sizing.py` | functions of what a strategy remembers and of the view |
| `WalkForward` | `experiments/config.py`, `walkforward.py`, `runner.py`, `backtesting/walk_forward.py` | periods, folds, slices, windows, provenance |
| `BacktestRuns` | the three callers of the engine | what each hands it; the properties |
| `BacktestProofs` | | theorems |

`MCBacktest` checks two runs of one request side by side over histories that differ in one bar,
so that `NoLookAhead` can say what a run may depend on: as long as the histories agree up to the
open, or the close, the runs are in the same state. `BooksAgree`: every order is filled, pending or listed as
unfilled; cash is never negative and replays from the fills; lots and closed trades tell the same story as
positions. `TestPeriodsSealed`: no bar of a test period, warm-up and publication lag included,
reaches training; folds do not overlap; nothing generated is certified. All hold.

Bounds. Four days and two tickers give a missing bar, an entry, an added entry, a partial and a full
sale, and an order left on the last bar; a commission of 5 % and a slippage of 10 % make a full-cash entry
exceed the cash it was sized for. The requests are eight combinations of caller, strategy and sizer, a
rejected range, and the windows a split yields.

Where comments and code differ. `BuyAndHoldStrategy` "buys each ticker once" (`strategy.py:35`) but
remembers that it issued the order, so after an unfilled entry it holds nothing for good; the order is
in the list of unfilled ones. `walk_forward.py:116` says a run starts at the training period to warm indicators up; it
starts at the test period, and the indicators see earlier bars only through the view. A size of zero is said to record no fill (`sizing.py:25`); the
engine also lists the order as unfilled. `BacktestResult.unfilled` is said to list the "orders that could not fill" (`schemas.py:104`, and
`docs/backtesting.md:67-68`); two returns of the engine list nothing, `engine.py:237` for a buy trimmed to nothing
and `engine.py:290` for a sale of no share. The model has both. Neither is reached with what the
repository ships, which is what `BooksAgree` says: the sizers of `sizing.py` ask for no more than cash divided by price, so a
buy they size to something has cash and is trimmed to something, and the strategies sell with strength 1. A custom
sizer that ignores cash, or a strategy that sells with strength 0, would lose orders without a trace: the theorem needs
both contracts. Lots being whole, the model lists a buy trimmed to a part of a lot as unfilled where the code
fills the part, and sells a part of a lot as one. `ClosedTrade` is said to be "a round trip, from first entry to flat" (`schemas.py:49`); the engine
appends one for every sale, partial ones included, which is what `TradesMatchPositions` adds up. Performance statistics are left out: arithmetic on real numbers.

### Proofs

`BacktestProofs`, for any number of runs, tickers and days, any histories and requests:

* `EngineNeverLooksAhead`: `NoLookAhead`, for every strategy and sizer, because `OnBar` and `Size` are
  constants there: the engine hands them nothing else than the view. The invariant is over pairs of runs and
  inductive once the phases are included.
* `EngineTypesHold` and `BooksAlwaysAgree`: `TypeOK` and `BooksAgree`, for every strategy and sizer that keep
  to a contract: a strategy answers signals with a known ticker, one of the three actions and a whole strength, positive when it
  sells (`StrategyContract`, with `Memories` the states it may be in); a sizer answers a whole number of lots
  that cash pays for at the price, commission aside (`SizerContract`). `StandardSizerFits` shows that the
  three sizers of the repository keep to theirs; for its strategies the provers stop at `SelectSeq`.
  The inductive invariant is `LoopInv`: every run has the types of the loop's local variables and balanced
  books (`EngineOK`). One lemma per operator says what it does to the books: `FillBuyKeeps`, `FillSellKeeps`,
  `FillHeadKeeps`, `CloseBarKeeps`, `ExpiredKeeps`. The books are sums over sequences, hence the lemmas on
  `SumOf` (`SumAppended`). That cash stays non-negative rests on `AffordableFacts` (the trimmed
  quantity and its commission fit the cash they are trimmed to) and, for sales, on the commission being
  no larger than the notional.
* `TestPeriodsStaySealed`: `TestPeriodsSealed`, for every plan that `rolling_folds` accepts, every warm-up,
  lag and history. Disjoint test periods need `MultiplesApart`, and that the folds fill the period needs the
  last one (`NoRoomForMore`). The invariant is that request and histories never change (`Sane`).

Assumptions on the constants: bars are stamped with days (`LoadedAssumption`, `HistoryAssumption`) and have a
positive open (`OpenAssumption`: the engine takes what it is given); plans are those `rolling_folds` does not
refuse (`PlanAssumption`); rates are not negative and a commission is at most the notional
(`MoneyAssumption`). `BacktestConfig` does not check the last one: with a commission above 100 % a sale
would take cash below zero.

## 7. Research, theses and the vault

| Module | Models | Correspondence |
|---|---|---|
| `ChangeDetection` | `change_detection.py`, `priority.py`, `ai/escalation.py`, `_recommendation` | which changes a situation shows, with magnitudes in units of a ten-thousandth, scores, and what the escalation policy says of them |
| `KnowledgeStore` | `obsidian_knowledge_store.py` | a request takes effect some number of times and the caller is told something; only time-outs and refused connections are repeated |
| `ResearchDesk` | `intelligence.py`, `research_queue_repository.py`, `routers/research_queue.py`, `research.py`, `thesis.py`, their agents | a session per request or job: scan and commit; process, ask, write the note, save, finish; dismiss; review, note, commit |

`MCResearch`: `DuplicatesOnlyFromOverlap`, `FoundIsQueued`, `DoneIsWrittenUp`, `AssessmentsAudited`,
`RecommendationsFitTheEvent`. They hold, with exceptions named by history variables: `raced` holds the
keys two overlapping scans inserted at once, `disturbed` the notes that failed or overlapping
publishes wrote. Two open entries for one change, and a done entry linked to another request's
document, do happen, and exactly then.

Bounds. Two sessions suffice for each of the races, which are between a reader and a writer of one
row; three requests let one follow two that overlapped. One fault, one change of the facts and a
month that passes (46 days: past every staleness limit) each happen at any time. The two situations
and three regimes are chosen so that every kind of change occurs with a magnitude at and above its threshold.

What a language model writes is an identity or a verdict. Prompt assembly and evidence are left out.
`KnowledgeStore` keeps the set of a note's entries: a repeated POST may write an entry twice, which
nothing in the code promises to avoid.

### Proofs

`ResearchDeskProofs`, for any number of sessions, assets, days, requests and faults, any market and any
answers of the models, from the named assumptions of `ResearchDesk`, `KnowledgeStore` and
`ChangeDetection`. None of the properties is inductive: each says something of committed rows
that depends on what sessions under way still hold. `Base` is the shape of sessions and rows; on it stand

* `ScanInv`, which gives `DuplicatesNeedAnOverlap` and `FoundStaysQueued`: a key that a running scan is
  going to insert is in no open entry yet, or two scans inserted it at once; what it has found is going to
  be inserted, or pending, or was closed since the scan read it.
* `ReviewInv`, which gives `AssessmentsAreAudited`: what a review loaded is the current assessment as
  long as no other review of the thesis was committed, and once it is noted its entry is in the
  thesis note and stays there. What is said of a chain of reviews is a lemma about sequences
  (`ChainGrows`), independent of the sessions.
* `PubInv`, which gives `DoneStaysWrittenUp`: an analysis is in no note before it is published; two
  sessions that publish one note have disturbed it; the row a session is about to commit is
  newer than every committed row of its note; a done entry is linked to a committed row.
* `FitInv`, which gives `RecommendationsFit` and, with the others, `DeskTypes`: what is stored and what scans hold
  is on the detector's scales, for any closes, earnings, shares and dates. Its lemmas are about the operators of
  `ChangeDetection`: an observation at its threshold is at least half of the scale (`ScaledFits`), every
  change found fits its type (`FoundFits`), and every score is a fraction (`ScoreFits`).

Each part is kept by the steps of its own kind of session, and every other step leaves alone what it reads.

## 8. Signals and learning

| Module | Models | Correspondence |
|---|---|---|
| `RegimeDetector` | `quant/regime/detector.py` | trend, volatility and risk by exact integer arithmetic; whether prices are turbulent is a constant, because volatility is a square root |
| `SignalRules` | `brain/signals/rules.py`, `context.py`, `schemas.py`, `oscillators.py` | each rule with its evidence and confidence |
| `Signals` | the engine, the repository, the API, and the parts of the market update that matter here | tables, the market update in two commits, runs of the engine |
| `LearningMetrics` | `brain/learning/metrics.py`, `period_bounds` | each metric as a function of the tables |
| `Learning` | `publish`, the job, the API's `generate` | note, then row, then commit, in sessions |
| `LearningProofs` | | theorems, also those about `Signals` |

`MCLearning`: `SettledReviewsStand` (a review made after its horizon was over and stored is reproduced by
every later one), `NoteMirrorsReview`, `LineageKept` (a signal is served with the regime its rules
saw, unless its run and a market update overlapped), and `WarningsComeFirst` (a broken thesis is what is
reported; a position more than 20% below its cost is at least an exit review; what is held below its trend or
against the market is not proposed for buying more). They hold. A run of the engine takes its stamp before it
reads (`engine.py:62`, `71`): it is one step where it reads, with a stamp that may lie before an update of the day (`RunStamps`);
that its assets are read one after the other, and may so see two regimes, is left out.

Bounds. Four days with a horizon of two and months of one day: a review may be early, exactly settled or
late. Two events (a signal run, a review, a trade, a document) are enough for a signal and its
outcome; updates end on the day they began. A caller's `as_of` is today or a day back. Theses start absent
or invalidated; one company, whose capitalisation and sector are constants. Six situations make each rule fire.

What the code does that its text does not say. `docs/signal-engine.md:65` has the exit review fire at "≥20%
below cost"; at exactly 20% the code's float test (`rules.py:145-146`) does not, because 8 / 10 - 1 is just above
-0.20 (with cents the rounding may go either way), so `InDrawdown` is strict, and a close at exactly 20% is in the run. `forward_return` promises None "when the horizon
hasn't elapsed" (`metrics.py:64`), but returns the move to the newest bar of an unfinished horizon
(`metrics.py:79-84`), so an early review counts it as a verdict; `SettledReviewsStand` is
about settled ones for that reason. A warning whose own outcome is still unresolved does not keep
its asset from being counted as a false negative (`metrics.py:176-182`, `schemas.py:147`). Thesis accuracy ignores the
period. An update writes the columns it changed (`learning_repository.py:34-38`), so a review
without a note, committed over a row that got its note since it was looked up, puts its metrics beside a note that shows others;
`NoteMirrorsReview` exempts it. It takes three publishes, one more than
the run's two events: an attempt to prove the property found it. `generate` answers with the newest review of the kind, which need not be the one just made
(`routers/learning.py:89`), and any `as_of` is accepted. The learning job runs every 30 days, not every
month (`main.py:57`), so it can skip one. The exit review's trigger on an invalidated thesis is
never reached, because the thesis review comes first. `SignalEngine` has no caller outside tests.

### Proofs

`LearningProofs`, for any number of sessions, assets, days and events, any histories, situations,
verdicts, companies and trades, any months, horizon, windows and `as_of` offsets, whatever the
detector takes for turbulent, from the named assumptions of `RegimeDetector`, `SignalRules`, `Signals`,
`LearningMetrics`, `KnowledgeStore` and `Learning`.

* `HonestSignals` is about the rules alone, so `WarningsFirst` holds in every step. Each rule has one lemma on its evidence
  (`ExitReviewOK` and its like: of known kinds, at least one piece, some support when it fires);
  `FirstRule` says that a signal is the first that fires, and what comes earlier excludes the rest.
  Full confidence is a claim about rounding: a share reaches 100 percent only when nothing is missing (`ShareFacts`).
* `LearningOK` is the inductive invariant. Its part `TablesOK` is kept by the market, the engine and the reviewers.
  `LineageKept` is not inductive: an update under way commits an observation with an old stamp, so a
  signal must be known to be older than the update if its run met none (`RowOK`). From it: `LearningTypes`, `Lineage`.
* `ReviewsStand` rests on `MeasuresStay`: the three measures of a period whose horizon is over and
  stored do not change in any step. Bars come only after the window (`ForwardStays`), new rows
  are later than the period (`LaterRows`), and acknowledging a signal renames it, which
  a bijection shows harmless to the counts (`AccuracyStays`). The property speaks of stored rows; the invariant also covers
  those still being written.
* `NotesShowReviews` rests on `NotesOK`: of an undisturbed note, whoever has written it and not committed wrote what it shows,
  and if there is nobody it shows the stored review that names it.

## 9. The night: jobs, reports and health

| Module | Models | Correspondence |
|---|---|---|
| `HealthChecks` | `observability/checks.py` | each check as an operator that returns its verdict |
| `NightlyWork` | `brain/reporting/engine.py`, `apps/worker/jobs/reporting.py`, and what the worker's jobs leave for both | extends `Scheduler`: the end of a market update also stores the day's bars, the end of a report job writes its note; `Stored` is what the checks query |

`MCNightly` asks three questions, and all hold. `PricesBeforeReport`: no scheduled daily report is made before
the market update of its day was attempted. When both are due at once, as after an outage, only
the alphabet ensures it (`due_jobs` sorts by name), which is why the two are due at the same hour in this run. One process
suffices: any process that plans a report plans the update with it unless the update's
row is already there, and the proof covers any number of them. `NothingFallsBetween`: of two reports of one kind that adjoin, the later shows every
dated record of its days that was stored in time, and none of another time. `HealthIsHonest`: with a job whose latest
attempt failed, or a balance the ledger does not explain, the endpoint says unavailable; when no update has served a recent day it does not
say healthy; and it says unavailable for no other reason than these and its dependencies. The lost fill
that the check finds is the one `MCLedgerReplay` derives.

Bounds. Days of two ticks, weeks and months of two days, four ticks of time; the providers have bars of the days 0 and
2; one fault, one attempt per job and one recorded change. A probe sees the newest three rows where the code's sees 200, so
that rows fall out of its sight. No manual runs (`MCScheduler` has them). A report reads and writes in one step, and
the endpoint reads all tables at once; in the code a fill committed between its two queries shows as a
mismatch until the next probe. The cut-offs of a section's list (15 signals, 5 queued, 5 movers) and the portfolio section
are left out.

What the model makes visible. Weekly and monthly reports are scheduled by interval from
their last start, which drifts: a weekly report that runs a day late leaves a day no report covers, and a
monthly one that runs every 30 days with a window from the first of its month leaves the rest of the previous
month uncovered. `Adjoins` in `NothingFallsBetween` is the condition under which nothing is lost.
"Reports run last, so they describe a fully-updated day" (`main.py:52`) holds by the clock but not in a catch-up cycle,
where `daily_report` precedes `portfolio_update` and `research_refresh`. The text "all jobs have
since succeeded" (`checks.py:498`) is also given for a job whose later run was SKIPPED or whose failure is not among the 200 rows.

### Proofs

`SchedulerProofs` also holds the theorems about `NightlyWork`, for any jobs and schedules, number of
processes, assets, served days, configurations, limits of the checks and bounds. A step of `NightNext` is a step of the
scheduler or leaves it alone (`NightIsScheduled`), so the scheduler's invariant comes along.

* `ReportsFollowPrices`, and `PricesComeFirst` for `Spec`, that is with manual runs:
  `PricesBeforeReport`. The strengthening (`OrderInv`) says that a process that has the report planned and the
  update not has a row of an update of its cycle's day to rely on: the one its due check saw
  (`ReportFollowsUpdate`, which takes the newest of the done runs as `get_last_successful_run` does) or
  the one it wrote itself. It rests on `OrderAssumption`, which is what `build_scheduler` registers:
  both jobs daily, the update no later than the report, and first in the alphabet. Drop the last and the
  theorem fails, as the mutant `CurrentReversed` shows.
* `ReportsLoseNothing`: `NothingFallsBetween`. In `NightInv` each report in the vault tells of its period and
  leaves out no record stored before the report was made (`Told`). Records are stamped when they are stored, so what
  is stored later takes nothing from it (`ToldLater`); a period that adjoins another begins no later than
  the day after it (`AdjoiningPeriods`).
* `HealthTellsTheTruth`: `HealthIsHonest`. The worst verdict wins (`WorstWins`); the newest row of
  a failing job is a failed one and within the probe's sight if any failed row of it is
  (`BrokenIsFailing`, `SeenNewer`); and a day has bars exactly when a market update that served it left its
  row (`BarsTell`), so old bars and a silent worker are the same thing (`SilenceAges`).

## 10. Not modelled

* **Lineage** (`observability/lineage.py`) is a chain of read-only queries. Its promise is "not
  recorded" instead of a guess (`lineage.py:10-12`), yet `trade_lineage` shows the newest
  proposal of the trade's asset, whichever trade it led to.
* **Links in reports**: `LinkResolver.exists` compares base names, so a link may name another folder's note.
* **Portfolio and market views, the dashboard**: they only read.
* **Watchlists, company update**: an insert or upsert under a unique key; what they store is an input of `ResearchDesk`, `Signals` and `HealthChecks`.
* **Prompts, evidence, market context, the Claude client, provider adapters**: text and one HTTP call each, which
  the gateway model represents by their outcomes.
* **Performance statistics, volatility, MACD, statistics of experiments**: arithmetic on real-valued series, out of TLC's reach.
* **Configuration, models, migrations, deployment**: declarations; each column that matters is in the module of the component that writes it.

Out of the prover's reach and left to TLC: liveness under fairness (`EveryRequestEnds`,
`FaultsAreRetried`), whatever depends on ENABLED, and what a fold of the library computes for every input.
