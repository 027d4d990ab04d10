---------------------------- MODULE NightlyWork ------------------------------
(***************************************************************************)
(* The worker's jobs together with what depends on their order: the report *)
(* jobs (apps/worker/jobs/reporting.py), which describe what is stored     *)
(* when they run, and the health endpoint, which judges the worker by the  *)
(* trail it leaves and by the age of what it stored.                       *)
(*                                                                         *)
(* Scheduler decides what runs when.  Here a run of daily_market_update    *)
(* also stores the day's bars, and a run of a report job writes a note;    *)
(* a report reads and writes in one step, at the end of its attempt, and   *)
(* the endpoint reads all tables at once.  The rest of the system is what  *)
(* it records meanwhile.                                                   *)
(***************************************************************************)
EXTENDS Scheduler, HealthChecks

CONSTANTS
    WeekDays, MonthDays,    \* days in a week (7) and in a month
    Assets,
    ServedDays,     \* days the providers have bars for
    Backlog,        \* dated records there are at the start
    Recorded,       \* tables the rest of the system may write to
    Configs,        \* configurations the endpoint may run with
    MaxChanges      \* bound on what the rest of the system does

ASSUME NightAssumption ==
    /\ Assets # {} /\ Configs \subseteq Configurations
    /\ {WeekDays, MonthDays} \subseteq Nat \ {0} /\ MaxChanges \in Nat
    /\ \A e \in Backlog : e.at \in Nat

VARIABLES
    closes,         \* the days each asset has a stored bar of
    entries,        \* dated records, see below
    vault,          \* the reports in the vault
    books,          \* the portfolio's ledger, summed, and its cash balance
    changes         \* what the rest of the system has done (bounded)

desk == <<entries, books, changes>>

nightVars == <<vars, closes, vault, desk>>

-----------------------------------------------------------------------------
(***************************************************************************)
(* The reports (brain/reporting/engine.py): which stored records the       *)
(* report of a period shows.  Every section is read from the database, no  *)
(* language model takes part, and wording and links are left out.  A       *)
(* stored record is [table, at]: a table and the time stamp the report     *)
(* selects it by.  A period is a set of whole days.                        *)
(***************************************************************************)

Kinds == {"daily", "weekly", "monthly"}

Month(day) == day \div MonthDays

\* Mutant: a week that ends today began seven days ago, less two.
FirstDayOff(kind, asOf) ==
    CASE kind = "daily" -> asOf
      [] kind = "weekly" -> asOf - WeekDays + 2
      [] kind = "monthly" -> Month(asOf) * MonthDays

\* Where the period ending on `asOf` begins (daily, weekly, monthly).
FirstDay(kind, asOf) ==
    CASE kind = "daily" -> asOf
      [] kind = "weekly" -> asOf - WeekDays + 1
      [] kind = "monthly" -> Month(asOf) * MonthDays

\* _window and _in_window: from the first day's first instant to the last's last.
InWindow(at, window) == Date(at) \in window

Windowed(table, window) ==
    {e \in entries : e.table = table /\ InWindow(e.at, window)}

\* The latest observation, whatever the period.
RegimeSection ==
    {e \in entries : e.table = "regime" /\
       \A other \in entries : other.table = "regime" => other.at <= e.at}

\* Moves between the last two stored closes of each asset with two.
MoversSection == {asset \in DOMAIN closes : Cardinality(closes[asset]) >= 2}

SignalsSection(window) == Windowed("signal", window)

\* Documents of the period, and what is pending now.
ResearchSection(window) ==
    Windowed("document", window) \cup {e \in entries : e.table = "pending"}

ThesisSection(window) == Windowed("review", window)

TradeSection(window) == Windowed("closed_trade", window)

WatchlistSection(window) == Windowed("item", window)

\* The newest learning review, of any kind.
LearningSection ==
    {e \in entries : e.table = "learning" /\
       \A other \in entries : other.table = "learning" => other.at <= e.at}

\* What a report of this kind selects by its period.
DatedTables(kind) ==
    {"signal", "document", "review"}
      \cup (IF kind # "daily" THEN {"closed_trade"} ELSE {})
      \cup (IF kind = "weekly" THEN {"item"} ELSE {})

\* _build, at time `at`.  A report replaces the one its path already holds:
\* the path is the folder of its kind and the last day of its period.
Build(kind, asOf, at) ==
    LET window == FirstDay(kind, asOf)..asOf
        trades == IF kind = "daily" THEN {} ELSE TradeSection(window)
        last == CASE kind = "daily" -> {}
                  [] kind = "weekly" -> WatchlistSection(window)
                  [] kind = "monthly" -> LearningSection
    IN  [kind |-> kind, start |-> FirstDay(kind, asOf), end |-> asOf, at |-> at,
         movers |-> MoversSection,
         shown |-> RegimeSection \cup SignalsSection(window)
                     \cup ResearchSection(window)
                     \cup ThesisSection(window) \cup trades \cup last]

SamePath(a, b) == a.kind = b.kind /\ a.end = b.end

\* publish
Publish(report) == {n \in vault : ~SamePath(n, report)} \cup {report}

-----------------------------------------------------------------------------
Market == "daily_market_update"

\* build_scheduler registers both once a day, the report at 23:30 and the
\* market update at 22:00, under names that sort the same way.
ASSUME OrderAssumption ==
    /\ {Market, "daily_report"} \subseteq Jobs
    /\ ScheduleOf[Market].kind = "daily" /\ ScheduleOf["daily_report"].kind = "daily"
    /\ ScheduleOf[Market].at <= ScheduleOf["daily_report"].at
    /\ Rank[Market] < Rank["daily_report"]

\* The kind of report a job writes.
ReportOf == [daily_report |-> "daily", weekly_report |-> "weekly", monthly_report |-> "monthly"]

NightInit ==
    /\ Init
    /\ closes = [a \in Assets |-> {}]
    /\ entries = Backlog /\ vault = {}
    /\ books = [expected |-> 0, cash |-> 0]
    /\ changes = 0

-----------------------------------------------------------------------------
\* _ReportJob.run: the report ends on the day of the cycle that planned it.
Report(p, job) == Build(ReportOf[job], Date(process[p].cycle), now)

\* A job that is neither the market update nor a report, or ends without effect.
EndQuietly(p, job, status) ==
    /\ EndAttempt(p, job, status)
    /\ status = "done" =>
         job \notin DOMAIN ReportOf /\ (job = Market => Date(process[p].cycle) \notin ServedDays)
    /\ UNCHANGED <<closes, vault, desk>>

\* Bars of the cycle's day, on the days the providers have any.
EndMarket(p) ==
    /\ EndAttempt(p, Market, "done")
    /\ Date(process[p].cycle) \in ServedDays
    /\ closes' = [a \in Assets |-> closes[a] \cup {Date(process[p].cycle)}]
    /\ UNCHANGED <<vault, desk>>

\* The note is written; a store that took it and then failed to answer
\* makes the job FAILED.
EndReport(p, job, status) ==
    /\ job \in DOMAIN ReportOf
    /\ status # "skipped"
    /\ EndAttempt(p, job, status)
    /\ vault' = Publish(Report(p, job))
    /\ UNCHANGED <<closes, desk>>

\* Nothing a job did is committed before its row; only a note stays.
Die(p) ==
    /\ LoseProcess(p)
    /\ vault' \in {vault} \cup {Publish(Report(p, job)) :
                     job \in {j \in DOMAIN ReportOf : process[p].phase = "run" /\ Current(p, j)}}
    /\ UNCHANGED <<closes, desk>>

\* The loop and run-due; `run <job>` is left to Scheduler.
Work(p) == BeginCycle(p) \/ PlanCycle(p) \/ StartAttempt(p)

End(p) ==
    \/ EndMarket(p)
    \/ \E job \in Jobs, status \in Statuses :
         EndQuietly(p, job, status) \/ EndReport(p, job, status)

-----------------------------------------------------------------------------
Happens ==
    /\ changes < MaxChanges
    /\ changes' = changes + 1
    /\ UNCHANGED <<vars, closes, vault>>

\* A signal, a document, a review, ... is stored.
Record(table) ==
    /\ Happens
    /\ entries' = entries \cup {[table |-> table, at |-> now]}
    /\ UNCHANGED books

\* A fill: ledger and balance in one commit.
Fill ==
    /\ Happens
    /\ books' = [expected |-> books.expected - 1, cash |-> books.cash - 1]
    /\ UNCHANGED entries

\* A stale commit of PaperTrading: the ledger has a row the balance lost.
LoseFill ==
    /\ Happens
    /\ books' = [books EXCEPT !.expected = @ - 1]
    /\ UNCHANGED entries

NightNext ==
    \/ \E p \in Processes :
         \/ Work(p) /\ UNCHANGED <<closes, vault, desk>>
         \/ End(p)
         \/ Die(p)
    \/ Tick /\ UNCHANGED <<closes, vault, desk>>
    \/ \E table \in Recorded : Record(table)
    \/ Fill \/ LoseFill

NightSpec == NightInit /\ [][NightNext]_nightVars

-----------------------------------------------------------------------------
\* The tables as the checks read them.
Stored ==
    [bars       |-> {day * DayLength : day \in UNION {closes[a] : a \in Assets}},
     books      |-> {books},
     reviews    |-> {{e.at : e \in {d \in entries : d.table = "review"}}},
     pending    |-> {e.at : e \in {d \in entries : d.table = "pending"}},
     watchlists |-> {{e \in entries : e.table = "item"}}]

-----------------------------------------------------------------------------
\* "Runs after the daily price update": no scheduled daily report is made
\* before the market update of a day at least as late was attempted and its
\* row written, whether the worker was on time, came back late, or died in
\* between (main.py build_scheduler; due_jobs sorts by name).
PricesBeforeReport ==
    \A k \in DOMAIN runs :
      runs[k].job = "daily_report" /\ runs[k].trigger = "scheduled" =>
        \E i \in 1..(k - 1) :
          /\ runs[i].job = Market
          /\ Date(runs[i].started) >= Date(runs[k].cycle)

\* One report of a kind leaves no day between it and an earlier one.
Adjoins(kind, before, after) ==
    CASE kind = "daily" -> after.end - before.end <= 1
      [] kind = "weekly" -> after.end - before.end <= WeekDays
      [] kind = "monthly" -> Month(after.end) = Month(before.end + 1)

\* Reports of one kind that follow each other closely enough lose nothing:
\* a record that was stored before the first report to end on its day or
\* later is in that report.  What is lost is what was stored after its day's
\* report, or in days no report reached because the job ran late.  And no
\* report tells of a time after its period.
NothingFallsBetween ==
    \A n \in vault :
      LET dated == {e \in entries : e.table \in DatedTables(n.kind)}
          same == {m \in vault : m.kind = n.kind /\ m.end < n.end}
          before == {m \in same : \A other \in same : other.end <= m.end}
      IN  /\ \A e \in n.shown :
               e.table \in DatedTables(n.kind) => Date(e.at) \in n.start..n.end
          /\ \A m \in before, e \in dated :
               /\ Adjoins(n.kind, m, n)
               /\ m.end < Date(e.at) /\ Date(e.at) <= n.end /\ e.at < n.at
               => e \in n.shown

\* The newest attempt of some job, among those a probe looks at, failed.
Broken ==
    \E k \in DOMAIN runs :
      /\ runs[k].status = "failed" /\ Seen(runs, k)
      /\ \A i \in DOMAIN runs :
           runs[i].job = runs[k].job /\ runs[i].status # "failed" => ~StartedAfter(runs, i, k)

\* No market update has served a day of the last `limit` ticks.
Silent(limit) ==
    \A i \in DOMAIN runs :
      runs[i].job = Market /\ runs[i].status = "done" /\ Date(runs[i].cycle) \in ServedDays =>
        now - Date(runs[i].cycle) * DayLength > limit

\* "A process that is running is not a healthy system": whatever else is
\* fine, a job that fails until now, a balance the ledger does not explain
\* and a market update that has been silent for too long are never hidden;
\* and without such a reason the system is not called broken.
HealthIsHonest ==
    LET drift == Distance(books.expected, books.cash) > CashTolerance
        broken == drift \/ Broken
        findings == RecordChecks(Stored, runs, now)
    IN  \A config \in Configs :
          LET verdict == FullHealth(config, findings)
          IN  /\ broken => verdict = "unavailable"
              /\ Silent(PriceStale) => verdict # "healthy"
              /\ verdict = "unavailable" =>
                   broken \/ Silent(PriceCritical)
                     \/ Aggregate(DependencyChecks(config)) = "unavailable"
=============================================================================
