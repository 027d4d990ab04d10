----------------------------- MODULE MarketUpdate ---------------------------
(***************************************************************************)
(* The daily market update (apps/worker/jobs/daily_market.py) with the     *)
(* provider registry, validation and the prices table under it.            *)
(*                                                                         *)
(* A run walks the assets in ticker order inside ONE transaction: for each *)
(* it reads the newest stored bar, asks the providers for the window that  *)
(* starts a few days before it, validates the answer, and inserts the bars *)
(* whose timestamps it did not find.  It commits once, after the last      *)
(* asset, then classifies the regime and commits again.  The worker loop,  *)
(* its replicas and the command line may run it at the same time: the      *)
(* table's unique key makes the second inserter of a bar wait for the      *)
(* first one's transaction and fail when that commits.                     *)
(*                                                                         *)
(* A day has one bar, which a provider may correct; each provider stamps   *)
(* the bars of a day at its own time of day.                               *)
(***************************************************************************)
EXTENDS Schedules, Sequences, FiniteSets

CONSTANTS
    Assets,         \* registered assets
    Rank,           \* their places in ticker order
    Benchmark,      \* the asset the regime is read from
    Candidates,     \* the registry's primary followed by its fallbacks
    Synthetic,      \* the providers registered as synthetic
    Offset,         \* the time of day at which a provider stamps its bars
    Overlap,        \* _OVERLAP_DAYS
    Backfill,       \* _BACKFILL_DAYS
    MinCloses,      \* _REGIME_MIN_CLOSES
    Processes,      \* processes that may run the job
    MaxTime,        \* bound on the clock
    Versions,       \* closes a provider may report for a day
    Quote,          \* the one it reports unless it makes a correction
    MaxFaults       \* bound on outages, defective or corrected answers, lost runs

ASSUME MarketAssumption ==
    /\ Rank \in [Assets -> Nat]
    /\ \A a, b \in Assets : Rank[a] = Rank[b] => a = b
    /\ Benchmark \in Assets
    /\ Offset \in [Synthetic \cup {Candidates[i] : i \in DOMAIN Candidates}
                     -> 0..(DayLength - 1)]
    /\ Quote \in [DOMAIN Offset -> Versions]
    /\ Overlap \in Nat /\ Backfill \in Nat /\ MinCloses \in Nat
    /\ MaxTime \in Nat /\ Versions \subseteq Nat \ {0} /\ MaxFaults \in Nat

VARIABLES
    now,        \* the UTC clock
    prices,     \* committed rows of prices
    issues,     \* committed rows of data_validation_errors
    regimes,    \* committed market regime observations
    heard,      \* the notable bars of the answers of committed runs, see Notable
    asked,      \* the <<asset, day>> those requests covered
    run,        \* what each process is doing
    faults      \* faults so far

\* heard and asked are history: the program does not keep them.
vars == <<now, prices, issues, regimes, heard, asked, run, faults>>

-----------------------------------------------------------------------------
(***************************************************************************)
(* Price-bar validation (data/normalization/validation.py).  A bar is its  *)
(* timestamp and its close (and whatever else it carries); close 0 stands  *)
(* for a bar one of the OHLCV checks refuses (a missing or non-positive    *)
(* price, a high below the low or the body, a low above it, a negative     *)
(* volume).                                                                *)
(***************************************************************************)

\* _FUTURE_TOLERANCE: providers may stamp a bar up to a day ahead.
FutureTolerance == DayLength

\* A mutant of CheckBar without the check against the clock.
CheckBarAnyTime(bar, t) == IF bar.close = 0 THEN "malformed" ELSE "ok"

\* _check_bar
CheckBar(bar, t) ==
    IF bar.close = 0 THEN "malformed"
    ELSE IF bar.ts > t + FutureTolerance THEN "future_timestamp"
    ELSE "ok"

\* The places in a response whose bars pass the check.
Usable(bars, t) == {i \in DOMAIN bars : CheckBar(bars[i], t) = "ok"}

\* A mutant of Kept: every usable bar.
KeptAll(bars, t) == Usable(bars, t)

\* Of several usable bars with one timestamp the first is kept.
Kept(bars, t) ==
    {i \in Usable(bars, t) :
       \A k \in Usable(bars, t) : k < i => bars[k].ts # bars[i].ts}

ValidBars(bars, t) == {bars[i] : i \in Kept(bars, t)}

Issue(bar, code) == [ts |-> bar.ts, code |-> code]

\* Kept bars that arrive before an earlier one; the report warns of the first.
Unordered(bars, t) ==
    {i \in Kept(bars, t) :
       \E k \in Kept(bars, t) :
         /\ k < i
         /\ bars[i].ts < bars[k].ts
         /\ Kept(bars, t) \cap ((k + 1)..(i - 1)) = {}}

\* A mutant of Issues: a refused bar leaves no trace.
IssuesOfKept(bars, t) ==
    {Issue(bars[i], "duplicate_timestamp") :
       i \in Usable(bars, t) \ Kept(bars, t)}

\* ValidationReport.issues
Issues(bars, t) ==
    {Issue(bars[i], CheckBar(bars[i], t)) : i \in DOMAIN bars \ Usable(bars, t)}
    \cup {Issue(bars[i], "duplicate_timestamp") :
            i \in Usable(bars, t) \ Kept(bars, t)}
    \cup {Issue(bars[i], "unordered_timestamps") :
            i \in {k \in Unordered(bars, t) :
                     \A other \in Unordered(bars, t) : k <= other}}

-----------------------------------------------------------------------------
Days == 0..Date(MaxTime)

NoTx == [prices |-> {}, issues |-> {}, heard |-> {}, asked |-> {}]

Idle == [pc |-> "idle", cycle |-> 0, todo |-> {}, start |-> 0,
         batch |-> {}, tx |-> NoTx]

Init ==
    /\ now = 0
    /\ prices = {} /\ issues = {} /\ regimes = {} /\ heard = {} /\ asked = {}
    /\ run = [p \in Processes |-> Idle]
    /\ faults = 0

-----------------------------------------------------------------------------
\* What p's session reads: committed rows and those it has flushed itself.
Visible(p) == prices \cup run[p].tx.prices

StampsOf(rows, a) == {row.ts : row \in {r \in rows : r.asset = a}}

\* get_latest_bar_ts, as a set that is empty or a singleton.
Latest(p, a) ==
    {t \in StampsOf(Visible(p), a) : \A u \in StampsOf(Visible(p), a) : u <= t}

\* A mutant of WindowStart: the overlap counted from today.
WindowFromToday(p, a) ==
    IF Latest(p, a) = {} THEN {Date(run[p].cycle) - Backfill}
    ELSE {Date(run[p].cycle) - Overlap}

\* _update_asset: a few days before the newest bar, or far back without one.
WindowStart(p, a) ==
    IF Latest(p, a) = {} THEN {Date(run[p].cycle) - Backfill}
    ELSE {Date(t) - Overlap : t \in Latest(p, a)}

WindowEnd(p) == Date(run[p].cycle)

\* A mutant of Current: assets in whatever order the database returns them.
AnyAsset(p, a) == a \in run[p].todo

\* order_by(Asset.ticker)
Current(p, a) ==
    /\ a \in run[p].todo
    /\ \A other \in run[p].todo : Rank[a] <= Rank[other]

\* A mutant of Servers: the registry trusts its list of fallbacks.
AnyServers == DOMAIN Candidates

\* ProviderRegistry.execute: the primary, then the fallbacks in order, none
\* of them synthetic.
Servers == {i \in DOMAIN Candidates : i = 1 \/ Candidates[i] \notin Synthetic}

Begin(p) ==
    /\ run[p].pc = "idle"
    /\ run' = [run EXCEPT ![p] = [Idle EXCEPT !.pc = "next", !.cycle = now,
                                              !.todo = Assets]]
    /\ UNCHANGED <<now, prices, issues, regimes, heard, asked, faults>>

\* Ask for the next asset's window.  Providers raise ValueError for a window
\* that ends before it starts, which aborts the whole run.
Request(p, a) ==
    /\ run[p].pc = "next"
    /\ Current(p, a)
    /\ \E start \in WindowStart(p, a) :
         run' = [run EXCEPT ![p] =
           IF start > WindowEnd(p) THEN Idle
           ELSE [run[p] EXCEPT !.pc = "wait", !.start = start]]
    /\ UNCHANGED <<now, prices, issues, regimes, heard, asked, faults>>

\* The bar of day d as provider q reports it with close v.
BarOf(d, q, v) ==
    [ts |-> d * DayLength + Offset[q], close |-> v, made |-> q \in Synthetic]

\* The days of p's window on which there has been trading, in order.
TradingDays(p) ==
    {d \in Days : run[p].start <= d /\ d <= WindowEnd(p) /\ d <= Date(now)}

FirstDay(p) == IF run[p].start < 0 THEN 0 ELSE run[p].start

Answer(p, q, v) ==
    [i \in 1..Cardinality(TradingDays(p)) |-> BarOf(FirstDay(p) + i - 1, q, v)]

\* What else a vendor may send: other closes than it did before (a correction);
\* the oldest bar malformed, or sent again at the end with another close; the
\* bars in reverse; a bar ahead of its time.
Defective(p, q) ==
    LET bars == Answer(p, q, Quote[q])
    IN {Answer(p, q, v) : v \in Versions \ {Quote[q]}}
       \cup
       (IF bars = <<>> THEN {}
        ELSE {[bars EXCEPT ![1].close = 0],
              Append(bars, [bars[1] EXCEPT !.close = @ + 1]),
              [i \in DOMAIN bars |-> bars[Len(bars) + 1 - i]]})
       \cup {Append(bars, [ts |-> now + n, close |-> 1, made |-> q \in Synthetic]) :
               n \in DayLength..(DayLength + 1)}

\* The bars an answer must leave a trace of: those of a timestamp the table does
\* not hold yet, and malformed ones.
Notable(bars, found) == {i \in DOMAIN bars : bars[i].ts \notin found \/ bars[i].close = 0}

\* The rest of _update_asset up to the flush: validate, add the issues, and
\* pick the bars whose timestamps are not in the table.
Received(p, a, bars) ==
    LET w == run[p]
        found == StampsOf(Visible(p), a)
        valid == {[asset |-> a, ts |-> b.ts, close |-> b.close, made |-> b.made] :
                    b \in ValidBars(bars, w.cycle)}
        tx == [w.tx EXCEPT
                 !.issues = @ \cup {[asset |-> a, ts |-> i.ts, code |-> i.code] :
                                      i \in Issues(bars, w.cycle)},
                 !.heard = @ \cup {[asset |-> a, ts |-> bars[i].ts,
                                    close |-> bars[i].close] :
                                     i \in Notable(bars, found)},
                 !.asked = @ \cup {<<a, d>> : d \in w.start..WindowEnd(p)}]
    IN run' = [run EXCEPT ![p] =
                 [w EXCEPT !.pc = "flush", !.start = 0, !.tx = tx,
                           !.batch = {b \in valid : b.ts \notin found}]]

Outages(i) == IF i = 1 THEN 0 ELSE 1

\* The i-th candidate answers after those before it failed.
Receive(p, a, i) ==
    /\ run[p].pc = "wait"
    /\ Current(p, a)
    /\ faults + Outages(i) <= MaxFaults
    /\ faults' = faults + Outages(i)
    /\ Received(p, a, Answer(p, Candidates[i], Quote[Candidates[i]]))
    /\ UNCHANGED <<now, prices, issues, regimes, heard, asked>>

ReceiveDefective(p, a, i) ==
    /\ run[p].pc = "wait"
    /\ Current(p, a)
    /\ faults + Outages(i) < MaxFaults
    /\ faults' = faults + Outages(i) + 1
    /\ \E bars \in Defective(p, Candidates[i]) : Received(p, a, bars)
    /\ UNCHANGED <<now, prices, issues, regimes, heard, asked>>

\* Every candidate fails: the symbol is noted as failed, the run goes on.
ProvidersDown(p, a) ==
    /\ run[p].pc = "wait"
    /\ Current(p, a)
    /\ faults < MaxFaults
    /\ faults' = faults + 1
    /\ run' = [run EXCEPT ![p].pc = "next", ![p].start = 0,
                          ![p].todo = @ \ {a}]
    /\ UNCHANGED <<now, prices, issues, regimes, heard, asked>>

Keys(rows) == {<<row.asset, row.ts>> : row \in rows}

\* The unique key (asset, ts): an insert waits while another transaction holds
\* the same key, and goes through if nobody has committed it.
Flush(p, a) ==
    /\ run[p].pc = "flush"
    /\ Current(p, a)
    /\ \A q \in Processes \ {p} :
         Keys(run[p].batch) \cap Keys(run[q].tx.prices) = {}
    /\ Keys(run[p].batch) \cap Keys(prices) = {}
    /\ run' = [run EXCEPT ![p].pc = "next", ![p].batch = {},
                          ![p].tx.prices = @ \cup run[p].batch,
                          ![p].todo = @ \ {a}]
    /\ UNCHANGED <<now, prices, issues, regimes, heard, asked, faults>>

\* IntegrityError is no ProviderError: the run fails and is rolled back.
Collide(p) ==
    /\ run[p].pc = "flush"
    /\ Keys(run[p].batch) \cap Keys(prices) # {}
    /\ run' = [run EXCEPT ![p] = Idle]
    /\ UNCHANGED <<now, prices, issues, regimes, heard, asked, faults>>

\* context.session.commit() after the last asset.
Commit(p) ==
    /\ run[p].pc = "next"
    /\ run[p].todo = {}
    /\ prices' = prices \cup run[p].tx.prices
    /\ issues' = issues \cup run[p].tx.issues
    /\ heard' = heard \cup run[p].tx.heard
    /\ asked' = asked \cup run[p].tx.asked
    /\ run' = [run EXCEPT ![p].pc = "regime", ![p].tx = NoTx]
    /\ UNCHANGED <<now, regimes, faults>>

Closes == Cardinality({row \in prices : row.asset = Benchmark})

\* _update_regime: an observation of its own transaction, if there is history.
UpdateRegime(p) ==
    /\ run[p].pc = "regime"
    /\ regimes' = IF Closes < MinCloses THEN regimes
                  ELSE regimes \cup {[at |-> run[p].cycle, closes |-> Closes]}
    /\ run' = [run EXCEPT ![p] = Idle]
    /\ UNCHANGED <<now, prices, issues, heard, asked, faults>>

\* The job raises, or its process dies: what is not committed is rolled back.
Fail(p) ==
    /\ run[p].pc # "idle"
    /\ faults < MaxFaults
    /\ faults' = faults + 1
    /\ run' = [run EXCEPT ![p] = Idle]
    /\ UNCHANGED <<now, prices, issues, regimes, heard, asked>>

Tick ==
    /\ now < MaxTime
    /\ now' = now + 1
    /\ UNCHANGED <<prices, issues, regimes, heard, asked, run, faults>>

\* What a run does once begun.
Step(p) ==
    \/ \E a \in Assets :
         \/ Request(p, a)
         \/ \E i \in Servers : Receive(p, a, i)
         \/ \E i \in Servers : ReceiveDefective(p, a, i)
         \/ ProvidersDown(p, a)
         \/ Flush(p, a)
    \/ Collide(p)
    \/ Commit(p)
    \/ UpdateRegime(p)

Next ==
    \/ \E p \in Processes : Begin(p) \/ Step(p) \/ Fail(p)
    \/ Tick

Spec == Init /\ [][Next]_vars

-----------------------------------------------------------------------------
PriceRows == [asset : Assets, ts : Nat, close : Nat, made : BOOLEAN]
IssueRows == [asset : Assets, ts : Nat,
              code : {"malformed", "future_timestamp", "duplicate_timestamp",
                      "unordered_timestamps"}]
HeardBars == [asset : Assets, ts : Nat, close : Nat]

Transactions == [prices : SUBSET PriceRows, issues : SUBSET IssueRows,
                 heard : SUBSET HeardBars, asked : SUBSET (Assets \X Int)]

RunTypes == [pc : {"idle", "next", "wait", "flush", "regime"}, cycle : Nat,
             todo : SUBSET Assets, start : Int, batch : SUBSET PriceRows,
             tx : Transactions]

Unique(rows) ==
    \A r, s \in rows : r.asset = s.asset /\ r.ts = s.ts => r = s

\* Type invariant; the committed prices satisfy the table's unique key.
TypeOK ==
    /\ now \in 0..MaxTime
    /\ prices \subseteq PriceRows
    /\ Unique(prices)
    /\ issues \subseteq IssueRows
    /\ regimes \subseteq [at : Nat, closes : Nat]
    /\ heard \subseteq HeardBars
    /\ asked \subseteq Assets \X Int
    /\ run \in [Processes -> RunTypes]
    /\ faults \in 0..MaxFaults

\* Incremental fetching leaves no hole: between a stored bar and any later day
\* some committed run has asked about, every day has been asked about, through
\* outages, failed runs, days without a run and two runs at once
\* (daily_market.py _update_asset: the window starts at the newest bar).
NoDayPassedOver ==
    \A row \in prices, request \in asked :
      row.asset = request[1] =>
        \A d \in Date(row.ts)..request[2] : <<row.asset, d>> \in asked

\* Corrupted data is never silently accepted or dropped (validation.py,
\* save_validation_report): every notable bar a committed run received is in the
\* table with the close that was heard, or has an issue recorded against it.  A
\* bar whose timestamp the table already holds is skipped whatever its close
\* (upsert_price_bars), without a trace; nothing is claimed of it (see README).
NothingDroppedSilently ==
    \A bar \in heard :
      \/ \E row \in issues : row.asset = bar.asset /\ row.ts = bar.ts
      \/ \E row \in prices :
           row.asset = bar.asset /\ row.ts = bar.ts /\ row.close = bar.close

\* No stored bar fails the check, lies more than a day ahead of the present, or
\* was generated while the configured primary is a real provider (Rule 4,
\* registry.py execute).
StoredBarsAreReal ==
    \A row \in prices :
      /\ row.close # 0
      /\ row.ts <= now + FutureTolerance
      /\ row.made => Candidates[1] \in Synthetic

\* A bar stamped ahead of its time cannot wedge the job: only a run that is
\* days behind the clock can find a newest bar so far ahead of its own date
\* that the window it asks for ends before it starts.
NoInvertedWindow ==
    \A p \in Processes, a \in Assets :
      /\ run[p].pc = "next"
      /\ Date(now) + 1 - Overlap <= Date(run[p].cycle)
      => \A start \in WindowStart(p, a) : start <= WindowEnd(p)

\* p waits for a row that q has inserted and not yet committed.
WaitsFor(p, q) ==
    /\ run[p].pc = "flush"
    /\ Keys(run[p].batch) \cap Keys(run[q].tx.prices) # {}

\* Two runs never wait for each other's rows (daily_market.py run: both insert
\* in ticker order, and a run that failed has given its rows up).
NoDeadlock ==
    \A p, q \in Processes : p # q => ~(WaitsFor(p, q) /\ WaitsFor(q, p))

\* What a run asks its providers for: no day before the newest stored bar stays
\* unasked, and the window is a window (daily_market.py _update_asset).
WindowsCover == NoDayPassedOver /\ NoInvertedWindow

\* What becomes of the answers: every bar heard for a new timestamp is in a table
\* as it was heard, and what is in the table of prices is real (validation.py,
\* registry.py, price_repository.py).
BarsAccounted == NothingDroppedSilently /\ StoredBarsAreReal
=============================================================================
