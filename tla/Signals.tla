-------------------------------- MODULE Signals --------------------------------
(***************************************************************************)
(* Signals over the stored market: the worker stores bars and observes the *)
(* regime, the engine (brain/signals/engine.py) is run by hand, a person   *)
(* reviews theses, and the API (apps/api/routers/signals.py) serves every  *)
(* signal with the regime in force when it fired.                          *)
(*                                                                         *)
(* Time is the day and, where stamps are compared within a day, the number *)
(* of market updates begun so far.  An asset's bars are its history up to  *)
(* the day that is stored; a day without a bar has the close NoBar.        *)
(***************************************************************************)
EXTENDS SignalRules

CONSTANTS
    Assets,
    Histories,      \* functions from Days to closes
    Benchmark,      \* the asset the regime is read from
    MinCloses,      \* _REGIME_MIN_CLOSES
    Situations,     \* [researched, top, cost, watched, pe] an asset may be in
    FirstTheses,    \* assessments of the theses at the start, NoThesis for none
    Verdicts,       \* assessments a thesis review may return
    MaxDay,
    MaxEvents       \* bound on all that happens but the market's course

ASSUME SignalsAssumption ==
    /\ {MinCloses, MaxDay, MaxEvents} \subseteq Nat
    /\ IsFiniteSet(Assets) /\ Benchmark \in Assets
    /\ NoThesis \notin Verdicts
    /\ \A situation \in Situations : situation.top.reasons \in Nat

VARIABLES
    today,
    stamps,         \* market updates begun so far
    events,         \* events so far, of those that MaxEvents bounds
    history,        \* the bars the market produces
    stored,         \* the day up to which each asset's bars are in the table
    update,         \* the market update under way
    observed,       \* committed regime observations
    theses,         \* the active thesis of each asset
    reviewed,       \* rows of thesis_reviews
    signals         \* rows of signals

signalVars == <<today, stamps, events, history, stored, update, observed, theses, reviewed, signals>>

NoBar == 0
Days == 0..MaxDay
Quiet == update.pc = "none"

SignalsInit ==
    /\ today = 0 /\ stamps = 0 /\ events = 0
    /\ history \in [Assets -> Histories]
    /\ stored = [a \in Assets |-> 0]
    /\ update = [pc |-> "none", day |-> 0]
    /\ observed = {} /\ signals = {}
    /\ \E initial \in [Assets -> FirstTheses] :
         LET broken == {a \in Assets : initial[a] = "THESIS_INVALIDATED"} IN
         /\ theses = [a \in Assets |->
              [assessment |-> initial[a], reviewed |-> IF a \in broken THEN 0 ELSE Never]]
         /\ reviewed = {[asset |-> a, day |-> 0, id |-> -1, to |-> initial[a]] : a \in broken}

\* get_price_bars: the days with a stored bar.
BarDays(a) == {day \in 0..stored[a] : history[a][day] # NoBar}

\* get_close_series
Closes(a) == SelectSeq([i \in 1..(stored[a] + 1) |-> history[a][i - 1]], LAMBDA c : c # NoBar)

-----------------------------------------------------------------------------
\* One more event.
Happens == events < MaxEvents /\ events' = events + 1

\* An update ends on the day it began.
NextDay ==
    /\ today < MaxDay /\ Quiet
    /\ today' = today + 1
    /\ UNCHANGED <<stamps, events, history, stored, update, observed, theses, reviewed, signals>>

\* DailyMarketJob takes its time stamp; one run a day.
BeginUpdate ==
    /\ Quiet /\ update.day < today
    /\ update' = [pc |-> "bars", day |-> today]
    /\ stamps' = stamps + 1
    /\ UNCHANGED <<today, events, history, stored, observed, theses, reviewed, signals>>

\* The bars of the assets whose providers answered are committed.
CommitBars ==
    /\ update.pc = "bars"
    /\ \E done \in SUBSET Assets :
         stored' = [a \in Assets |-> IF a \in done THEN today ELSE stored[a]]
    /\ update' = [update EXCEPT !.pc = "regime"]
    /\ UNCHANGED <<today, stamps, events, history, observed, theses, reviewed, signals>>

\* _update_regime and save_regime_observation: stamped with the job's start.
CommitRegime ==
    /\ update.pc = "regime"
    /\ observed' =
         IF Len(Closes(Benchmark)) < MinCloses THEN observed
         ELSE observed \cup {[at |-> stamps, regime |-> Detect(Closes(Benchmark))]}
    /\ update' = [update EXCEPT !.pc = "none"]
    /\ UNCHANGED <<today, stamps, events, history, stored, theses, reviewed, signals>>

\* ThesisAgent.apply, as one committed review.
ReviewThesis(a, assessment) ==
    /\ Happens
    /\ theses[a].assessment # NoThesis
    /\ reviewed' = reviewed \cup {[asset |-> a, day |-> today, id |-> events, to |-> assessment]}
    /\ theses' = [theses EXCEPT ![a] = [assessment |-> assessment, reviewed |-> today]]
    /\ UNCHANGED <<today, stamps, history, stored, update, observed, signals>>

-----------------------------------------------------------------------------
Latest(observations) ==
    IF observations = {} THEN NoRegime
    ELSE (CHOOSE o \in observations : \A p \in observations : p.at <= o.at).regime

\* build_signal_context
Context(a, situation) ==
    [day |-> today, quant |-> QuantView(Closes(a)), regime |-> Latest(observed),
     thesis |-> theses[a], researched |-> situation.researched, top |-> situation.top,
     cost |-> situation.cost, watched |-> situation.watched, pe |-> situation.pe]

\* SignalEngine.run takes its stamp before it reads: an update of the same day
\* may have begun, and even ended, since.
RunStamps == {stamps} \cup (IF update.day = today /\ stamps > 0 THEN {stamps - 1} ELSE {})

\* save_signal.  used and quiet are history: the regime the rules saw, and
\* that no market update was under way or began during the run.
Row(a, signal, at) ==
    [id |-> events, asset |-> a, category |-> signal.category,
     confidence |-> Confidence(signal.evidence), day |-> today, at |-> at, status |-> "active",
     used |-> Latest(observed).trend, quiet |-> Quiet /\ at = stamps]

NewRows(situation, at) ==
    UNION {{Row(a, signal, at) : signal \in SignalsFor(Context(a, situation[a]))} : a \in Assets}

\* SignalEngine.run over all assets, where it reads; a run without a signal
\* changes nothing.
RunSignals(situation) ==
    /\ Happens
    /\ \E at \in RunStamps :
         LET new == NewRows(situation, at) IN new # {} /\ signals' = signals \cup new
    /\ UNCHANGED <<today, stamps, history, stored, update, observed, theses, reviewed>>

\* acknowledge, dismiss
Settle(signal, status) ==
    /\ Happens
    /\ signal.status = "active"
    /\ signals' = (signals \ {signal}) \cup {[signal EXCEPT !.status = status]}
    /\ UNCHANGED <<today, stamps, history, stored, update, observed, theses, reviewed>>

SignalsNext ==
    \/ NextDay \/ BeginUpdate \/ CommitBars \/ CommitRegime
    \/ \E a \in Assets, assessment \in Verdicts : ReviewThesis(a, assessment)
    \/ \E situation \in [Assets -> Situations] : RunSignals(situation)
    \/ \E signal \in signals, status \in {"acknowledged", "dismissed"} : Settle(signal, status)

-----------------------------------------------------------------------------
\* A mutant of RegimeAt: today's regime.
RegimeAtNow(at) == Latest(observed).trend

\* _regime_at: the newest observation not after the stamp.
RegimeAt(at) == Latest({o \in observed : o.at <= at}).trend

-----------------------------------------------------------------------------
\* The regime the API serves with a signal is the one its rules saw, except
\* for signals whose run and a market update overlapped: the observation
\* carries the stamp of the update's start and is committed afterwards, and
\* the signal carries the stamp of its run's start and is made afterwards.
LineageKept ==
    \A signal \in signals : signal.quiet => RegimeAt(signal.at) = signal.used

\* What a run of the engine says of an asset, whatever else is known of it.  The
\* order of the rules protects: a broken thesis is what is reported,
\* whatever else holds; a position more than DrawdownPercent below its cost is
\* at least an exit review; and what is held below its long trend or against
\* the market is never proposed for buying more.  Every signal has support,
\* and full confidence means that nothing spoke against it and nothing was
\* missing.
Honest(c, signal) ==
    /\ c.thesis.assessment \in Broken => signal.category = "THESIS_REVIEW"
    /\ IsHeld(c) /\ InDrawdown(c) => signal.category \in {"THESIS_REVIEW", "EXIT_REVIEW"}
    /\ IsHeld(c) /\ signal.category = "ACCUMULATE" =>
         c.quant.long # "below" /\ c.regime.trend # "BEARISH" /\ c.regime.risk # "RISK_OFF"
    /\ Stance(signal.evidence, "supports") > 0
    /\ (Confidence(signal.evidence) = Full) <=>
         Stance(signal.evidence, "contradicts") + Stance(signal.evidence, "unknown") = 0

WarningsComeFirst ==
    [][\A row \in signals' : row.id = events =>
         \A situation \in Situations :
            LET c == Context(row.asset, situation)
            IN  \A signal \in SignalsFor(c) :
                   Row(row.asset, signal, row.at) = row => Honest(c, signal)]_signalVars
=============================================================================
