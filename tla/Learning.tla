-------------------------------- MODULE Learning --------------------------------
(***************************************************************************)
(* Writing the periodic self-assessment down twice: the learning review    *)
(* job and the API's generate handler (brain/learning/engine.py publish,   *)
(* data/storage/learning_repository.py), over one vault and the table that *)
(* is unique by kind and period start.                                     *)
(***************************************************************************)
EXTENDS LearningMetrics, KnowledgeStore

CONSTANTS
    Sessions,       \* the worker and the API's callers
    Worker,
    AsOfOffsets     \* how far from today a caller's as_of may be

ASSUME LearningAssumption ==
    AsOfOffsets \subseteq Int /\ 0 \in AsOfOffsets /\ Worker \in Sessions

VARIABLES
    learned,        \* rows of learning_reviews, by kind and period start
    vault,
    desk,           \* what each session is doing
    disturbed       \* notes of which publishes overlapped, failed or were lost

learningVars == <<learned, vault, desk, disturbed>>
vars == <<signalVars, recordVars, learningVars>>

\* What records and reports leave alone.
marketVars == <<today, stamps, history, stored, update, observed, theses, reviewed, signals>>

Idle == [pc |-> "idle"]

Init ==
    /\ SignalsInit /\ RecordsInit
    /\ learned = <<>> /\ vault = <<>>
    /\ desk = [s \in Sessions |-> Idle]
    /\ disturbed = {}

KeyOf(report) == <<report.kind, report.start>>

\* A mutant of ReviewPath: named by the day alone.
ReviewPathByDay(report) == <<"learning", report.start>>

\* publish: the note of a kind and a period.
ReviewPath(report) == <<"learning", report.kind, report.start>>

\* The bars of the horizon after the period's last day are all stored.
IsSettled(report) == \A a \in Assets : stored[a] >= report.end + Horizon

\* LearningReviewJob.run or generate_report builds the report.  The job has
\* the vault; the API's caller chooses, and may find none.  Only periods of
\* the model's days are reported.  id and settled are history: the number of
\* the report, and whether its horizon was over.
Build(s, kind, asOf, mirrored) ==
    /\ Happens
    /\ desk[s] = Idle
    /\ PeriodBounds(kind, asOf).start >= 0
    /\ s = Worker => kind = "monthly" /\ asOf = today /\ mirrored
    /\ LET report == BuildReport(kind, asOf) IN
       desk' = [desk EXCEPT ![s] =
         [pc |-> IF mirrored THEN "publishing" ELSE "built",
          row |-> [report |-> report, id |-> events, note |-> FALSE,
                   settled |-> IsSettled(report)]]]
    /\ UNCHANGED <<marketVars, recordVars, learned, vault, disturbed>>

PathOf(s) == ReviewPath(desk[s].row.report)

\* Sessions other than s whose note at path is written and not yet committed.
Overlapping(s, path) ==
    {t \in Sessions \ {s} : desk[t].pc \in {"built", "stored"} /\ desk[t].row.note /\ PathOf(t) = path}

\* publish writes the note first.  When that fails the handler publishes once
\* more without the vault; the job fails.
PublishNote(s) ==
    /\ desk[s].pc = "publishing"
    /\ LET path == PathOf(s) IN
       \E put \in Puts(vault, path, desk[s].row.id) :
         /\ vault' = put.vault
         /\ desk' = [desk EXCEPT ![s] =
              IF put.told THEN [pc |-> "built", row |-> [desk[s].row EXCEPT !.note = TRUE]]
              ELSE IF s # Worker THEN [pc |-> "built", row |-> desk[s].row]
              ELSE Idle]
         /\ disturbed' = disturbed \cup
              {p \in {path} : put.vault # vault /\ (~put.told \/ Overlapping(s, p) # {})}
    /\ UNCHANGED <<signalVars, recordVars, learned>>

\* save_learning_review looks the row up: it will be inserted or updated.
StoreReview(s) ==
    /\ desk[s].pc = "built"
    /\ LET key == KeyOf(desk[s].row.report) IN
       desk' = [desk EXCEPT ![s] =
         [pc |-> "stored", row |-> desk[s].row, insert |-> key \notin DOMAIN learned,
          loadedNote |-> key \in DOMAIN learned /\ learned[key].note]]
    /\ UNCHANGED <<signalVars, recordVars, learned, vault, disturbed>>

\* An update writes the columns it changed.
Saved(s, key) ==
    LET row == desk[s].row
    IN  IF desk[s].insert \/ row.note # desk[s].loadedNote THEN row
        ELSE [row EXCEPT !.note = learned[key].note]

\* Commit; of two inserts of one key the second violates the constraint.  A
\* review without a note keeps the one that another committed meanwhile.
CommitReview(s) ==
    /\ desk[s].pc = "stored"
    /\ LET key == KeyOf(desk[s].row.report)
           lost == desk[s].insert /\ key \in DOMAIN learned
           keeps == ~desk[s].row.note /\ Saved(s, key).note
       IN
       /\ learned' = IF lost THEN learned
                     ELSE [k \in DOMAIN learned \cup {key} |->
                             IF k = key THEN Saved(s, key) ELSE learned[k]]
       /\ disturbed' = IF (lost /\ desk[s].row.note) \/ (~lost /\ keeps)
                       THEN disturbed \cup {PathOf(s)} ELSE disturbed
    /\ desk' = [desk EXCEPT ![s] = Idle]
    /\ UNCHANGED <<signalVars, recordVars, vault>>

\* The database fails or the process dies.
Abort(s) ==
    /\ Happens
    /\ desk[s] # Idle
    /\ disturbed' = IF desk[s].row.note THEN disturbed \cup {PathOf(s)} ELSE disturbed
    /\ desk' = [desk EXCEPT ![s] = Idle]
    /\ UNCHANGED <<marketVars, recordVars, learned, vault>>

Next ==
    \/ SignalsNext /\ UNCHANGED <<recordVars, learningVars>>
    \/ \E a \in Assets : AddDocument(a) /\ UNCHANGED <<marketVars, learningVars>>
    \/ \E a \in Assets, closing \in Closings :
         CloseTrade(a, closing) /\ UNCHANGED <<marketVars, learningVars>>
    \/ \E s \in Sessions :
         \/ \E kind \in Kinds, offset \in AsOfOffsets, mirrored \in BOOLEAN :
              Build(s, kind, today + offset, mirrored)
         \/ PublishNote(s) \/ StoreReview(s) \/ CommitReview(s) \/ Abort(s)

Spec == Init /\ [][Next]_vars

-----------------------------------------------------------------------------
\* Properties

\* Rows of all tables are of their types; a review is of a whole period, and
\* that period was over on its as_of date.
TypeOK ==
    /\ today \in Days /\ stored \in [Assets -> Days]
    /\ events \in 0..MaxEvents /\ \A o \in observed : o.at \in 1..stamps
    /\ \A row \in signals : row.category \in Categories /\ row.confidence \in 1..Full /\ row.day \in 0..today
    /\ \A key \in DOMAIN learned :
         LET report == learned[key].report
             length == MonthDays * Months[report.kind]
         IN  /\ key = KeyOf(report)
             /\ report.start % length = 0 /\ report.end = report.start + length - 1
             /\ \E offset \in AsOfOffsets : report.end < report.generated + offset
    /\ \A s \in Sessions : desk[s].pc \in {"idle", "publishing", "built", "stored"}

\* A review made when its horizon was over and the bars were in stands: made
\* again at any later time it scores the same signals, research and trades the
\* same way; and the days to a thesis's first invalidation, once in a
\* review, are the same in every later one.
SettledReviewsStand ==
    \A key \in DOMAIN learned :
        LET report == learned[key].report
            period == [start |-> report.start, end |-> report.end]
        IN  /\ learned[key].settled =>
                 /\ report.signals = SignalAccuracy(period)
                 /\ report.research = ResearchOutcomes(period)
                 /\ report.strategy = StrategyPerformance(period)
            /\ report.theses.invalidations \subseteq ThesisAccuracy.invalidations

\* A review that names a note is the review the note shows, unless publishes
\* of that note overlapped, failed or were lost, or a review without a note
\* was committed over one that has it since it was looked up.
NoteMirrorsReview ==
    \A key \in DOMAIN learned :
        LET path == ReviewPath(learned[key].report)
        IN  \/ ~learned[key].note
            \/ path \in disturbed
            \/ \E s \in Sessions : desk[s].pc \in {"built", "stored"} /\ desk[s].row.note /\ PathOf(s) = path
            \/ vault[path] = {learned[key].id}
=============================================================================
