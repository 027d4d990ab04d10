----------------------------- MODULE ResearchDesk -----------------------------
(***************************************************************************)
(* Finding, working and closing research: the refresh job that fills the   *)
(* queue (brain/research/intelligence.py), the handlers that process and   *)
(* dismiss its entries or research a ticker directly, and the thesis       *)
(* reviews, over one database and one vault.                               *)
(*                                                                         *)
(* Each handler or job is a session of its own: it reads committed rows,   *)
(* waits for a model and for the vault, and commits.  The vault knows no   *)
(* transaction: what was written to it stays when the session is lost.     *)
(*                                                                         *)
(* A queue entry is named by its asset, its change type and the scan that  *)
(* inserted it; a research note by its asset and its day.  A note's        *)
(* content is the number of the analysis it renders.                       *)
(***************************************************************************)
EXTENDS ChangeDetection, KnowledgeStore

CONSTANTS
    Assets, Sessions,
    Situations,     \* [closes, earnings, stake, lists] an asset may be in
    Regimes,        \* [trend, other] the worker may observe
    Verdicts,       \* assessments a model may return
    Opening,        \* the assessment theses start with
    Observed,       \* the regimes observed before
    Days,           \* the days on which something happens
    MaxRequests, MaxFaults, MaxNews

ASSUME DeskAssumption ==
    /\ Verdicts \subseteq Assessments /\ Opening \in Assessments
    /\ Days \subseteq Nat /\ 0 \in Days
    /\ Situations \subseteq [closes : Seq(Nat \ {0}), earnings : Seq(Int), stake : Nat, lists : Nat]
    /\ Observed \in Seq(Regimes) /\ Len(Observed) <= 2
    /\ {MaxRequests, MaxFaults, MaxNews} \subseteq Nat

VARIABLES
    today,
    market,         \* the situation of each asset
    regimes,        \* the two latest regime observations, oldest first
    queue,          \* committed rows of research_queue, by entry
    documents,      \* committed rows of research_documents
    theses,         \* the active thesis of each asset
    reviews,        \* committed rows of thesis_reviews, in commit order
    vault,          \* the notes
    desk,           \* what each session is doing
    count,          \* requests, document ids, faults and news so far
    raced,          \* <<asset, type>> that two scans inserted at once
    disturbed       \* research notes a failed or overlapping publish wrote

\* raced and disturbed are history: the program does not keep them.
vars == <<today, market, regimes, queue, documents, theses, reviews, vault,
          desk, count, raced, disturbed>>

Idle == [pc |-> "idle"]
NoEntry == [asset |-> None, type |-> None, scan |-> 0]
NoDocument == 0
NotePath(a, day) == <<"research", a, day>>
ThesisPath(a) == <<"thesis", a, 0>>
Paths == {NotePath(a, day) : a \in Assets, day \in Days} \cup {ThesisPath(a) : a \in Assets}

\* No thesis, one without a note, and one with a note.
OpeningTheses ==
    [assessment : {None}, reviewed : {Never}, noted : {FALSE}]
    \cup [assessment : {Opening}, reviewed : {Never}, noted : BOOLEAN]

Init ==
    /\ today = 0
    /\ market \in [Assets -> Situations]
    /\ regimes = Observed
    /\ queue = <<>> /\ documents = {} /\ reviews = <<>>
    /\ theses \in [Assets -> OpeningTheses]
    /\ vault = <<>>
    /\ desk = [s \in Sessions |-> Idle]
    /\ count = [requests |-> 0, ids |-> 0, faults |-> 0, news |-> 0]
    /\ raced = {} /\ disturbed = {}

-----------------------------------------------------------------------------
\* The world outside: prices, earnings, holdings, the worker's observations.

News(a) ==
    /\ count.news < MaxNews
    /\ \E situation \in Situations \ {market[a]} : market' = [market EXCEPT ![a] = situation]
    /\ count' = [count EXCEPT !.news = @ + 1]
    /\ UNCHANGED <<today, regimes, queue, documents, theses, reviews, vault, desk, raced, disturbed>>

\* save_regime_observation
ObserveRegime ==
    /\ count.news < MaxNews
    /\ \E seen \in Regimes : regimes' = LastOf(Append(regimes, seen), 2)
    /\ count' = [count EXCEPT !.news = @ + 1]
    /\ UNCHANGED <<today, market, queue, documents, theses, reviews, vault, desk, raced, disturbed>>

DaysPass ==
    /\ \E day \in Days : day > today /\ today' = day
    /\ UNCHANGED <<market, regimes, queue, documents, theses, reviews, vault, desk, count, raced, disturbed>>

-----------------------------------------------------------------------------
\* s begins a job or a request.
Free(s) == desk[s].pc = "idle" /\ count.requests < MaxRequests

Start(s, work) ==
    /\ Free(s)
    /\ count' = [count EXCEPT !.requests = @ + 1]
    /\ desk' = [desk EXCEPT ![s] = work]

-----------------------------------------------------------------------------
\* The scan

Newest(rows) == CHOOSE row \in rows : \A other \in rows : other.id <= row.id

\* get_latest_research_document, by created_at
Researched(a) ==
    LET created == {d.created : d \in {d \in documents : d.asset = a}}
    IN  IF created = {} THEN Never ELSE CHOOSE day \in created : \A other \in created : other <= day

Facts(a) == [closes |-> market[a].closes, earnings |-> market[a].earnings,
             stake |-> market[a].stake, lists |-> market[a].lists,
             thesis |-> theses[a], researched |-> Researched(a)]

ChangesOf(a) ==
    LET found == DetectForAsset(a, Facts(a), today) \o RegimeChanges(a, Facts(a), regimes)
    IN  {found[i] : i \in DOMAIN found}

\* Changes of one asset and type share an entry.
Detected == UNION {ChangesOf(a) : a \in Assets}

Key(x) == <<x.asset, x.type>>

IsOpen(entry) == queue[entry].status \in {"pending", "in_progress"}

\* A mutant of OpenFor: any entry of the key, however it ended.
AnyFor(change) == {entry \in DOMAIN queue : Key(entry) = Key(change)}

\* A mutant of OpenFor: entries of this very magnitude.
OpenAndEqual(change) ==
    {entry \in DOMAIN queue : /\ Key(entry) = Key(change) /\ IsOpen(entry)
                              /\ queue[entry].importance = change.magnitude}

\* enqueue: the entries a change refreshes instead of adding one.
OpenFor(change) ==
    {entry \in DOMAIN queue : Key(entry) = Key(change) /\ IsOpen(entry)}

Rated(change) ==
    [importance |-> change.magnitude, score |-> Score(change, Facts(change.asset), today)]

\* scan: detect, score and enqueue.  With several open entries of a key the
\* database returns any of them first and the others are passed over.
Scan(s) ==
    /\ Free(s)
    /\ LET known == {c \in Detected : OpenFor(c) # {}}
           candidates == UNION {OpenFor(c) : c \in known}
           twins == {e \in candidates : \E f \in candidates \ {e} : Key(f) = Key(e)}
       IN
       \E passed \in SUBSET twins :
         /\ \A c \in known : Cardinality(OpenFor(c) \ passed) = 1
         /\ Start(s,
              [pc |-> "scanned", scan |-> count.requests, found |-> {Key(c) : c \in Detected},
               refresh |-> [entry \in candidates \ passed |->
                              [loaded |-> [importance |-> queue[entry].importance,
                                           score |-> queue[entry].score],
                               rated |-> Rated(CHOOSE c \in known : Key(c) = Key(entry))]],
               insert |-> [key \in {Key(c) : c \in Detected \ known} |->
                              Rated(CHOOSE c \in Detected : Key(c) = key)],
               closed |-> {}])
    /\ UNCHANGED <<today, market, regimes, queue, documents, theses, reviews, vault, raced, disturbed>>

EntryFor(s, key) == [asset |-> key[1], type |-> key[2], scan |-> desk[s].scan]

\* The session writes the columns it changed: a value equal to the loaded one
\* leaves what the row now holds.
Written(held, loaded, value) == IF value = loaded THEN held ELSE value

\* ResearchRefreshJob.run commits once.
CommitScan(s) ==
    /\ desk[s].pc = "scanned"
    /\ LET new == {EntryFor(s, key) : key \in DOMAIN desk[s].insert} IN
       queue' = [entry \in DOMAIN queue \cup new |->
           IF entry \in new
           THEN [status |-> "pending", document |-> NoDocument,
                 importance |-> desk[s].insert[Key(entry)].importance,
                 score |-> desk[s].insert[Key(entry)].score]
           ELSE IF entry \in DOMAIN desk[s].refresh
           THEN LET loaded == desk[s].refresh[entry].loaded
                    rated == desk[s].refresh[entry].rated
                IN  [queue[entry] EXCEPT
                        !.importance = Written(@, loaded.importance, rated.importance),
                        !.score = Written(@, loaded.score, rated.score)]
           ELSE queue[entry]]
    /\ raced' = raced \cup
         {key \in DOMAIN desk[s].insert :
             \E t \in Sessions \ {s} : desk[t].pc = "scanned" /\ key \in DOMAIN desk[t].insert}
    /\ desk' = [desk EXCEPT ![s] = Idle]
    /\ UNCHANGED <<today, market, regimes, documents, theses, reviews, vault, count, disturbed>>

-----------------------------------------------------------------------------
\* Research: process_entry and create_research

Asked(a, entry) ==
    [pc |-> "asked", asset |-> a, entry |-> entry, began |-> today, analysis |-> count.requests + 1]

\* process_entry: 409 unless the entry is open.
Process(s, entry) ==
    /\ IsOpen(entry)
    /\ Start(s, Asked(entry.asset, entry))
    /\ UNCHANGED <<today, market, regimes, queue, documents, theses, reviews, vault, raced, disturbed>>

\* create_research: without an entry.
Research(s, a) ==
    /\ Start(s, Asked(a, NoEntry))
    /\ UNCHANGED <<today, market, regimes, queue, documents, theses, reviews, vault, raced, disturbed>>

\* Sessions other than s between writing the note at path and committing.
Publishing(s, path) ==
    {t \in Sessions \ {s} : desk[t].pc \in {"written", "saved"} /\ desk[t].path = path}

\* The model has answered; publish writes the note, under the day it is now.
Publish(s) ==
    /\ desk[s].pc = "asked"
    /\ LET path == NotePath(desk[s].asset, today) IN
       \E put \in Puts(vault, path, desk[s].analysis) :
         /\ vault' = put.vault
         /\ desk' = [desk EXCEPT ![s] =
              IF put.told
              THEN [pc |-> "written", asset |-> desk[s].asset, entry |-> desk[s].entry,
                    began |-> desk[s].began, path |-> path, analysis |-> desk[s].analysis]
              ELSE Idle]
         /\ disturbed' = disturbed \cup
              {p \in {path} : put.vault # vault /\ (~put.told \/ Publishing(s, path) # {})}
    /\ UNCHANGED <<today, market, regimes, queue, documents, theses, reviews, count, raced>>

\* save_research_document flushes, which allocates the row's id.
Save(s) ==
    /\ desk[s].pc = "written"
    /\ desk' = [desk EXCEPT ![s] =
         [pc |-> "saved", asset |-> desk[s].asset, entry |-> desk[s].entry, path |-> desk[s].path,
          row |-> [id |-> count.ids + 1, asset |-> desk[s].asset, path |-> desk[s].path,
                   created |-> desk[s].began, analysis |-> desk[s].analysis,
                   entry |-> desk[s].entry]]]
    /\ count' = [count EXCEPT !.ids = @ + 1]
    /\ UNCHANGED <<today, market, regimes, queue, documents, theses, reviews, vault, raced, disturbed>>

\* A mutant of Linked: the lookup in ascending order.
LinkedOldest(s) ==
    LET mine == {d \in documents \cup {desk[s].row} : d.path = desk[s].path}
    IN  (CHOOSE d \in mine : \A e \in mine : d.id <= e.id).id

\* The newest document of the note's path, which process_entry links.
Linked(s) ==
    Newest({d \in documents \cup {desk[s].row} : d.path = desk[s].path}).id

\* Scans under way learn nothing of an entry that is closed; closed records
\* for the properties that it happened.
Closing(s, entry) ==
    [t \in Sessions |->
        IF t = s THEN Idle
        ELSE IF desk[t].pc = "scanned" THEN [desk[t] EXCEPT !.closed = @ \cup {entry}]
        ELSE desk[t]]

\* mark_done and commit, whatever happened to the entry since it was read.
Finish(s) ==
    /\ desk[s].pc = "saved"
    /\ documents' = documents \cup {desk[s].row}
    /\ IF desk[s].entry = NoEntry
       THEN /\ desk' = [desk EXCEPT ![s] = Idle]
            /\ UNCHANGED queue
       ELSE /\ desk' = Closing(s, desk[s].entry)
            /\ queue' = [queue EXCEPT ![desk[s].entry].status = "done",
                                      ![desk[s].entry].document = Linked(s)]
    /\ UNCHANGED <<today, market, regimes, theses, reviews, vault, count, raced, disturbed>>

\* dismiss_entry reads the entry (409 unless open) ...
OpenDismissal(s, entry) ==
    /\ IsOpen(entry)
    /\ Start(s, [pc |-> "dismissing", entry |-> entry])
    /\ UNCHANGED <<today, market, regimes, queue, documents, theses, reviews, vault, raced, disturbed>>

\* ... and commits.
Dismiss(s) ==
    /\ desk[s].pc = "dismissing"
    /\ queue' = [queue EXCEPT ![desk[s].entry].status = "dismissed"]
    /\ desk' = Closing(s, desk[s].entry)
    /\ UNCHANGED <<today, market, regimes, documents, theses, reviews, vault, count, raced, disturbed>>

-----------------------------------------------------------------------------
\* Thesis reviews

ReviewsOf(a) == {i \in DOMAIN reviews : reviews[i].asset = a}

\* review_thesis loads the thesis (404 without one) and asks the model.
OpenReview(s, a) ==
    /\ theses[a].assessment # None
    /\ Start(s, [pc |-> "reviewing", asset |-> a, seen |-> Cardinality(ReviewsOf(a)),
                 loaded |-> theses[a].assessment])
    /\ UNCHANGED <<today, market, regimes, queue, documents, theses, reviews, vault, raced, disturbed>>

Reviewed(s, assessment) ==
    [pc |-> "noted", asset |-> desk[s].asset, seen |-> desk[s].seen,
     loaded |-> desk[s].loaded, assessment |-> assessment, at |-> today]

\* ThesisAgent.apply: the dated entry goes to the note first; an error of
\* the vault ends the request.
NoteReview(s) ==
    /\ desk[s].pc = "reviewing"
    /\ \E assessment \in Verdicts :
         IF theses[desk[s].asset].noted
         THEN \E outcome \in SectionAppends(vault, ThesisPath(desk[s].asset), <<desk[s].loaded, assessment>>) :
                /\ vault' = outcome.vault
                /\ desk' = [desk EXCEPT ![s] = IF outcome.told THEN Reviewed(s, assessment) ELSE Idle]
         ELSE /\ desk' = [desk EXCEPT ![s] = Reviewed(s, assessment)]
              /\ UNCHANGED vault
    /\ UNCHANGED <<today, market, regimes, queue, documents, theses, reviews, count, raced, disturbed>>

\* An assessment equal to the one it loaded is not written.
Assessed(s) ==
    Written(theses[desk[s].asset].assessment, desk[s].loaded, desk[s].assessment)

\* record_thesis_review, the thesis itself, commit.  alone: no review of this
\* thesis was committed since it was loaded.
CommitReview(s) ==
    /\ desk[s].pc = "noted"
    /\ LET a == desk[s].asset IN
       /\ reviews' = Append(reviews, [asset |-> a, from |-> desk[s].loaded, to |-> desk[s].assessment,
                                      alone |-> Cardinality(ReviewsOf(a)) = desk[s].seen])
       /\ theses' = [theses EXCEPT ![a].assessment = Assessed(s), ![a].reviewed = desk[s].at]
    /\ desk' = [desk EXCEPT ![s] = Idle]
    /\ UNCHANGED <<today, market, regimes, queue, documents, vault, count, raced, disturbed>>

-----------------------------------------------------------------------------
\* The model refuses, the database fails or the process dies: the transaction
\* is gone, the vault is as it was left.
Abort(s) ==
    /\ desk[s].pc # "idle"
    /\ count.faults < MaxFaults
    /\ desk' = [desk EXCEPT ![s] = Idle]
    /\ count' = [count EXCEPT !.faults = @ + 1]
    /\ disturbed' = IF desk[s].pc \in {"written", "saved"} THEN disturbed \cup {desk[s].path} ELSE disturbed
    /\ UNCHANGED <<today, market, regimes, queue, documents, theses, reviews, vault, raced>>

Next ==
    \/ ObserveRegime \/ DaysPass
    \/ \E a \in Assets : News(a)
    \/ \E s \in Sessions :
         \/ Scan(s) \/ CommitScan(s)
         \/ \E entry \in DOMAIN queue : Process(s, entry) \/ OpenDismissal(s, entry)
         \/ \E a \in Assets : Research(s, a) \/ OpenReview(s, a)
         \/ Publish(s) \/ Save(s) \/ Finish(s) \/ Dismiss(s)
         \/ NoteReview(s) \/ CommitReview(s)
         \/ Abort(s)

Spec == Init /\ [][Next]_vars

-----------------------------------------------------------------------------
\* Properties

\* The rows, the note paths and the steps of the sessions are of their
\* types; scores and magnitudes are fractions, whatever was detected.
TypeOK ==
    /\ today \in Days
    /\ market \in [Assets -> Situations]
    /\ Len(regimes) <= 2 /\ \A i \in DOMAIN regimes : regimes[i] \in Regimes
    /\ \A entry \in DOMAIN queue :
         /\ entry.asset \in Assets /\ entry.type \in ChangeTypes /\ entry.scan < count.requests
         /\ queue[entry].status \in {"pending", "done", "dismissed"}
         /\ queue[entry].importance \in 1..Full /\ queue[entry].score \in 0..Full
    /\ \A d \in documents : d.id \in 1..count.ids /\ d.path = NotePath(d.asset, d.path[3])
    /\ theses \in [Assets -> [assessment : Assessments \cup {None}, reviewed : {Never} \cup Days, noted : BOOLEAN]]
    /\ DOMAIN vault \subseteq Paths
    /\ \A s \in Sessions : desk[s].pc \in {"idle", "scanned", "asked", "written", "saved",
                                         "dismissing", "reviewing", "noted"}

\* An asset has two open entries for one kind of change only when two scans
\* inserted them at the same time: nothing in the table forbids it, and the
\* scan reads before it inserts (test_scan_is_idempotent has one scanner).
DuplicatesOnlyFromOverlap ==
    \A e, f \in DOMAIN queue :
        e # f /\ Key(e) = Key(f) /\ IsOpen(e) /\ IsOpen(f) => Key(e) \in raced

\* What a scan found is in the queue when it commits: as an open entry, or in
\* one that somebody closed while the scan was running.
FoundIsQueued ==
    [][\A s \in Sessions : CommitScan(s) =>
         \A key \in desk[s].found : \E entry \in DOMAIN queue' :
            /\ Key(entry) = key
            /\ queue'[entry].status = "pending" \/ entry \in desk[s].closed]_vars

\* A done entry is linked to a committed document about its asset whose note
\* is in the vault, and, unless publishes of that note overlapped or failed,
\* it is the document of the analysis made for this entry, and the note shows
\* the newest of the analyses the database knows.
DoneIsWrittenUp ==
    /\ \A entry \in DOMAIN queue : queue[entry].status = "done" =>
         \E d \in documents :
            /\ d.id = queue[entry].document /\ d.asset = entry.asset
            /\ d.path \in DOMAIN vault
            /\ d.path \in disturbed \/ d.entry = entry
    /\ \A d \in documents :
         \/ d.path \in disturbed
         \/ \E s \in Sessions : desk[s].pc \in {"written", "saved"} /\ desk[s].path = d.path
         \/ vault[d.path] = {Newest({e \in documents : e.path = d.path}).analysis}

\* Rule 9 (models/thesis.py): every review in the database has its entry in
\* the thesis note, whatever failed on the way, the assessment never differs
\* from the opening one without a review that says so, and reviews that did
\* not overlap form a chain that ends in the current assessment.
AssessmentsAudited ==
    \A a \in Assets :
        LET mine == ReviewsOf(a)
            before(i) == {j \in mine : j < i}
            LastIn(S) == CHOOSE j \in S : \A k \in S : k <= j
            Until(i) == IF before(i) = {} THEN Opening ELSE reviews[LastIn(before(i))].to
        IN  /\ theses[a].noted =>
                 \A i \in mine : <<reviews[i].from, reviews[i].to>> \in Note(vault, ThesisPath(a))
            /\ theses[a].assessment \notin {Opening, None} =>
                 \E i \in mine : reviews[i].to = theses[a].assessment
            /\ (\A i \in mine : reviews[i].alone) =>
                 /\ \A i \in mine : reviews[i].from = Until(i)
                 /\ mine # {} => theses[a].assessment = reviews[LastIn(mine)].to

\* A thesis that broke or went stale is always recommended for the highest
\* tier, an earnings release or a turn of the trend for synthesis, and a price
\* or the calendar never justifies a model: the thresholds of the policy fit
\* the magnitudes the detector can produce.
RecommendationsFitTheEvent ==
    \A entry \in DOMAIN queue :
        LET advice == Recommendation([type |-> entry.type, importance |-> queue[entry].importance])
        IN  CASE entry.type = "thesis_violation" -> advice.outcome = "frontier_high"
              [] entry.type = "earnings_release" -> advice.outcome = "frontier"
              [] entry.type = "regime_change" ->
                    Escalates(advice) <=> queue[entry].importance = Full
              [] OTHER -> ~Escalates(advice)
=============================================================================
