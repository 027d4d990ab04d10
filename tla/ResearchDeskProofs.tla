-------------------------- MODULE ResearchDeskProofs --------------------------
(***************************************************************************)
(* The research desk, proved for every number of sessions, assets, days    *)
(* and faults, and whatever the market does.                               *)
(*                                                                         *)
(* Base is what sessions and rows look like.  On it stand four invariants: *)
(*   ScanInv    what a scan under way is going to insert, against the      *)
(*              entries that are open meanwhile;                           *)
(*   ReviewInv  what a review under way loaded and noted, against the      *)
(*              thesis, its note and the reviews committed meanwhile;      *)
(*   PubInv     what a session publishes, against the notes and the        *)
(*              documents of the others;                                   *)
(*   FitInv     what a scan reads, and what it rated, against the scales   *)
(*              of the detector and the scorer.                            *)
(* The first three do not need each other; FitInv needs them.  Each is     *)
(* kept by the steps of its own sessions, and every other step leaves      *)
(* alone what it reads.                                                    *)
(***************************************************************************)
EXTENDS ResearchDesk, FiniteSetTheorems, SequenceTheorems, WellFoundedInduction, TLAPS

-----------------------------------------------------------------------------
(***************************************************************************)
(* What every session and every row looks like.                            *)
(***************************************************************************)
Shaped(w) ==
    \/ w = Idle
    \/ w = [pc |-> "scanned", scan |-> w.scan, found |-> w.found, refresh |-> w.refresh,
            insert |-> w.insert, closed |-> w.closed]
    \/ w = [pc |-> "asked", asset |-> w.asset, entry |-> w.entry, began |-> w.began,
            analysis |-> w.analysis]
    \/ w = [pc |-> "written", asset |-> w.asset, entry |-> w.entry, began |-> w.began,
            path |-> w.path, analysis |-> w.analysis]
    \/ w = [pc |-> "saved", asset |-> w.asset, entry |-> w.entry, path |-> w.path, row |-> w.row]
    \/ w = [pc |-> "dismissing", entry |-> w.entry]
    \/ w = [pc |-> "reviewing", asset |-> w.asset, seen |-> w.seen, loaded |-> w.loaded]
    \/ w = [pc |-> "noted", asset |-> w.asset, seen |-> w.seen, loaded |-> w.loaded,
            assessment |-> w.assessment, at |-> w.at]

RowShaped(row) ==
    /\ row = [status |-> row.status, document |-> row.document,
              importance |-> row.importance, score |-> row.score]
    /\ row.status \in {"pending", "done", "dismissed"}

Base ==
    /\ desk = [s \in Sessions |-> desk[s]] /\ \A s \in Sessions : Shaped(desk[s])
    /\ queue = [e \in DOMAIN queue |-> queue[e]] /\ \A e \in DOMAIN queue : RowShaped(queue[e])
    /\ count \in [requests : Nat, ids : Nat, faults : Nat, news : Nat]

LEMMA Shapes ==
    /\ Shaped(Idle)
    /\ \A a, b, c, d, e : Shaped([pc |-> "scanned", scan |-> a, found |-> b, refresh |-> c,
                                  insert |-> d, closed |-> e])
    /\ \A a, b, c, d : Shaped([pc |-> "asked", asset |-> a, entry |-> b, began |-> c,
                               analysis |-> d])
    /\ \A a, b, c, d, e : Shaped([pc |-> "written", asset |-> a, entry |-> b, began |-> c,
                                  path |-> d, analysis |-> e])
    /\ \A a, b, c, d : Shaped([pc |-> "saved", asset |-> a, entry |-> b, path |-> c, row |-> d])
    /\ \A a : Shaped([pc |-> "dismissing", entry |-> a])
    /\ \A a, b, c : Shaped([pc |-> "reviewing", asset |-> a, seen |-> b, loaded |-> c])
    /\ \A a, b, c, d, e : Shaped([pc |-> "noted", asset |-> a, seen |-> b, loaded |-> c,
                                  assessment |-> d, at |-> e])
BY DEF Shaped

\* Session s goes on with work w; the others do not notice.
Turns(s, w) == desk' = [desk EXCEPT ![s] = w]

LEMMA TurnKeeps ==
    ASSUME Base, NEW s \in Sessions, NEW w, Turns(s, w)
    PROVE  /\ desk' = [t \in Sessions |-> desk'[t]]
           /\ desk'[s] = w /\ \A t \in Sessions \ {s} : desk'[t] = desk[t]
           /\ Shaped(w) => \A t \in Sessions : Shaped(desk'[t])
<1>1. /\ desk' = [t \in Sessions |-> desk'[t]]
      /\ desk'[s] = w /\ \A t \in Sessions \ {s} : desk'[t] = desk[t]
  BY DEF Base, Turns
<1>. HIDE DEF Turns
<1>2. \A t \in Sessions : Shaped(desk[t])
  BY DEF Base
<1>3. Shaped(w) => \A t \in Sessions : Shaped(desk'[t])
  BY <1>1, <1>2
<1>. QED  BY <1>1, <1>3

\* The entry is closed, and the scans under way are told.
Closes(s, entry) == desk' = Closing(s, entry)

LEMMA ToldOf ==
    ASSUME NEW w, w = [pc |-> "scanned", scan |-> w.scan, found |-> w.found,
                       refresh |-> w.refresh, insert |-> w.insert, closed |-> w.closed],
           NEW entry
    PROVE  [w EXCEPT !.closed = @ \cup {entry}]
             = [pc |-> "scanned", scan |-> w.scan, found |-> w.found, refresh |-> w.refresh,
                insert |-> w.insert, closed |-> w.closed \cup {entry}]
<1>. DEFINE v == [w EXCEPT !.closed = @ \cup {entry}]
<1>1. DOMAIN w = {"pc", "scan", "found", "refresh", "insert", "closed"}
  OBVIOUS
<1>2. v = [x \in DOMAIN w |-> IF x = "closed" THEN w.closed \cup {entry} ELSE w[x]]
  OBVIOUS
<1>. HIDE DEF v
<1>3. /\ v = [x \in {"pc", "scan", "found", "refresh", "insert", "closed"} |-> v[x]]
      /\ v.pc = w.pc /\ v.scan = w.scan /\ v.found = w.found /\ v.refresh = w.refresh
      /\ v.insert = w.insert /\ v.closed = w.closed \cup {entry}
  BY <1>1, <1>2
<1>4. w.pc = "scanned"
  OBVIOUS
<1>5. v = [pc |-> "scanned", scan |-> w.scan, found |-> w.found, refresh |-> w.refresh,
           insert |-> w.insert, closed |-> w.closed \cup {entry}]
  BY <1>3, <1>4
<1>. QED  BY <1>5 DEF v

LEMMA CloseKeeps ==
    ASSUME Base, NEW s \in Sessions, NEW entry, Closes(s, entry)
    PROVE  /\ desk' = [t \in Sessions |-> desk'[t]]
           /\ desk'[s] = Idle
           /\ \A t \in Sessions \ {s} :
                /\ desk[t].pc # "scanned" => desk'[t] = desk[t]
                /\ desk[t].pc = "scanned" =>
                     desk'[t] = [pc |-> "scanned", scan |-> desk[t].scan, found |-> desk[t].found,
                                 refresh |-> desk[t].refresh, insert |-> desk[t].insert,
                                 closed |-> desk[t].closed \cup {entry}]
           /\ \A t \in Sessions : Shaped(desk'[t])
<1>1. /\ desk' = [t \in Sessions |-> desk'[t]]
      /\ desk'[s] = Idle
      /\ \A t \in Sessions \ {s} :
           desk'[t] = IF desk[t].pc = "scanned" THEN [desk[t] EXCEPT !.closed = @ \cup {entry}]
                      ELSE desk[t]
  BY DEF Closes, Closing
<1>2. ASSUME NEW t \in Sessions \ {s}, desk[t].pc = "scanned"
      PROVE  desk'[t] = [pc |-> "scanned", scan |-> desk[t].scan, found |-> desk[t].found,
                         refresh |-> desk[t].refresh, insert |-> desk[t].insert,
                         closed |-> desk[t].closed \cup {entry}]
  <2>1. desk[t] = [pc |-> "scanned", scan |-> desk[t].scan, found |-> desk[t].found,
                   refresh |-> desk[t].refresh, insert |-> desk[t].insert,
                   closed |-> desk[t].closed]
    BY <1>2 DEF Base, Shaped, Idle
  <2>2. desk'[t] = [desk[t] EXCEPT !.closed = @ \cup {entry}]
    BY <1>1, <1>2
  <2>. QED  BY <2>1, <2>2, ToldOf
<1>3. \A t \in Sessions : Shaped(desk[t])
  BY DEF Base
<1>4. ASSUME NEW t \in Sessions PROVE Shaped(desk'[t])
  <2>1. CASE t = s
    BY <1>1, <2>1, Shapes
  <2>2. CASE t # s /\ desk[t].pc = "scanned"
    <3>1. PICK a, b, c, d, e : desk'[t] = [pc |-> "scanned", scan |-> a, found |-> b, refresh |-> c,
                                           insert |-> d, closed |-> e]
      BY <1>2, <2>2
    <3>. QED  BY <3>1, Shapes
  <2>3. CASE t # s /\ desk[t].pc # "scanned"
    BY <1>1, <1>3, <2>3
  <2>. QED  BY <2>1, <2>2, <2>3
<1>. QED  BY <1>1, <1>2, <1>4

-----------------------------------------------------------------------------
(***************************************************************************)
(* The steps, by what they do to the queue.                                *)
(***************************************************************************)
Inserts(s) == {EntryFor(s, key) : key \in DOMAIN desk[s].insert}

\* queue' where s commits its scan: new entries are pending, and no entry's status or
\* document changes.
Filled(s) ==
    /\ DOMAIN queue' = DOMAIN queue \cup Inserts(s)
    /\ \A e \in Inserts(s) : queue'[e].status = "pending"
    /\ \A e \in DOMAIN queue \ Inserts(s) :
         queue'[e].status = queue[e].status /\ queue'[e].document = queue[e].document

\* The row of a refreshed entry.
Refresh(row, l, r) ==
    [row EXCEPT !.importance = Written(@, l.importance, r.importance),
                !.score = Written(@, l.score, r.score)]

LEMMA Refreshed ==
    ASSUME NEW row, RowShaped(row), NEW l, NEW r
    PROVE  /\ RowShaped(Refresh(row, l, r))
           /\ Refresh(row, l, r).status = row.status
           /\ Refresh(row, l, r).document = row.document
           /\ Refresh(row, l, r).importance = Written(row.importance, l.importance, r.importance)
           /\ Refresh(row, l, r).score = Written(row.score, l.score, r.score)
<1>. DEFINE v == Refresh(row, l, r)
<1>1. DOMAIN row = {"status", "document", "importance", "score"}
  BY DEF RowShaped
<1>2. /\ DOMAIN v = DOMAIN row /\ v = [x \in DOMAIN v |-> v[x]]
      /\ v.status = row.status /\ v.document = row.document
      /\ v.importance = Written(row.importance, l.importance, r.importance)
      /\ v.score = Written(row.score, l.score, r.score)
  BY <1>1 DEF Refresh
<1>. HIDE DEF v
<1>3. RowShaped(v)
  BY <1>1, <1>2 DEF RowShaped
<1>. QED  BY <1>2, <1>3 DEF v

\* A step of a session that leaves the queue and the scans under way alone.
Aside ==
    /\ UNCHANGED <<queue, raced>>
    /\ \A t \in Sessions : desk'[t].pc = "scanned" => desk[t].pc = "scanned" /\ desk'[t] = desk[t]

\* What a scan that begins writes down.
Begins(s) ==
    /\ UNCHANGED <<queue, raced>>
    /\ \A t \in Sessions \ {s} : desk'[t] = desk[t]
    /\ desk'[s].pc = "scanned" /\ desk'[s].closed = {}
    /\ desk'[s].found = {Key(c) : c \in Detected}
    /\ DOMAIN desk'[s].insert = {Key(c) : c \in {c \in Detected : OpenFor(c) = {}}}

\* A scan commits.
Commits(s) ==
    /\ desk[s].pc = "scanned" /\ desk'[s] = Idle
    /\ \A t \in Sessions \ {s} : desk'[t] = desk[t]
    /\ Filled(s)
    /\ raced' = raced \cup
         {key \in DOMAIN desk[s].insert :
             \E t \in Sessions \ {s} : desk[t].pc = "scanned" /\ key \in DOMAIN desk[t].insert}

\* An entry is closed with a status.
Settles(s, entry, status, document) ==
    /\ UNCHANGED raced
    /\ DOMAIN queue' = DOMAIN queue
    /\ entry \in DOMAIN queue => queue'[entry].status = status
    /\ \A e \in DOMAIN queue \ {entry} : queue'[e] = queue[e]
    /\ Closes(s, entry)

LEMMA SettledRow ==
    ASSUME NEW row, RowShaped(row), NEW status \in {"done", "dismissed"}, NEW document
    PROVE  LET new == [status |-> status, document |-> document,
                       importance |-> row.importance, score |-> row.score]
           IN  /\ RowShaped(new)
               /\ [row EXCEPT !.status = status]
                    = [status |-> status, document |-> row.document,
                       importance |-> row.importance, score |-> row.score]
               /\ [[row EXCEPT !.status = status] EXCEPT !.document = document] = new
<1>. DEFINE first == [status |-> status, document |-> row.document,
                      importance |-> row.importance, score |-> row.score]
            new == [status |-> status, document |-> document,
                    importance |-> row.importance, score |-> row.score]
            v == [row EXCEPT !.status = status]
            w == [first EXCEPT !.document = document]
<1>1. DOMAIN row = {"status", "document", "importance", "score"}
  BY DEF RowShaped
<1>2. v = first
  <2>1. /\ DOMAIN v = DOMAIN row /\ v = [x \in DOMAIN v |-> v[x]]
        /\ v.status = status /\ v.document = row.document
        /\ v.importance = row.importance /\ v.score = row.score
    BY <1>1
  <2>. HIDE DEF v
  <2>. QED  BY <1>1, <2>1
<1>3. w = new
  OBVIOUS
<1>4. RowShaped(new)
  BY DEF RowShaped
<1>. QED  BY <1>2, <1>3, <1>4

LEMMA ScanBegins ==
    ASSUME Base, NEW s \in Sessions, Scan(s)
    PROVE  Begins(s) /\ Base'

<1>. DEFINE known == {c \in Detected : OpenFor(c) # {}}
<1>. DEFINE i == [key \in {Key(c) : c \in Detected \ known} |->
                     Rated(CHOOSE c \in Detected : Key(c) = key)]
            candidates == UNION {OpenFor(c) : c \in known}
            refreshed(passed) ==
              [entry \in candidates \ passed |->
                 [loaded |-> [importance |-> queue[entry].importance, score |-> queue[entry].score],
                  rated |-> Rated(CHOOSE c \in known : Key(c) = Key(entry))]]
<1>0. PICK passed :
        /\ Start(s, [pc |-> "scanned", scan |-> count.requests, found |-> {Key(c) : c \in Detected},
                     refresh |-> refreshed(passed), insert |-> i, closed |-> {}])
        /\ UNCHANGED <<queue, raced>>
  BY Zenon DEF Scan
<1>. DEFINE r == refreshed(passed)
<1>1. /\ Turns(s, [pc |-> "scanned", scan |-> count.requests, found |-> {Key(c) : c \in Detected},
                    refresh |-> r, insert |-> i, closed |-> {}])
      /\ DOMAIN i = {Key(c) : c \in Detected \ known}
      /\ count' = [count EXCEPT !.requests = @ + 1]
      /\ UNCHANGED <<queue, raced>>
  BY <1>0, Zenon DEF Start, Turns
<1>. HIDE DEF r, i
<1>2. DOMAIN i = {Key(c) : c \in {c \in Detected : OpenFor(c) = {}}}
  BY <1>1
<1>. DEFINE w == [pc |-> "scanned", scan |-> count.requests, found |-> {Key(c) : c \in Detected},
                  refresh |-> r, insert |-> i, closed |-> {}]
<1>3. Shaped(w) /\ w.pc = "scanned" /\ w.found = {Key(c) : c \in Detected}
      /\ w.insert = i /\ w.closed = {}
  BY Shapes
<1>. HIDE DEF w
<1>4. Turns(s, w)
  BY <1>1 DEF w
<1>5. /\ desk' = [t \in Sessions |-> desk'[t]]
      /\ desk'[s] = w /\ \A t \in Sessions \ {s} : desk'[t] = desk[t]
      /\ \A t \in Sessions : Shaped(desk'[t])
  BY <1>3, <1>4, TurnKeeps
<1>6. Begins(s)
  BY <1>1, <1>2, <1>3, <1>5 DEF Begins
<1>7. count' \in [requests : Nat, ids : Nat, faults : Nat, news : Nat]
  BY <1>1 DEF Base
<1>. QED  BY <1>1, <1>5, <1>6, <1>7 DEF Base

LEMMA ScanCommits ==
    ASSUME Base, NEW s \in Sessions, CommitScan(s)
    PROVE  Commits(s) /\ Base'
<1>. DEFINE row(e) ==
           IF e \in Inserts(s)
           THEN [status |-> "pending", document |-> NoDocument,
                 importance |-> desk[s].insert[Key(e)].importance,
                 score |-> desk[s].insert[Key(e)].score]
           ELSE IF e \in DOMAIN desk[s].refresh
           THEN LET loaded == desk[s].refresh[e].loaded
                    rated == desk[s].refresh[e].rated
                IN  [queue[e] EXCEPT
                        !.importance = Written(@, loaded.importance, rated.importance),
                        !.score = Written(@, loaded.score, rated.score)]
           ELSE queue[e]
<1>1. /\ queue' = [e \in DOMAIN queue \cup Inserts(s) |-> row(e)]
      /\ desk[s].pc = "scanned" /\ Turns(s, Idle) /\ UNCHANGED count
      /\ raced' = raced \cup
           {key \in DOMAIN desk[s].insert :
             \E t \in Sessions \ {s} : desk[t].pc = "scanned" /\ key \in DOMAIN desk[t].insert}
  BY Zenon DEF CommitScan, Inserts, Turns
<1>2. ASSUME NEW e \in Inserts(s) PROVE RowShaped(row(e)) /\ row(e).status = "pending"
  BY <1>2 DEF RowShaped
<1>3. ASSUME NEW e \in DOMAIN queue \ Inserts(s)
      PROVE  /\ RowShaped(row(e)) /\ row(e).status = queue[e].status
             /\ row(e).document = queue[e].document
  <2>1. RowShaped(queue[e])
    BY DEF Base
  <2>2. CASE e \in DOMAIN desk[s].refresh
    <3>. DEFINE l == desk[s].refresh[e].loaded
                r == desk[s].refresh[e].rated
    <3>1. row(e) = Refresh(queue[e], l, r)
      BY <2>2 DEF Refresh
    <3>. HIDE DEF l, r, row
    <3>. QED  BY <2>1, <3>1, Refreshed
  <2>3. CASE e \notin DOMAIN desk[s].refresh
    BY <2>1, <2>3
  <2>. QED  BY <2>2, <2>3
<1>. HIDE DEF row
<1>4. /\ DOMAIN queue' = DOMAIN queue \cup Inserts(s)
      /\ \A e \in DOMAIN queue' : queue'[e] = row(e)
      /\ queue' = [e \in DOMAIN queue' |-> queue'[e]]
  BY <1>1
<1>5. Filled(s) /\ \A e \in DOMAIN queue' : RowShaped(queue'[e])
  BY <1>2, <1>3, <1>4 DEF Filled
<1>6. /\ desk' = [t \in Sessions |-> desk'[t]]
      /\ desk'[s] = Idle /\ \A t \in Sessions \ {s} : desk'[t] = desk[t]
      /\ \A t \in Sessions : Shaped(desk'[t])
  BY <1>1, TurnKeeps, Shapes
<1>7. Commits(s)
  BY <1>1, <1>5, <1>6 DEF Commits
<1>8. count' \in [requests : Nat, ids : Nat, faults : Nat, news : Nat]
  BY <1>1 DEF Base
<1>. QED  BY <1>4, <1>5, <1>6, <1>7, <1>8 DEF Base

LEMMA DoneSettles ==
    ASSUME Base, NEW s \in Sessions, Finish(s), desk[s].entry # NoEntry
    PROVE  Settles(s, desk[s].entry, "done", Linked(s)) /\ Base'
           /\ (desk[s].entry \in DOMAIN queue => queue'[desk[s].entry].document = Linked(s))
<1>. DEFINE entry == desk[s].entry
            link == Linked(s)
<1>1. /\ queue' = [queue EXCEPT ![entry].status = "done", ![entry].document = link]
      /\ Closes(s, entry) /\ UNCHANGED <<count, raced>>
  BY Zenon DEF Finish, Closes
<1>. HIDE DEF entry, link
<1>2. queue = [e \in DOMAIN queue |-> queue[e]] /\ \A e \in DOMAIN queue : RowShaped(queue[e])
  BY DEF Base
<1>3. /\ DOMAIN queue' = DOMAIN queue /\ queue' = [e \in DOMAIN queue' |-> queue'[e]]
      /\ \A e \in DOMAIN queue \ {entry} : queue'[e] = queue[e]
      /\ entry \in DOMAIN queue =>
           queue'[entry] = [[queue[entry] EXCEPT !.status = "done"] EXCEPT !.document = link]
  BY <1>1, <1>2
<1>4. ASSUME entry \in DOMAIN queue
      PROVE  /\ RowShaped(queue'[entry]) /\ queue'[entry].status = "done"
             /\ queue'[entry].document = link
  <2>1. RowShaped(queue[entry])
        /\ queue'[entry] = [[queue[entry] EXCEPT !.status = "done"] EXCEPT !.document = link]
    BY <1>2, <1>3, <1>4
  <2>2. queue'[entry] = [status |-> "done", document |-> link,
                         importance |-> queue[entry].importance, score |-> queue[entry].score]
    BY <2>1, SettledRow
  <2>. QED  BY <2>2 DEF RowShaped
<1>5. \A e \in DOMAIN queue' : RowShaped(queue'[e])
  BY <1>2, <1>3, <1>4
<1>6. /\ desk' = [t \in Sessions |-> desk'[t]] /\ \A t \in Sessions : Shaped(desk'[t])
  BY <1>1, CloseKeeps
<1>7. count' \in [requests : Nat, ids : Nat, faults : Nat, news : Nat]
  BY <1>1 DEF Base
<1>8. Base'
  BY <1>3, <1>5, <1>6, <1>7 DEF Base
<1>9. Settles(s, entry, "done", link)
  BY <1>1, <1>3, <1>4 DEF Settles
<1>. QED  BY <1>4, <1>8, <1>9 DEF entry, link

LEMMA DismissSettles ==
    ASSUME Base, NEW s \in Sessions, Dismiss(s)
    PROVE  Settles(s, desk[s].entry, "dismissed", NoDocument) /\ Base'
<1>. DEFINE entry == desk[s].entry
<1>1. /\ queue' = [queue EXCEPT ![entry].status = "dismissed"]
      /\ Closes(s, entry) /\ UNCHANGED <<count, raced>>
  BY Zenon DEF Dismiss, Closes
<1>. HIDE DEF entry
<1>2. queue = [e \in DOMAIN queue |-> queue[e]] /\ \A e \in DOMAIN queue : RowShaped(queue[e])
  BY DEF Base
<1>3. /\ DOMAIN queue' = DOMAIN queue /\ queue' = [e \in DOMAIN queue' |-> queue'[e]]
      /\ \A e \in DOMAIN queue \ {entry} : queue'[e] = queue[e]
      /\ entry \in DOMAIN queue => queue'[entry] = [queue[entry] EXCEPT !.status = "dismissed"]
  BY <1>1, <1>2
<1>4. ASSUME entry \in DOMAIN queue
      PROVE  RowShaped(queue'[entry]) /\ queue'[entry].status = "dismissed"
  <2>1. RowShaped(queue[entry]) /\ queue'[entry] = [queue[entry] EXCEPT !.status = "dismissed"]
    BY <1>2, <1>3, <1>4
  <2>2. queue'[entry] = [status |-> "dismissed", document |-> queue[entry].document,
                         importance |-> queue[entry].importance, score |-> queue[entry].score]
    BY <2>1, SettledRow
  <2>. QED  BY <2>2 DEF RowShaped
<1>5. \A e \in DOMAIN queue' : RowShaped(queue'[e])
  BY <1>2, <1>3, <1>4
<1>6. /\ desk' = [t \in Sessions |-> desk'[t]] /\ \A t \in Sessions : Shaped(desk'[t])
  BY <1>1, CloseKeeps
<1>7. count' \in [requests : Nat, ids : Nat, faults : Nat, news : Nat]
  BY <1>1 DEF Base
<1>8. Base'
  BY <1>3, <1>5, <1>6, <1>7 DEF Base
<1>9. Settles(s, entry, "dismissed", NoDocument)
  BY <1>1, <1>3, <1>4 DEF Settles
<1>. QED  BY <1>8, <1>9 DEF entry

\* A step that turns one session to work other than a scan.
Elsewhere(s, w) ==
    /\ Turns(s, w) /\ Shaped(w) /\ w.pc # "scanned"
    /\ UNCHANGED <<queue, raced>>
    /\ count' \in [requests : Nat, ids : Nat, faults : Nat, news : Nat]

LEMMA ElsewhereAside ==
    ASSUME Base, NEW s \in Sessions, NEW w, Elsewhere(s, w)
    PROVE  Aside /\ Base'
<1>1. /\ desk' = [t \in Sessions |-> desk'[t]]
      /\ desk'[s] = w /\ \A t \in Sessions \ {s} : desk'[t] = desk[t]
      /\ \A t \in Sessions : Shaped(desk'[t])
  BY TurnKeeps DEF Elsewhere
<1>2. UNCHANGED <<queue, raced>> /\ w.pc # "scanned"
      /\ count' \in [requests : Nat, ids : Nat, faults : Nat, news : Nat]
  BY DEF Elsewhere
<1>3. Aside
  BY <1>1, <1>2 DEF Aside
<1>4. /\ queue' = [e \in DOMAIN queue' |-> queue'[e]] /\ \A e \in DOMAIN queue' : RowShaped(queue'[e])
  BY <1>2 DEF Base
<1>. QED  BY <1>1, <1>2, <1>3, <1>4 DEF Base

LEMMA OthersAside ==
    ASSUME Base, NEW s \in Sessions,
           \/ \E entry \in DOMAIN queue : Process(s, entry) \/ OpenDismissal(s, entry)
           \/ \E a \in Assets : Research(s, a) \/ OpenReview(s, a)
           \/ Publish(s) \/ Save(s) \/ (Finish(s) /\ desk[s].entry = NoEntry)
           \/ NoteReview(s) \/ CommitReview(s) \/ Abort(s)
    PROVE  Aside /\ Base'
<1>. SUFFICES \E w : Elsewhere(s, w)
  BY ElsewhereAside
<1>0. count \in [requests : Nat, ids : Nat, faults : Nat, news : Nat]
  BY DEF Base
<1>1. ASSUME NEW w, Start(s, w)
      PROVE  Turns(s, w) /\ count' \in [requests : Nat, ids : Nat, faults : Nat, news : Nat]
  BY <1>0, <1>1 DEF Start, Turns
<1>2. ASSUME NEW entry \in DOMAIN queue, Process(s, entry)  PROVE \E w : Elsewhere(s, w)
  <2>. DEFINE w == Asked(entry.asset, entry)
  <2>1. Start(s, w) /\ UNCHANGED <<queue, raced>>
    BY <1>2 DEF Process
  <2>2. Shaped(w) /\ w.pc # "scanned"
    BY Shapes DEF Asked
  <2>. QED  BY <1>1, <2>1, <2>2 DEF Elsewhere
<1>3. ASSUME NEW entry \in DOMAIN queue, OpenDismissal(s, entry)  PROVE \E w : Elsewhere(s, w)
  <2>. DEFINE w == [pc |-> "dismissing", entry |-> entry]
  <2>1. Start(s, w) /\ UNCHANGED <<queue, raced>>
    BY <1>3 DEF OpenDismissal
  <2>2. Shaped(w) /\ w.pc # "scanned"
    BY Shapes
  <2>. QED  BY <1>1, <2>1, <2>2 DEF Elsewhere
<1>4. ASSUME NEW a \in Assets, Research(s, a)  PROVE \E w : Elsewhere(s, w)
  <2>. DEFINE w == Asked(a, NoEntry)
  <2>1. Start(s, w) /\ UNCHANGED <<queue, raced>>
    BY <1>4 DEF Research
  <2>2. Shaped(w) /\ w.pc # "scanned"
    BY Shapes DEF Asked
  <2>. QED  BY <1>1, <2>1, <2>2 DEF Elsewhere
<1>5. ASSUME NEW a \in Assets, OpenReview(s, a)  PROVE \E w : Elsewhere(s, w)
  <2>. DEFINE w == [pc |-> "reviewing", asset |-> a, seen |-> Cardinality(ReviewsOf(a)),
                    loaded |-> theses[a].assessment]
  <2>1. Start(s, w) /\ UNCHANGED <<queue, raced>>
    BY <1>5 DEF OpenReview
  <2>2. Shaped(w) /\ w.pc # "scanned"
    BY Shapes
  <2>. QED  BY <1>1, <2>1, <2>2 DEF Elsewhere
<1>6. CASE Publish(s)
  <2>1. PICK put :
          /\ desk' = [desk EXCEPT ![s] =
               IF put.told
               THEN [pc |-> "written", asset |-> desk[s].asset, entry |-> desk[s].entry,
                     began |-> desk[s].began, path |-> NotePath(desk[s].asset, today),
                     analysis |-> desk[s].analysis]
               ELSE Idle]
          /\ UNCHANGED <<queue, count, raced>>
    BY <1>6, Zenon DEF Publish
  <2>. DEFINE w == IF put.told
               THEN [pc |-> "written", asset |-> desk[s].asset, entry |-> desk[s].entry,
                     began |-> desk[s].began, path |-> NotePath(desk[s].asset, today),
                     analysis |-> desk[s].analysis]
               ELSE Idle
  <2>2. Shaped(w) /\ w.pc # "scanned"
    BY Shapes, SMT DEF Idle
  <2>3. Turns(s, w)
    BY <2>1 DEF Turns
  <2>. HIDE DEF w
  <2>. QED  BY <1>0, <2>1, <2>2, <2>3 DEF Elsewhere
<1>7. CASE Save(s)
  <2>. DEFINE w == [pc |-> "saved", asset |-> desk[s].asset, entry |-> desk[s].entry,
          path |-> desk[s].path,
          row |-> [id |-> count.ids + 1, asset |-> desk[s].asset, path |-> desk[s].path,
                   created |-> desk[s].began, analysis |-> desk[s].analysis,
                   entry |-> desk[s].entry]]
  <2>1. /\ Turns(s, w) /\ count' = [count EXCEPT !.ids = @ + 1] /\ UNCHANGED <<queue, raced>>
    BY <1>7 DEF Save, Turns
  <2>2. Shaped(w) /\ w.pc # "scanned"
    BY Shapes
  <2>3. count' \in [requests : Nat, ids : Nat, faults : Nat, news : Nat]
    BY <1>0, <2>1
  <2>. HIDE DEF w
  <2>. QED  BY <2>1, <2>2, <2>3 DEF Elsewhere
<1>8. CASE Finish(s) /\ desk[s].entry = NoEntry
  <2>1. Turns(s, Idle) /\ UNCHANGED <<queue, count, raced>>
    BY <1>8 DEF Finish, Turns
  <2>. QED  BY <1>0, <2>1, Shapes DEF Elsewhere, Idle
<1>9. CASE NoteReview(s)
  <2>1. PICK w :
          /\ Turns(s, w) /\ UNCHANGED <<queue, count, raced>>
          /\ w = Idle \/ \E assessment : w = Reviewed(s, assessment)
    BY <1>9, Zenon DEF NoteReview, Turns
  <2>2. Shaped(w) /\ w.pc # "scanned"
    BY <2>1, Shapes DEF Reviewed, Idle
  <2>. QED  BY <1>0, <2>1, <2>2 DEF Elsewhere
<1>10. CASE CommitReview(s)
  <2>1. Turns(s, Idle) /\ UNCHANGED <<queue, count, raced>>
    BY <1>10 DEF CommitReview, Turns
  <2>. QED  BY <1>0, <2>1, Shapes DEF Elsewhere, Idle
<1>11. CASE Abort(s)
  <2>1. Turns(s, Idle) /\ UNCHANGED <<queue, raced>> /\ count' = [count EXCEPT !.faults = @ + 1]
    BY <1>11 DEF Abort, Turns
  <2>. QED  BY <1>0, <2>1, Shapes DEF Elsewhere, Idle
<1>. QED  BY <1>2, <1>3, <1>4, <1>5, <1>6, <1>7, <1>8, <1>9, <1>10, <1>11

LEMMA WorldAside ==
    ASSUME Base, UNCHANGED vars \/ ObserveRegime \/ DaysPass \/ \E a \in Assets : News(a)
    PROVE  Aside /\ Base'
<1>1. UNCHANGED <<desk, queue, raced>> /\ (UNCHANGED count \/ count' = [count EXCEPT !.news = @ + 1])
  BY DEF vars, ObserveRegime, DaysPass, News
<1>. QED  BY <1>1 DEF Base, Aside

LEMMA QueueSteps ==
    ASSUME Base, [Next]_vars
    PROVE  /\ Base'
           /\ \/ Aside
              \/ \E s \in Sessions : Begins(s) \/ Commits(s)
              \/ \E s \in Sessions : \E entry : \E status \in {"done", "dismissed"} : \E document :
                    Settles(s, entry, status, document)
<1>1. CASE UNCHANGED vars \/ ObserveRegime \/ DaysPass \/ \E a \in Assets : News(a)
  BY <1>1, WorldAside
<1>2. ASSUME NEW s \in Sessions, Scan(s)  PROVE Base' /\ Begins(s)
  BY <1>2, ScanBegins
<1>3. ASSUME NEW s \in Sessions, CommitScan(s)  PROVE Base' /\ Commits(s)
  BY <1>3, ScanCommits
<1>4. ASSUME NEW s \in Sessions, Finish(s), desk[s].entry # NoEntry
      PROVE  Base' /\ Settles(s, desk[s].entry, "done", Linked(s))
  BY <1>4, DoneSettles
<1>5. ASSUME NEW s \in Sessions, Dismiss(s)
      PROVE  Base' /\ Settles(s, desk[s].entry, "dismissed", NoDocument)
  BY <1>5, DismissSettles
<1>6. ASSUME NEW s \in Sessions,
             \/ \E entry \in DOMAIN queue : Process(s, entry) \/ OpenDismissal(s, entry)
             \/ \E a \in Assets : Research(s, a) \/ OpenReview(s, a)
             \/ Publish(s) \/ Save(s) \/ (Finish(s) /\ desk[s].entry = NoEntry)
             \/ NoteReview(s) \/ CommitReview(s) \/ Abort(s)
      PROVE  Aside /\ Base'
  BY <1>6, OthersAside
<1>. QED  BY <1>1, <1>2, <1>3, <1>4, <1>5, <1>6, Zenon DEF Next

-----------------------------------------------------------------------------
(***************************************************************************)
(* Scans and the queue.                                                    *)
(***************************************************************************)
\* The keys s inserts are pairs, and a key that is in the queue by now was inserted by
\* another scan at the same time; what s has found is in the queue or will be.
ScanOK(s) ==
    desk[s].pc = "scanned" =>
      /\ \A key \in DOMAIN desk[s].insert : key = <<key[1], key[2]>>
      /\ \A e \in DOMAIN queue : Key(e) \in DOMAIN desk[s].insert /\ IsOpen(e) => Key(e) \in raced
      /\ \A key \in desk[s].found :
           \/ key \in DOMAIN desk[s].insert
           \/ \E e \in DOMAIN queue :
                Key(e) = key /\ (queue[e].status = "pending" \/ e \in desk[s].closed)

ScanInv == DuplicatesOnlyFromOverlap /\ \A s \in Sessions : ScanOK(s)

LEMMA ScanInit == Init => Base /\ ScanInv
<1>. SUFFICES ASSUME Init PROVE Base /\ ScanInv
  OBVIOUS
<1>1. /\ queue = <<>> /\ desk = [s \in Sessions |-> Idle]
      /\ count = [requests |-> 0, ids |-> 0, faults |-> 0, news |-> 0]
  BY DEF Init
<1>2. DOMAIN queue = {} /\ queue = [e \in DOMAIN queue |-> queue[e]]
  BY <1>1
<1>3. \A s \in Sessions : desk[s] = Idle /\ desk[s].pc # "scanned"
  BY <1>1 DEF Idle
<1>4. desk = [s \in Sessions |-> desk[s]]
  BY <1>1
<1>5. Base
  BY <1>1, <1>2, <1>3, <1>4, Shapes DEF Base
<1>6. ScanInv
  BY <1>2, <1>3 DEF ScanInv, ScanOK, DuplicatesOnlyFromOverlap
<1>. QED  BY <1>5, <1>6

LEMMA AsideKeeps == ASSUME Base, ScanInv, Aside  PROVE ScanInv'
<1>1. queue' = queue /\ raced' = raced
  BY DEF Aside
<1>2. ASSUME NEW s \in Sessions PROVE ScanOK(s)'
  BY <1>1 DEF Aside, ScanInv, ScanOK, IsOpen
<1>3. DuplicatesOnlyFromOverlap'
  BY <1>1 DEF ScanInv, DuplicatesOnlyFromOverlap, IsOpen
<1>. QED  BY <1>2, <1>3 DEF ScanInv

LEMMA KeyOfEntry ==
    ASSUME NEW s \in Sessions, NEW e \in Inserts(s),
           \A key \in DOMAIN desk[s].insert : key = <<key[1], key[2]>>
    PROVE  Key(e) \in DOMAIN desk[s].insert /\ e = EntryFor(s, Key(e))
BY DEF Inserts, EntryFor, Key

LEMMA BeginKeeps == ASSUME Base, ScanInv, NEW s \in Sessions, Begins(s)  PROVE ScanInv'
<1>1. queue' = queue /\ raced' = raced
  BY DEF Begins
<1>2. ASSUME NEW t \in Sessions, t # s PROVE ScanOK(t)'
  BY <1>1, <1>2 DEF Begins, ScanInv, ScanOK, IsOpen
<1>3. ScanOK(s)'
  <2>1. \A c \in Detected : Key(c) = <<c.asset, c.type>> /\ Key(c) = <<Key(c)[1], Key(c)[2]>>
    BY DEF Key
  <2>2. DOMAIN desk'[s].insert = {Key(c) : c \in {c \in Detected : OpenFor(c) = {}}}
    BY DEF Begins
  <2>3. \A key \in DOMAIN desk'[s].insert : key = <<key[1], key[2]>>
    BY <2>1, <2>2
  <2>4. ASSUME NEW e \in DOMAIN queue, IsOpen(e)  PROVE Key(e) \notin DOMAIN desk'[s].insert
    BY <2>2, <2>4 DEF OpenFor
  <2>5. ASSUME NEW c \in Detected, OpenFor(c) # {}
        PROVE  \E e \in DOMAIN queue : Key(e) = Key(c) /\ queue[e].status = "pending"
    <3>1. PICK e \in DOMAIN queue : Key(e) = Key(c) /\ IsOpen(e)
      BY <2>5 DEF OpenFor
    <3>2. queue[e].status = "pending"
      BY <3>1 DEF IsOpen, Base, RowShaped
    <3>. QED  BY <3>1, <3>2
  <2>6. ASSUME NEW key \in desk'[s].found, key \notin DOMAIN desk'[s].insert
        PROVE  \E e \in DOMAIN queue : Key(e) = key /\ queue[e].status = "pending"
    <3>1. PICK c \in Detected : key = Key(c)
      BY DEF Begins
    <3>2. OpenFor(c) # {}
      BY <2>2, <2>6, <3>1
    <3>. QED  BY <2>5, <3>1, <3>2
  <2>7. \A e \in DOMAIN queue : IsOpen(e)' = IsOpen(e)
    BY <1>1 DEF IsOpen
  <2>. QED  BY <1>1, <2>3, <2>4, <2>6, <2>7 DEF ScanOK
<1>4. DuplicatesOnlyFromOverlap'
  BY <1>1 DEF ScanInv, DuplicatesOnlyFromOverlap, IsOpen
<1>. QED  BY <1>2, <1>3, <1>4 DEF ScanInv

LEMMA CommitKeeps == ASSUME Base, ScanInv, NEW s \in Sessions, Commits(s)  PROVE ScanInv'
<1>1. /\ DOMAIN queue' = DOMAIN queue \cup Inserts(s)
      /\ \A e \in Inserts(s) : queue'[e].status = "pending"
      /\ \A e \in DOMAIN queue \ Inserts(s) : queue'[e].status = queue[e].status
      /\ desk'[s] = Idle /\ \A t \in Sessions \ {s} : desk'[t] = desk[t]
      /\ desk[s].pc = "scanned" /\ raced \subseteq raced'
  BY DEF Commits, Filled
<1>2. \A key \in DOMAIN desk[s].insert : key = <<key[1], key[2]>>
  BY <1>1 DEF ScanInv, ScanOK
<1>3. \A e \in DOMAIN queue \ Inserts(s) : e \in DOMAIN queue' /\ (IsOpen(e)' <=> IsOpen(e))
  BY <1>1 DEF IsOpen
<1>4. \A e \in Inserts(s) : Key(e) \in DOMAIN desk[s].insert /\ e = EntryFor(s, Key(e))
  BY <1>2, KeyOfEntry
<1>5. ASSUME NEW e \in DOMAIN queue', NEW f \in DOMAIN queue',
             e # f, Key(e) = Key(f), IsOpen(e)', IsOpen(f)'
      PROVE  Key(e) \in raced'
  <2>1. CASE e \in Inserts(s) /\ f \in Inserts(s)
    BY <1>4, <1>5, <2>1
  <2>2. ASSUME NEW x \in Inserts(s), NEW y \in DOMAIN queue \ Inserts(s), Key(x) = Key(y), IsOpen(y)
        PROVE  Key(x) \in raced
    BY <1>1, <1>4, <2>2 DEF ScanInv, ScanOK
  <2>3. CASE e \notin Inserts(s) /\ f \notin Inserts(s)
    BY <1>1, <1>3, <1>5, <2>3 DEF ScanInv, DuplicatesOnlyFromOverlap
  <2>. QED  BY <1>1, <1>3, <1>5, <2>1, <2>2, <2>3
<1>6. ASSUME NEW t \in Sessions, desk'[t].pc = "scanned"  PROVE ScanOK(t)'
  <2>1. t # s /\ desk'[t] = desk[t] /\ ScanOK(t)
    BY <1>1, <1>6 DEF Idle, ScanInv
  <2>2. ASSUME NEW e \in DOMAIN queue', Key(e) \in DOMAIN desk[t].insert, IsOpen(e)'
        PROVE  Key(e) \in raced'
    <3>1. CASE e \in Inserts(s)
      BY <1>4, <1>6, <2>1, <2>2, <3>1 DEF Commits
    <3>2. CASE e \notin Inserts(s)
      BY <1>1, <1>3, <1>6, <2>1, <2>2, <3>2 DEF ScanOK
    <3>. QED  BY <3>1, <3>2
  <2>3. ASSUME NEW key \in desk[t].found, key \notin DOMAIN desk[t].insert
        PROVE  \E e \in DOMAIN queue' :
                 Key(e) = key /\ (queue'[e].status = "pending" \/ e \in desk[t].closed)
    BY <1>1, <1>6, <2>1, <2>3 DEF ScanOK
  <2>. QED  BY <1>6, <2>1, <2>2, <2>3 DEF ScanOK
<1>7. \A t \in Sessions : ScanOK(t)'
  BY <1>6 DEF ScanOK
<1>8. DuplicatesOnlyFromOverlap'
  BY <1>5 DEF DuplicatesOnlyFromOverlap
<1>. QED  BY <1>7, <1>8 DEF ScanInv

LEMMA SettleKeeps ==
    ASSUME Base, ScanInv, NEW s \in Sessions, NEW entry, NEW status \in {"done", "dismissed"},
           NEW document, Settles(s, entry, status, document)
    PROVE  ScanInv'
<1>1. /\ raced' = raced /\ DOMAIN queue' = DOMAIN queue
      /\ entry \in DOMAIN queue => queue'[entry].status = status
      /\ \A e \in DOMAIN queue \ {entry} : queue'[e] = queue[e]
  BY DEF Settles
<1>2. \A e \in DOMAIN queue : IsOpen(e)' => IsOpen(e)
  BY <1>1 DEF IsOpen
<1>3. DuplicatesOnlyFromOverlap'
  BY <1>1, <1>2 DEF ScanInv, DuplicatesOnlyFromOverlap
<1>4. ASSUME NEW t \in Sessions, desk'[t].pc = "scanned"  PROVE ScanOK(t)'
  <2>1. /\ desk[t].pc = "scanned" /\ desk'[t].found = desk[t].found
        /\ desk'[t].insert = desk[t].insert /\ desk'[t].closed = desk[t].closed \cup {entry}
    <3>1. Closes(s, entry)
      BY DEF Settles
    <3>2. /\ desk'[s] = Idle
          /\ \A u \in Sessions \ {s} :
               /\ desk[u].pc # "scanned" => desk'[u] = desk[u]
               /\ desk[u].pc = "scanned" =>
                    desk'[u] = [pc |-> "scanned", scan |-> desk[u].scan, found |-> desk[u].found,
                                refresh |-> desk[u].refresh, insert |-> desk[u].insert,
                                closed |-> desk[u].closed \cup {entry}]
      BY <3>1, CloseKeeps, Zenon
    <3>3. t \in Sessions \ {s}
      BY <1>4, <3>2 DEF Idle
    <3>4. desk[t].pc = "scanned"
      BY <1>4, <3>2, <3>3
    <3>5. desk'[t] = [pc |-> "scanned", scan |-> desk[t].scan, found |-> desk[t].found,
                      refresh |-> desk[t].refresh, insert |-> desk[t].insert,
                      closed |-> desk[t].closed \cup {entry}]
      BY <3>2, <3>3, <3>4, Zenon
    <3>. QED  BY <3>4, <3>5
  <2>2. ScanOK(t)
    BY DEF ScanInv
  <2>3. ASSUME NEW key \in desk[t].found, key \notin DOMAIN desk[t].insert
        PROVE  \E e \in DOMAIN queue' :
                 Key(e) = key /\ (queue'[e].status = "pending" \/ e \in desk'[t].closed)
    <3>1. PICK e \in DOMAIN queue : Key(e) = key /\ (queue[e].status = "pending" \/ e \in desk[t].closed)
      BY <2>1, <2>2, <2>3 DEF ScanOK
    <3>. QED  BY <1>1, <2>1, <3>1
  <2>. QED  BY <1>1, <1>2, <1>4, <2>1, <2>2, <2>3 DEF ScanOK
<1>5. \A t \in Sessions : ScanOK(t)'
  BY <1>4 DEF ScanOK
<1>. QED  BY <1>3, <1>5 DEF ScanInv

LEMMA ScanNext == Base /\ ScanInv /\ [Next]_vars => Base' /\ ScanInv'
BY QueueSteps, AsideKeeps, BeginKeeps, CommitKeeps, SettleKeeps, Zenon

LEMMA CommitFinds ==
    ASSUME Base, ScanInv, NEW s \in Sessions, CommitScan(s), NEW key \in desk[s].found
    PROVE  \E entry \in DOMAIN queue' :
             /\ Key(entry) = key
             /\ queue'[entry].status = "pending" \/ entry \in desk[s].closed
<1>1. Commits(s)
  BY ScanCommits
<1>2. /\ DOMAIN queue' = DOMAIN queue \cup Inserts(s)
      /\ \A e \in Inserts(s) : queue'[e].status = "pending"
      /\ \A e \in DOMAIN queue \ Inserts(s) : queue'[e].status = queue[e].status
      /\ ScanOK(s) /\ desk[s].pc = "scanned"
  BY <1>1 DEF Commits, Filled, ScanInv
<1>3. CASE key \in DOMAIN desk[s].insert
  <2>1. EntryFor(s, key) \in Inserts(s)
    BY <1>3 DEF Inserts
  <2>2. Key(EntryFor(s, key)) = key
    BY <1>2, <1>3 DEF ScanOK, EntryFor, Key
  <2>. QED  BY <1>2, <2>1, <2>2
<1>4. CASE key \notin DOMAIN desk[s].insert
  <2>1. PICK e \in DOMAIN queue : Key(e) = key /\ (queue[e].status = "pending" \/ e \in desk[s].closed)
    BY <1>2, <1>4 DEF ScanOK
  <2>. QED  BY <1>2, <2>1
<1>. QED  BY <1>3, <1>4

\* An asset has two open entries for one kind of change only when two scans inserted
\* them at the same time (intelligence.py scan, research_queue_repository.py enqueue).
THEOREM DuplicatesNeedAnOverlap == Spec => []DuplicatesOnlyFromOverlap
<1>1. ScanInv => DuplicatesOnlyFromOverlap
  BY DEF ScanInv
<1>. QED  BY <1>1, ScanInit, ScanNext, PTL DEF Spec

\* Whatever a scan found is in the queue when it commits, open or closed by somebody
\* while the scan was under way (intelligence.py scan, jobs/research_refresh.py).
THEOREM FoundStaysQueued == Spec => FoundIsQueued
<1>1. Base /\ ScanInv /\ [Next]_vars
        => [\A s \in Sessions : CommitScan(s) =>
              \A key \in desk[s].found : \E entry \in DOMAIN queue' :
                /\ Key(entry) = key
                /\ queue'[entry].status = "pending" \/ entry \in desk[s].closed]_vars
  BY CommitFinds
<1>. QED  BY <1>1, ScanInit, ScanNext, PTL DEF Spec, FoundIsQueued

-----------------------------------------------------------------------------
(***************************************************************************)
(* The vault.                                                              *)
(***************************************************************************)
LEMMA NoteOfWith ==
    ASSUME NEW v, NEW p, NEW E, NEW q
    PROVE  Note(With(v, p, E), q) = IF q = p THEN E ELSE Note(v, q)
BY DEF Note, With

LEMMA PutFacts ==
    ASSUME NEW v, NEW p, NEW x, NEW put \in Puts(v, p, x)
    PROVE  /\ put.vault = v \/ put.vault = With(v, p, {x})
           /\ put.told => put.vault = With(v, p, {x})
<1>1. PICK d \in Deliveries : put = [vault |-> IF d.times = 0 THEN v ELSE With(v, p, {x}),
                                     told |-> d.answer = "ok"]
  BY Zenon DEF Puts
<1>2. d.answer = "ok" => d.times # 0
  BY SMT, StoreAssumption DEF Deliveries
<1>3. put.vault = (IF d.times = 0 THEN v ELSE With(v, p, {x})) /\ put.told = (d.answer = "ok")
  BY <1>1, Zenon
<1>. QED  BY <1>2, <1>3

LEMMA AppendFacts ==
    ASSUME NEW v, NEW p, NEW x, NEW outcome \in SectionAppends(v, p, x)
    PROVE  /\ outcome.vault = v \/ outcome.vault = With(v, p, Note(v, p) \cup {x})
           /\ outcome.told => outcome.vault = With(v, p, Note(v, p) \cup {x})
<1>1. CASE \E d \in {d \in Deliveries : d.answer \notin {"missing", "rejected"}} :
             outcome = [vault |-> Appended(v, p, x, d.times), told |-> d.answer = "ok"]
  <2>1. PICK d \in Deliveries :
          outcome = [vault |-> Appended(v, p, x, d.times), told |-> d.answer = "ok"]
    BY <1>1, Zenon
  <2>2. d.answer = "ok" => d.times # 0
    BY SMT, StoreAssumption DEF Deliveries
  <2>3. outcome.vault = Appended(v, p, x, d.times) /\ outcome.told = (d.answer = "ok")
    BY <2>1, Zenon
  <2>. QED  BY <2>2, <2>3 DEF Appended
<1>2. CASE \E d \in {d \in Deliveries \X Deliveries : d[1].answer \in {"missing", "rejected"}} :
             outcome = [vault |-> Appended(v, p, x, d[1].times + d[2].times),
                        told |-> d[2].answer = "ok"]
  <2>1. PICK d \in Deliveries \X Deliveries :
          outcome = [vault |-> Appended(v, p, x, d[1].times + d[2].times),
                     told |-> d[2].answer = "ok"]
    BY <1>2, Zenon
  <2>2. PICK d1 \in Deliveries, d2 \in Deliveries : d1 = d[1] /\ d2 = d[2]
    BY <2>1
  <2>3. d1.times \in Nat /\ d2.times \in Nat /\ (d2.answer = "ok" => d2.times > 0)
    BY SMT, StoreAssumption DEF Deliveries
  <2>4. d2.answer = "ok" => d1.times + d2.times # 0
    BY <2>3
  <2>5. outcome.vault = Appended(v, p, x, d1.times + d2.times) /\ outcome.told = (d2.answer = "ok")
    BY <2>1, <2>2, Zenon
  <2>. QED  BY <2>4, <2>5 DEF Appended
<1>. QED  BY <1>1, <1>2, Zenon DEF SectionAppends

-----------------------------------------------------------------------------
(***************************************************************************)
(* The chain of reviews of one thesis.                                     *)
(***************************************************************************)
LEMMA Greatest ==
    ASSUME NEW T, T \subseteq Nat, T # {}, NEW m \in Nat, \A t \in T : t <= m
    PROVE  \E t \in T : \A u \in T : u <= t
<1>. DEFINE gaps == {m - t : t \in T}
<1>1. gaps \subseteq Nat /\ gaps # {}
  <2>1. \A t \in T : m - t \in Nat
    OBVIOUS
  <2>. QED  BY <2>1
<1>2. PICK g \in gaps : \A h \in gaps : ~(<<h, g>> \in OpToRel(<, Nat))
  BY <1>1, NatLessThanWellFounded, WFMin
<1>3. PICK t \in T : g = m - t
  OBVIOUS
<1>4. ASSUME NEW u \in T, t < u  PROVE FALSE
  <2>1. m - u \in gaps /\ m - u \in Nat /\ g \in Nat
    BY <1>1
  <2>2. <<m - u, g>> \in Nat \X Nat /\ <<m - u, g>>[1] < <<m - u, g>>[2]
    BY <1>3, <1>4, <2>1
  <2>3. <<m - u, g>> \in OpToRel(<, Nat)
    BY <2>2, Zenon DEF OpToRel
  <2>. QED  BY <1>2, <2>1, <2>3
<1>5. ASSUME NEW u \in T  PROVE u <= t
  <2>1. u \in Int /\ t \in Int /\ ~(t < u)
    BY <1>4
  <2>. QED  BY <2>1
<1>. QED  BY <1>5

Review == [asset : Assets, from : Assessments, to : Assessments, alone : BOOLEAN]

\* Last names the greatest element.
Last(S) == CHOOSE j \in S : \A k \in S : k <= j
Mine(R, a) == {i \in DOMAIN R : R[i].asset = a}
Prior(R, a, i) == {j \in Mine(R, a) : j < i}
Until(R, a, i) == IF Prior(R, a, i) = {} THEN Opening ELSE R[Last(Prior(R, a, i))].to

\* Reviews that did not overlap form a chain from the opening to the current assessment.
Chained(R, a, current) ==
    (\A i \in Mine(R, a) : R[i].alone) =>
      /\ \A i \in Mine(R, a) : R[i].from = Until(R, a, i)
      /\ Mine(R, a) # {} => current = R[Last(Mine(R, a))].to

Explained(R, a, current) ==
    current \notin {Opening, None} => \E i \in Mine(R, a) : R[i].to = current

LEMMA LastIsGreatest ==
    ASSUME NEW S, S \subseteq Nat, S # {}, NEW m \in Nat, \A j \in S : j <= m
    PROVE  Last(S) \in S /\ \A k \in S : k <= Last(S)
BY Greatest DEF Last

LEMMA LastIs ==
    ASSUME NEW S, S \subseteq Nat, NEW j \in S, \A k \in S : k <= j
    PROVE  Last(S) = j
<1>1. Last(S) \in S /\ \A k \in S : k <= Last(S)
  BY DEF Last
<1>2. Last(S) \in Nat /\ j \in Nat /\ Last(S) <= j /\ j <= Last(S)
  BY <1>1
<1>. QED  BY <1>2

\* What is said of the first n reviews stays true when another follows.
LEMMA GrownReviews ==
    ASSUME NEW R \in Seq(Review), NEW row \in Review
    PROVE  LET Q == Append(R, row) IN
           /\ Q \in Seq(Review) /\ Len(Q) = Len(R) + 1 /\ Len(R) \in Nat
           /\ DOMAIN Q = DOMAIN R \cup {Len(R) + 1} /\ Len(R) + 1 \notin DOMAIN R
           /\ DOMAIN R \subseteq 1..Len(R)
           /\ Q[Len(R) + 1] = row /\ \A i \in DOMAIN R : Q[i] = R[i]
           /\ \A a : Mine(Q, a) = Mine(R, a) \cup {i \in {Len(R) + 1} : row.asset = a}
<1>. DEFINE Q == Append(R, row)
<1>1. /\ Q \in Seq(Review) /\ Len(Q) = Len(R) + 1 /\ Len(R) \in Nat
      /\ DOMAIN R = 1..Len(R) /\ DOMAIN Q = 1..(Len(R) + 1)
      /\ Q[Len(R) + 1] = row /\ \A i \in 1..Len(R) : Q[i] = R[i]
  OBVIOUS
<1>. HIDE DEF Q
<1>2. DOMAIN Q = DOMAIN R \cup {Len(R) + 1} /\ Len(R) + 1 \notin DOMAIN R
  BY <1>1
<1>3. \A a : Mine(Q, a) = Mine(R, a) \cup {i \in {Len(R) + 1} : row.asset = a}
  BY <1>1, <1>2 DEF Mine
<1>. QED  BY <1>1, <1>2, <1>3 DEF Q

LEMMA UntilStays ==
    ASSUME NEW R \in Seq(Review), NEW row \in Review, NEW a, NEW i \in Mine(R, a)
    PROVE  Until(Append(R, row), a, i) = Until(R, a, i)
<1>. DEFINE Q == Append(R, row)
            n == Len(R) + 1
<1>1. /\ Len(R) \in Nat /\ DOMAIN R \subseteq 1..Len(R) /\ n \notin DOMAIN R
      /\ \A j \in DOMAIN R : Q[j] = R[j]
      /\ Mine(Q, a) = Mine(R, a) \cup {j \in {n} : row.asset = a}
  BY GrownReviews
<1>2. i \in 1..Len(R) /\ Mine(R, a) \subseteq DOMAIN R
  BY <1>1 DEF Mine
<1>. HIDE DEF Q
<1>3. Prior(Q, a, i) = Prior(R, a, i)
  BY <1>1, <1>2 DEF Prior
<1>4. ASSUME Prior(R, a, i) # {} PROVE Until(Q, a, i) = Until(R, a, i)
  <2>1. Prior(R, a, i) \subseteq Nat /\ \A j \in Prior(R, a, i) : j <= Len(R)
    BY <1>1, <1>2 DEF Prior
  <2>2. Last(Prior(R, a, i)) \in DOMAIN R
    BY <1>1, <1>2, <1>4, <2>1, LastIsGreatest DEF Prior
  <2>. QED  BY <1>1, <1>3, <1>4, <2>2 DEF Until
<1>5. ASSUME Prior(R, a, i) = {} PROVE Until(Q, a, i) = Until(R, a, i)
  BY <1>3, <1>5 DEF Until
<1>. QED  BY <1>4, <1>5 DEF Q

LEMMA ChainOfOthers ==
    ASSUME NEW R \in Seq(Review), NEW row \in Review, NEW a, row.asset # a, NEW current,
           Chained(R, a, current), Explained(R, a, current)
    PROVE  Chained(Append(R, row), a, current) /\ Explained(Append(R, row), a, current)
<1>. DEFINE Q == Append(R, row)
<1>1. /\ Len(R) \in Nat /\ DOMAIN R \subseteq 1..Len(R)
      /\ \A j \in DOMAIN R : Q[j] = R[j]
      /\ Mine(Q, a) = Mine(R, a)
  <2>1. Mine(Q, a) = Mine(R, a) \cup {i \in {Len(R) + 1} : row.asset = a}
    BY GrownReviews
  <2>. QED  BY <2>1, GrownReviews
<1>2. \A i \in Mine(R, a) : Until(Q, a, i) = Until(R, a, i)
  BY UntilStays
<1>3. Mine(R, a) \subseteq DOMAIN R
  BY DEF Mine
<1>4. Mine(R, a) # {} => Last(Mine(R, a)) \in DOMAIN R
  <2>1. Mine(R, a) \subseteq Nat /\ \A j \in Mine(R, a) : j <= Len(R)
    BY <1>1, <1>3
  <2>. QED  BY <1>1, <1>3, <2>1, LastIsGreatest
<1>. HIDE DEF Q
<1>5. Chained(Q, a, current)
  BY <1>1, <1>2, <1>3, <1>4 DEF Chained
<1>6. Explained(Q, a, current)
  BY <1>1, <1>3 DEF Explained
<1>. QED  BY <1>5, <1>6 DEF Q

LEMMA ChainGrows ==
    ASSUME NEW R \in Seq(Review), NEW row \in Review, NEW a, row.asset = a,
           NEW current, NEW next, current # None,
           Chained(R, a, current), Explained(R, a, current),
           next = current \/ next = row.to,
           row.alone => row.from = current /\ next = row.to
    PROVE  Chained(Append(R, row), a, next) /\ Explained(Append(R, row), a, next)
<1>. DEFINE Q == Append(R, row)
            n == Len(R) + 1
<1>1. /\ Len(R) \in Nat /\ DOMAIN R \subseteq 1..Len(R) /\ n \notin DOMAIN R
      /\ \A j \in DOMAIN R : Q[j] = R[j]
      /\ Q[n] = row
      /\ Mine(Q, a) = Mine(R, a) \cup {n}
  BY GrownReviews
<1>2. \A i \in Mine(R, a) : Until(Q, a, i) = Until(R, a, i)
  BY UntilStays
<1>3. Mine(R, a) \subseteq DOMAIN R /\ Mine(R, a) \subseteq Nat /\ \A j \in Mine(R, a) : j <= Len(R)
  BY <1>1 DEF Mine
<1>. HIDE DEF Q
<1>4. Last(Mine(Q, a)) = n
  <2>1. Mine(Q, a) \subseteq Nat /\ n \in Mine(Q, a) /\ \A k \in Mine(Q, a) : k <= n
    BY <1>1, <1>3
  <2>. HIDE DEF n
  <2>. QED  BY <2>1, LastIs
<1>5. Prior(Q, a, n) = Mine(R, a)
  BY <1>1, <1>3 DEF Prior
<1>6. Explained(Q, a, next)
  <2>1. CASE next = row.to
    BY <1>1, <2>1 DEF Explained
  <2>2. CASE next = current
    BY <1>1, <1>3, <2>2 DEF Explained
  <2>. QED  BY <2>1, <2>2
<1>7. ASSUME \A i \in Mine(Q, a) : Q[i].alone
      PROVE  /\ \A i \in Mine(Q, a) : Q[i].from = Until(Q, a, i)
             /\ next = Q[Last(Mine(Q, a))].to
  <2>1. row.alone /\ \A i \in Mine(R, a) : R[i].alone
    BY <1>1, <1>3, <1>7
  <2>2. /\ \A i \in Mine(R, a) : R[i].from = Until(R, a, i)
        /\ Mine(R, a) # {} => current = R[Last(Mine(R, a))].to
    BY <2>1 DEF Chained
  <2>3. row.from = current /\ next = row.to
    BY <2>1
  <2>4. Until(Q, a, n) = current
    <3>1. CASE Mine(R, a) = {}
      BY <1>5, <3>1 DEF Until, Explained
    <3>2. CASE Mine(R, a) # {}
      <4>1. Last(Mine(R, a)) \in DOMAIN R
        BY <1>1, <1>3, <3>2, LastIsGreatest
      <4>. QED  BY <1>1, <1>5, <2>2, <3>2, <4>1 DEF Until
    <3>. QED  BY <3>1, <3>2
  <2>5. ASSUME NEW i \in Mine(R, a) PROVE Q[i].from = Until(Q, a, i)
    BY <1>1, <1>2, <1>3, <2>2
  <2>. QED  BY <1>1, <1>4, <2>3, <2>4, <2>5
<1>. QED  BY <1>6, <1>7 DEF Chained, Q

-----------------------------------------------------------------------------
(***************************************************************************)
(* Reviews.                                                                *)
(***************************************************************************)
ThesisTypes ==
    /\ today \in Days
    /\ theses \in [Assets -> [assessment : Assessments \cup {None},
                              reviewed : {Never} \cup Days, noted : BOOLEAN]]
    /\ reviews \in Seq(Review)

\* A review under way: its thesis exists, and as long as no other review of it was
\* committed, its assessment is the one that was loaded; once it is noted, its entry is in
\* the note.
ReviewSound(w, thesis, committed, note) ==
    /\ w.asset \in Assets /\ w.seen \in Nat /\ w.loaded \in Assessments
    /\ thesis.assessment # None
    /\ w.seen <= committed /\ (w.seen = committed => w.loaded = thesis.assessment)
    /\ w.pc = "noted" =>
         /\ w.assessment \in Assessments /\ w.at \in Days
         /\ thesis.noted => <<w.loaded, w.assessment>> \in note

ReviewOK(s) ==
    desk[s].pc \in {"reviewing", "noted"} =>
      ReviewSound(desk[s], theses[desk[s].asset], Cardinality(Mine(reviews, desk[s].asset)),
                  Note(vault, ThesisPath(desk[s].asset)))

\* What AssessmentsAudited says of one thesis.
Audited(thesis, R, a, note) ==
    /\ thesis.noted => \A i \in Mine(R, a) : <<R[i].from, R[i].to>> \in note
    /\ Explained(R, a, thesis.assessment)
    /\ Chained(R, a, thesis.assessment)

ThesisOK(a) == Audited(theses[a], reviews, a, Note(vault, ThesisPath(a)))

ReviewInv ==
    /\ ThesisTypes
    /\ \A s \in Sessions : ReviewOK(s)
    /\ \A a \in Assets : ThesisOK(a)

LEMMA ReviewInvAudits == ReviewInv => AssessmentsAudited
<1>. SUFFICES ASSUME ReviewInv, NEW a \in Assets
              PROVE  LET mine == ReviewsOf(a)
                         before(i) == {j \in mine : j < i}
                         LastIn(S) == CHOOSE j \in S : \A k \in S : k <= j
                         Before(i) == IF before(i) = {} THEN Opening ELSE reviews[LastIn(before(i))].to
                     IN  /\ theses[a].noted =>
                              \A i \in mine : <<reviews[i].from, reviews[i].to>> \in Note(vault, ThesisPath(a))
                         /\ theses[a].assessment \notin {Opening, None} =>
                              \E i \in mine : reviews[i].to = theses[a].assessment
                         /\ (\A i \in mine : reviews[i].alone) =>
                              /\ \A i \in mine : reviews[i].from = Before(i)
                              /\ mine # {} => theses[a].assessment = reviews[LastIn(mine)].to
  BY Zenon DEF AssessmentsAudited
<1>1. ThesisOK(a) /\ ReviewsOf(a) = Mine(reviews, a)
  BY DEF ReviewInv, ReviewsOf, Mine
<1>. QED  BY <1>1, Zenon DEF ThesisOK, Audited, Explained, Chained, Until, Prior, Last

LEMMA CountOfReviews ==
    ASSUME ThesisTypes, NEW a
    PROVE  IsFiniteSet(Mine(reviews, a)) /\ Cardinality(Mine(reviews, a)) \in Nat
<1>1. Mine(reviews, a) \subseteq 1..Len(reviews) /\ Len(reviews) \in Nat
  BY DEF Mine, ThesisTypes
<1>2. IsFiniteSet(1..Len(reviews))
  BY <1>1, FS_Interval
<1>. QED  BY <1>1, <1>2, FS_Subset, FS_CardinalityType

LEMMA ReviewInit == Init => ReviewInv
<1>. SUFFICES ASSUME Init PROVE ReviewInv
  OBVIOUS
<1>1. /\ today = 0 /\ theses \in [Assets -> OpeningTheses] /\ reviews = <<>>
      /\ desk = [s \in Sessions |-> Idle]
  BY DEF Init
<1>2. OpeningTheses \subseteq [assessment : Assessments \cup {None},
                               reviewed : {Never} \cup Days, noted : BOOLEAN]
  BY DeskAssumption DEF OpeningTheses
<1>3. theses \in [Assets -> [assessment : Assessments \cup {None},
                             reviewed : {Never} \cup Days, noted : BOOLEAN]]
  BY <1>1, <1>2
<1>4. ThesisTypes
  BY <1>1, <1>3, DeskAssumption DEF ThesisTypes
<1>5. \A s \in Sessions : ReviewOK(s)
  BY <1>1 DEF ReviewOK, Idle
<1>6. ASSUME NEW a \in Assets PROVE ThesisOK(a)
  <2>1. Mine(reviews, a) = {}
    BY <1>1 DEF Mine
  <2>2. theses[a].assessment \in {Opening, None}
    BY <1>1 DEF OpeningTheses
  <2>. QED  BY <2>1, <2>2 DEF ThesisOK, Audited, Explained, Chained
<1>. QED  BY <1>4, <1>5, <1>6 DEF ReviewInv

\* Sessions at work of a kind are where they were.
Quiet(kinds) == \A t \in Sessions : desk'[t].pc \in kinds => desk'[t] = desk[t]

LEMMA TurnQuiet ==
    ASSUME Base, NEW s \in Sessions, NEW w, Turns(s, w), NEW kinds, w.pc \notin kinds
    PROVE  Quiet(kinds)
<1>1. desk'[s] = w /\ \A t \in Sessions \ {s} : desk'[t] = desk[t]
  BY TurnKeeps
<1>. QED  BY <1>1 DEF Quiet

LEMMA CloseQuiet ==
    ASSUME Base, NEW s \in Sessions, NEW entry, Closes(s, entry),
           NEW kinds, "idle" \notin kinds, "scanned" \notin kinds
    PROVE  Quiet(kinds)
<1>1. /\ desk'[s] = Idle
      /\ \A t \in Sessions \ {s} :
           /\ desk[t].pc # "scanned" => desk'[t] = desk[t]
           /\ desk[t].pc = "scanned" =>
                desk'[t] = [pc |-> "scanned", scan |-> desk[t].scan, found |-> desk[t].found,
                            refresh |-> desk[t].refresh, insert |-> desk[t].insert,
                            closed |-> desk[t].closed \cup {entry}]
  BY CloseKeeps, ZenonT(30)
<1>2. ASSUME NEW t \in Sessions, desk'[t].pc \in kinds  PROVE desk'[t] = desk[t]
  <2>1. t # s
    BY <1>1, <1>2 DEF Idle
  <2>2. CASE desk[t].pc = "scanned"
    <3>1. desk'[t] = [pc |-> "scanned", scan |-> desk[t].scan, found |-> desk[t].found,
                      refresh |-> desk[t].refresh, insert |-> desk[t].insert,
                      closed |-> desk[t].closed \cup {entry}]
      BY <1>1, <2>1, <2>2
    <3>2. desk'[t].pc = "scanned"
      BY <3>1
    <3>. QED  BY <1>2, <3>2
  <2>3. CASE desk[t].pc # "scanned"
    BY <1>1, <2>1, <2>3
  <2>. QED  BY <2>2, <2>3
<1>. QED  BY <1>2 DEF Quiet

\* A step that leaves theses, reviews, their notes and those who review alone.
ReviewsAside ==
    /\ UNCHANGED <<theses, reviews>> /\ today' \in Days
    /\ Quiet({"reviewing", "noted"})
    /\ \A a \in Assets : Note(vault', ThesisPath(a)) = Note(vault, ThesisPath(a))

LEMMA ReviewsAsideKeep == ASSUME ReviewInv, ReviewsAside  PROVE ReviewInv'
<1>1. theses' = theses /\ reviews' = reviews /\ today' \in Days
  BY DEF ReviewsAside
<1>2. ThesisTypes'
  BY <1>1 DEF ReviewInv, ThesisTypes
<1>3. ASSUME NEW s \in Sessions, desk'[s].pc \in {"reviewing", "noted"}  PROVE ReviewOK(s)'
  <2>1. desk'[s] = desk[s] /\ ReviewOK(s)
    BY <1>3 DEF ReviewsAside, Quiet, ReviewInv
  <2>2. desk[s].asset \in Assets
    BY <1>3, <2>1 DEF ReviewOK, ReviewSound
  <2>3. Note(vault', ThesisPath(desk[s].asset)) = Note(vault, ThesisPath(desk[s].asset))
    BY <2>2 DEF ReviewsAside
  <2>. QED  BY <1>1, <2>1, <2>3 DEF ReviewOK
<1>4. ASSUME NEW a \in Assets PROVE ThesisOK(a)'
  <2>1. Note(vault', ThesisPath(a)) = Note(vault, ThesisPath(a)) /\ ThesisOK(a)
    BY DEF ReviewsAside, ReviewInv
  <2>. QED  BY <1>1, <2>1 DEF ThesisOK
<1>. QED  BY <1>2, <1>3, <1>4 DEF ReviewInv, ReviewOK

LEMMA OpenReviewKeeps ==
    ASSUME Base, ReviewInv, NEW s \in Sessions, NEW a \in Assets, OpenReview(s, a)
    PROVE  ReviewInv'
<1>. DEFINE w == [pc |-> "reviewing", asset |-> a, seen |-> Cardinality(ReviewsOf(a)),
                  loaded |-> theses[a].assessment]
<1>1. /\ theses[a].assessment # None /\ Turns(s, w)
      /\ UNCHANGED <<today, theses, reviews, vault>>
  BY DEF OpenReview, Start, Turns
<1>2. w.pc = "reviewing" /\ w.asset = a /\ w.seen = Cardinality(Mine(reviews, a))
      /\ w.loaded = theses[a].assessment
  BY DEF ReviewsOf, Mine
<1>. HIDE DEF w
<1>3. desk'[s] = w /\ \A t \in Sessions \ {s} : desk'[t] = desk[t]
  BY <1>1, TurnKeeps
<1>4. ThesisTypes /\ ThesisTypes'
  BY <1>1 DEF ReviewInv, ThesisTypes
<1>5. ReviewSound(w, theses[a], Cardinality(Mine(reviews, a)), Note(vault, ThesisPath(a)))
  <2>1. theses[a].assessment \in Assessments
    BY <1>1, <1>4 DEF ThesisTypes
  <2>2. Cardinality(Mine(reviews, a)) \in Nat
    BY <1>4, CountOfReviews
  <2>. QED  BY <1>1, <1>2, <2>1, <2>2 DEF ReviewSound
<1>6. ReviewOK(s)'
  BY <1>1, <1>2, <1>3, <1>5 DEF ReviewOK
<1>7. ASSUME NEW t \in Sessions, t # s  PROVE ReviewOK(t)'
  BY <1>1, <1>3, <1>7 DEF ReviewInv, ReviewOK
<1>8. \A b \in Assets : ThesisOK(b)'
  BY <1>1 DEF ReviewInv, ThesisOK
<1>. QED  BY <1>4, <1>6, <1>7, <1>8 DEF ReviewInv

LEMMA NoteGrows ==
    ASSUME NEW v, NEW new, NEW p, NEW E, NEW q,
           new = v \/ (new = With(v, p, E) /\ Note(v, p) \subseteq E)
    PROVE  Note(v, q) \subseteq Note(new, q)
<1>1. CASE new = v
  BY <1>1
<1>2. CASE new = With(v, p, E) /\ Note(v, p) \subseteq E
  <2>1. Note(new, q) = IF q = p THEN E ELSE Note(v, q)
    BY <1>2, NoteOfWith
  <2>. QED  BY <1>2, <2>1
<1>. QED  BY <1>1, <1>2

\* The note grows by the entry; the thesis without a note has none.
LEMMA Noting ==
    ASSUME NEW s \in Sessions, NoteReview(s)
    PROVE  \E w, assessment, E :
             /\ assessment \in Verdicts /\ Turns(s, w)
             /\ (w = Idle \/ w = Reviewed(s, assessment))
             /\ LET path == ThesisPath(desk[s].asset)
                    entry == <<desk[s].loaded, assessment>>
                IN  /\ vault' = vault \/ (vault' = With(vault, path, E) /\ Note(vault, path) \subseteq E)
                    /\ vault' # vault => theses[desk[s].asset].noted
                    /\ w # Idle => (theses[desk[s].asset].noted => entry \in Note(vault', path))
<1>. DEFINE a == desk[s].asset
            path == ThesisPath(a)
<1>1. PICK assessment \in Verdicts :
         IF theses[a].noted
         THEN \E outcome \in SectionAppends(vault, path, <<desk[s].loaded, assessment>>) :
                /\ vault' = outcome.vault
                /\ desk' = [desk EXCEPT ![s] = IF outcome.told THEN Reviewed(s, assessment) ELSE Idle]
         ELSE /\ desk' = [desk EXCEPT ![s] = Reviewed(s, assessment)]
              /\ UNCHANGED vault
  BY Zenon DEF NoteReview
<1>. DEFINE x == <<desk[s].loaded, assessment>>
            E == Note(vault, path) \cup {x}
            grown == With(vault, path, E)
<1>2. x \in Note(grown, path)
  <2>1. x \in E
    OBVIOUS
  <2>. HIDE DEF E, x, path
  <2>2. Note(With(vault, path, E), path) = E
    BY NoteOfWith
  <2>. QED  BY <2>1, <2>2
<1>3. CASE theses[a].noted
  <2>1. PICK outcome \in SectionAppends(vault, path, x) :
          /\ vault' = outcome.vault
          /\ desk' = [desk EXCEPT ![s] = IF outcome.told THEN Reviewed(s, assessment) ELSE Idle]
    BY <1>1, <1>3
  <2>2. /\ outcome.vault = vault \/ outcome.vault = grown
        /\ outcome.told => outcome.vault = grown
    BY AppendFacts
  <2>. DEFINE w == IF outcome.told THEN Reviewed(s, assessment) ELSE Idle
  <2>3. Turns(s, w) /\ (w = Idle \/ w = Reviewed(s, assessment)) /\ (w # Idle => outcome.told)
    BY <2>1, Zenon DEF Turns
  <2>4. w # Idle => x \in Note(vault', path)
    BY <1>2, <2>1, <2>2, <2>3, Zenon
  <2>5. vault' = vault \/ (vault' = With(vault, path, E) /\ Note(vault, path) \subseteq E)
    BY <2>1, <2>2, Zenon
  <2>. HIDE DEF w, grown, E
  <2>. QED  BY <1>3, <2>3, <2>4, <2>5, Zenon
<1>4. CASE ~theses[a].noted
  <2>1. Turns(s, Reviewed(s, assessment)) /\ vault' = vault
    BY <1>1, <1>4 DEF Turns
  <2>. QED  BY <1>4, <2>1, Zenon
<1>. QED  BY <1>3, <1>4

LEMMA NoteReviewKeeps ==
    ASSUME Base, ReviewInv, NEW s \in Sessions, NoteReview(s)
    PROVE  ReviewInv'
<1>. DEFINE a == desk[s].asset
            path == ThesisPath(a)
<1>1. /\ desk[s].pc = "reviewing" /\ UNCHANGED <<today, theses, reviews>>
  BY DEF NoteReview
<1>2. ReviewSound(desk[s], theses[a], Cardinality(Mine(reviews, a)), Note(vault, path))
  BY <1>1 DEF ReviewInv, ReviewOK
<1>3. PICK w, assessment, E :
        /\ assessment \in Verdicts /\ Turns(s, w)
        /\ (w = Idle \/ w = Reviewed(s, assessment))
        /\ vault' = vault \/ (vault' = With(vault, path, E) /\ Note(vault, path) \subseteq E)
        /\ w # Idle => (theses[a].noted => <<desk[s].loaded, assessment>> \in Note(vault', path))
  BY Noting, Zenon
<1>4. desk'[s] = w /\ \A t \in Sessions \ {s} : desk'[t] = desk[t]
  BY <1>3, TurnKeeps
<1>5. ThesisTypes'
  BY <1>1 DEF ReviewInv, ThesisTypes
<1>6. ASSUME NEW q PROVE Note(vault, q) \subseteq Note(vault', q)
  BY <1>3, NoteGrows
<1>7. ASSUME NEW t \in Sessions, desk'[t].pc \in {"reviewing", "noted"}, t # s  PROVE ReviewOK(t)'
  <2>. DEFINE v == desk[t]
              q == ThesisPath(v.asset)
  <2>1. desk'[t] = v /\ ReviewSound(v, theses[v.asset], Cardinality(Mine(reviews, v.asset)), Note(vault, q))
    BY <1>4, <1>7 DEF ReviewInv, ReviewOK
  <2>2. Note(vault, q) \subseteq Note(vault', q)
    BY <1>6
  <2>. HIDE DEF v
  <2>3. ReviewSound(v, theses[v.asset], Cardinality(Mine(reviews, v.asset)), Note(vault', q))
    BY <2>1, <2>2 DEF ReviewSound
  <2>. QED  BY <1>1, <2>1, <2>3 DEF ReviewOK
<1>8. ASSUME w # Idle PROVE ReviewOK(s)'
  <2>1. w = [pc |-> "noted", asset |-> a, seen |-> desk[s].seen,
             loaded |-> desk[s].loaded, assessment |-> assessment, at |-> today]
    BY <1>3, <1>8 DEF Reviewed
  <2>2. w.pc = "noted" /\ w.asset = a /\ w.seen = desk[s].seen /\ w.loaded = desk[s].loaded
        /\ w.assessment = assessment /\ w.at = today
    BY <2>1
  <2>3. assessment \in Assessments /\ today \in Days
    BY <1>3, DeskAssumption DEF ReviewInv, ThesisTypes
  <2>4. theses[a].noted => <<desk[s].loaded, assessment>> \in Note(vault', path)
    BY <1>3, <1>8
  <2>5. ReviewSound(w, theses[a], Cardinality(Mine(reviews, a)), Note(vault', path))
    BY <1>2, <2>2, <2>3, <2>4 DEF ReviewSound
  <2>. QED  BY <1>1, <1>4, <2>2, <2>5 DEF ReviewOK
<1>9. ASSUME w = Idle PROVE ReviewOK(s)'
  BY <1>4, <1>9 DEF ReviewOK, Idle
<1>10. ASSUME NEW b \in Assets PROVE ThesisOK(b)'
  <2>1. Note(vault, ThesisPath(b)) \subseteq Note(vault', ThesisPath(b)) /\ ThesisOK(b)
    BY <1>6 DEF ReviewInv
  <2>. QED  BY <1>1, <2>1 DEF ThesisOK, Audited
<1>11. \A t \in Sessions : ReviewOK(t)'
  BY <1>7, <1>8, <1>9 DEF ReviewOK
<1>. QED  BY <1>5, <1>10, <1>11 DEF ReviewInv

Reassessed(t, x, day) == [[t EXCEPT !.assessment = x] EXCEPT !.reviewed = day]

LEMMA ReassessedFacts ==
    ASSUME NEW t, NEW x, NEW day,
           t = [assessment |-> t.assessment, reviewed |-> t.reviewed, noted |-> t.noted]
    PROVE  Reassessed(t, x, day) = [assessment |-> x, reviewed |-> day, noted |-> t.noted]
<1>. DEFINE u == [t EXCEPT !.assessment = x]
            v == [u EXCEPT !.reviewed = day]
<1>1. DOMAIN t = {"assessment", "reviewed", "noted"}
  OBVIOUS
<1>2. DOMAIN u = {"assessment", "reviewed", "noted"} /\ u.assessment = x /\ u.noted = t.noted
  BY <1>1
<1>. HIDE DEF u
<1>3. /\ DOMAIN v = {"assessment", "reviewed", "noted"} /\ v = [i \in DOMAIN v |-> v[i]]
      /\ v.assessment = x /\ v.reviewed = day /\ v.noted = t.noted
  BY <1>2
<1>. HIDE DEF v
<1>4. v = [assessment |-> x, reviewed |-> day, noted |-> t.noted]
  BY <1>3
<1>. QED  BY <1>4 DEF u, v, Reassessed

LEMMA CommitReviewKeeps ==
    ASSUME Base, ReviewInv, NEW s \in Sessions, CommitReview(s)
    PROVE  ReviewInv'
<1>. DEFINE a == desk[s].asset
            alone == Cardinality(Mine(reviews, a)) = desk[s].seen
            row == [asset |-> a, from |-> desk[s].loaded, to |-> desk[s].assessment, alone |-> alone]
            current == theses[a].assessment
            next == Assessed(s)
            n == Len(reviews) + 1
<1>1. /\ desk[s].pc = "noted" /\ reviews' = Append(reviews, row)
      /\ theses' = [theses EXCEPT ![a].assessment = next, ![a].reviewed = desk[s].at]
      /\ Turns(s, Idle) /\ UNCHANGED <<today, vault>>
  BY Zenon DEF CommitReview, Turns, Mine, ReviewsOf
<1>2. ReviewSound(desk[s], theses[a], Cardinality(Mine(reviews, a)), Note(vault, ThesisPath(a)))
  BY <1>1 DEF ReviewInv, ReviewOK
<1>3. /\ a \in Assets /\ desk[s].seen \in Nat /\ desk[s].loaded \in Assessments
      /\ current # None
      /\ desk[s].seen <= Cardinality(Mine(reviews, a))
      /\ desk[s].seen = Cardinality(Mine(reviews, a)) => desk[s].loaded = current
      /\ desk[s].assessment \in Assessments /\ desk[s].at \in Days
      /\ theses[a].noted =>
           <<desk[s].loaded, desk[s].assessment>> \in Note(vault, ThesisPath(a))
  BY <1>1, <1>2 DEF ReviewSound
<1>4. ThesisTypes /\ current \in Assessments
  BY <1>3 DEF ReviewInv, ThesisTypes
<1>5. next = (IF desk[s].assessment = desk[s].loaded THEN current ELSE desk[s].assessment)
  BY DEF Assessed, Written
<1>6. row \in Review /\ row.asset = a /\ row.from = desk[s].loaded /\ row.to = desk[s].assessment
      /\ row.alone = alone
  BY <1>3 DEF Review
<1>. HIDE DEF row, next
<1>7. /\ next \in Assessments /\ (next = current \/ next = row.to)
      /\ row.alone => row.from = current /\ next = row.to
  BY <1>3, <1>4, <1>5, <1>6
<1>8. /\ desk'[s] = Idle /\ \A t \in Sessions \ {s} : desk'[t] = desk[t]
  BY <1>1, TurnKeeps
<1>. HIDE DEF alone, a, current
<1>9. /\ theses' \in [Assets -> [assessment : Assessments \cup {None},
                                 reviewed : {Never} \cup Days, noted : BOOLEAN]]
      /\ theses'[a].assessment = next /\ theses'[a].noted = theses[a].noted
      /\ \A b \in Assets \ {a} : theses'[b] = theses[b]
  <2>. DEFINE T == [assessment : Assessments \cup {None}, reviewed : {Never} \cup Days, noted : BOOLEAN]
              new == [assessment |-> next, reviewed |-> desk[s].at, noted |-> theses[a].noted]
  <2>1. theses \in [Assets -> T] /\ theses[a] \in T
    BY <1>3, <1>4 DEF ThesisTypes
  <2>2. Reassessed(theses[a], next, desk[s].at) = new
    <3>1. theses[a] = [assessment |-> theses[a].assessment, reviewed |-> theses[a].reviewed,
                       noted |-> theses[a].noted]
      BY <2>1
    <3>. QED  BY <3>1, ReassessedFacts
  <2>3. theses' = [theses EXCEPT ![a] = new]
    <3>1. theses' = [theses EXCEPT ![a] = Reassessed(theses[a], next, desk[s].at)]
      BY <1>1, <1>3, <2>1 DEF Reassessed
    <3>. QED  BY <2>2, <3>1
  <2>4. new \in T /\ new.assessment = next /\ new.noted = theses[a].noted
    BY <1>3, <1>7, <2>1
  <2>. HIDE DEF new, T
  <2>5. /\ theses' \in [Assets -> T] /\ theses'[a] = new
        /\ \A b \in Assets \ {a} : theses'[b] = theses[b]
    BY <1>3, <2>1, <2>3, <2>4
  <2>. QED  BY <2>4, <2>5 DEF T
<1>10. /\ reviews \in Seq(Review) /\ reviews' \in Seq(Review) /\ n \notin DOMAIN reviews
       /\ reviews'[n] = row /\ \A i \in DOMAIN reviews : reviews'[i] = reviews[i]
       /\ \A b : Mine(reviews', b) = Mine(reviews, b) \cup {i \in {n} : row.asset = b}
  <2>1. reviews \in Seq(Review)
    BY <1>4 DEF ThesisTypes
  <2>. QED  BY <1>1, <1>6, <2>1, GrownReviews
<1>. HIDE DEF n
<1>11. ThesisTypes'
  BY <1>1, <1>4, <1>9, <1>10 DEF ThesisTypes
<1>12. Mine(reviews', a) = Mine(reviews, a) \cup {n} /\ n \notin Mine(reviews, a)
  BY <1>6, <1>10 DEF Mine
<1>13. ASSUME NEW b, b # a PROVE Mine(reviews', b) = Mine(reviews, b)
  BY <1>6, <1>10, <1>13
<1>14. /\ Cardinality(Mine(reviews, a)) \in Nat
       /\ Cardinality(Mine(reviews', a)) = Cardinality(Mine(reviews, a)) + 1
  BY <1>4, <1>12, CountOfReviews, FS_AddElement
<1>15. ASSUME NEW t \in Sessions, desk'[t].pc \in {"reviewing", "noted"}  PROVE ReviewOK(t)'
  <2>. DEFINE w == desk[t]
              b == w.asset
  <2>1. t # s /\ desk'[t] = w /\ w.pc \in {"reviewing", "noted"}
    BY <1>8, <1>15 DEF Idle
  <2>2. ReviewSound(w, theses[b], Cardinality(Mine(reviews, b)), Note(vault, ThesisPath(b)))
    BY <2>1 DEF ReviewInv, ReviewOK
  <2>. HIDE DEF w
  <2>3. theses'[b].noted = theses[b].noted /\ theses'[b].assessment # None
    <3>1. None \notin Assessments
      BY DEF None, Assessments
    <3>. QED  BY <1>7, <1>9, <2>2, <3>1 DEF ReviewSound
  <2>4. ReviewSound(w, theses'[b], Cardinality(Mine(reviews', b)), Note(vault, ThesisPath(b)))
    <3>1. CASE b = a
      <4>. DEFINE k == Cardinality(Mine(reviews, a))
      <4>1. Cardinality(Mine(reviews', b)) = k + 1 /\ k \in Nat /\ Cardinality(Mine(reviews, b)) = k
        BY <1>14, <3>1
      <4>. HIDE DEF k
      <4>. QED  BY <2>2, <2>3, <4>1 DEF ReviewSound
    <3>2. CASE b # a
      <4>1. Mine(reviews', b) = Mine(reviews, b) /\ b \in Assets
        BY <1>13, <2>2, <3>2 DEF ReviewSound
      <4>. QED  BY <1>9, <2>2, <3>2, <4>1
    <3>. QED  BY <3>1, <3>2
  <2>. QED  BY <1>1, <2>1, <2>4 DEF ReviewOK
<1>16. ASSUME NEW b \in Assets, b = a  PROVE ThesisOK(b)'
  <2>1. ThesisOK(a)
    BY <1>3 DEF ReviewInv
  <2>2. Chained(reviews', a, next) /\ Explained(reviews', a, next)
    <3>1. Chained(reviews, a, current) /\ Explained(reviews, a, current)
      BY <2>1 DEF ThesisOK, Audited, current
    <3>2. reviews' = Append(reviews, row) /\ reviews \in Seq(Review) /\ current # None
      BY <1>1, <1>3, <1>10
    <3>. QED  BY <1>6, <1>7, <3>1, <3>2, ChainGrows
  <2>3. ASSUME theses[a].noted, NEW i \in Mine(reviews', a)
        PROVE  <<reviews'[i].from, reviews'[i].to>> \in Note(vault, ThesisPath(a))
    <3>1. CASE i = n
      BY <1>3, <1>6, <1>10, <2>3, <3>1
    <3>2. CASE i # n
      <4>1. i \in Mine(reviews, a) /\ reviews'[i] = reviews[i]
        BY <1>10, <1>12, <2>3, <3>2 DEF Mine
      <4>2. \A j \in Mine(reviews, a) : <<reviews[j].from, reviews[j].to>> \in Note(vault, ThesisPath(a))
        <5>1. theses[a].noted => \A j \in Mine(reviews, a) : <<reviews[j].from, reviews[j].to>> \in Note(vault, ThesisPath(a))
          BY <2>1, Zenon DEF ThesisOK, Audited
        <5>. QED  BY <2>3, <5>1, Zenon
      <4>. QED  BY <4>1, <4>2
    <3>. QED  BY <3>1, <3>2
  <2>. QED  BY <1>1, <1>9, <1>16, <2>2, <2>3 DEF ThesisOK, Audited
<1>17. ASSUME NEW b \in Assets, b # a  PROVE ThesisOK(b)'
  <2>1. ThesisOK(b) /\ theses'[b] = theses[b]
    BY <1>9, <1>17 DEF ReviewInv
  <2>2. Chained(reviews', b, theses[b].assessment) /\ Explained(reviews', b, theses[b].assessment)
    <3>1. Chained(reviews, b, theses[b].assessment) /\ Explained(reviews, b, theses[b].assessment)
      BY <2>1 DEF ThesisOK, Audited
    <3>. QED  BY <1>1, <1>6, <1>10, <1>17, <3>1, ChainOfOthers
  <2>3. ASSUME theses[b].noted, NEW i \in Mine(reviews', b)
        PROVE  <<reviews'[i].from, reviews'[i].to>> \in Note(vault, ThesisPath(b))
    <3>1. i \in Mine(reviews, b) /\ reviews'[i] = reviews[i]
      BY <1>10, <1>13, <1>17, <2>3 DEF Mine
    <3>2. \A j \in Mine(reviews, b) : <<reviews[j].from, reviews[j].to>> \in Note(vault, ThesisPath(b))
      <4>1. theses[b].noted => \A j \in Mine(reviews, b) : <<reviews[j].from, reviews[j].to>> \in Note(vault, ThesisPath(b))
        BY <2>1, Zenon DEF ThesisOK, Audited
      <4>. QED  BY <2>3, <4>1, Zenon
    <3>. QED  BY <3>1, <3>2
  <2>. QED  BY <1>1, <2>1, <2>2, <2>3 DEF ThesisOK, Audited
<1>18. \A t \in Sessions : ReviewOK(t)'
  BY <1>15 DEF ReviewOK
<1>. QED  BY <1>11, <1>16, <1>17, <1>18 DEF ReviewInv

LEMMA PathsApart ==
    ASSUME NEW a, NEW b, NEW day
    PROVE  NotePath(a, day) # ThesisPath(b)
BY DEF NotePath, ThesisPath

\* Publishing writes a research note, no thesis note.
LEMMA PublishAside ==
    ASSUME Base, NEW s \in Sessions, Publish(s)
    PROVE  /\ Quiet({"reviewing", "noted"})
           /\ \A a \in Assets : Note(vault', ThesisPath(a)) = Note(vault, ThesisPath(a))
<1>. DEFINE path == NotePath(desk[s].asset, today)
            busy == [pc |-> "written", asset |-> desk[s].asset, entry |-> desk[s].entry,
                     began |-> desk[s].began, path |-> path, analysis |-> desk[s].analysis]
<1>1. PICK put \in Puts(vault, path, desk[s].analysis) :
        vault' = put.vault /\ Turns(s, IF put.told THEN busy ELSE Idle)
  BY Zenon DEF Publish, Turns
<1>. DEFINE w == IF put.told THEN busy ELSE Idle
<1>2. w.pc \notin {"reviewing", "noted"}
  <2>1. busy.pc \notin {"reviewing", "noted"} /\ Idle.pc \notin {"reviewing", "noted"}
    BY SMT DEF Idle
  <2>. HIDE DEF busy
  <2>2. w = busy \/ w = Idle
    BY Zenon
  <2>. QED  BY <2>1, <2>2, Zenon
<1>. HIDE DEF busy
<1>2a. Turns(s, w)
  BY <1>1, Zenon
<1>. HIDE DEF w
<1>3. Quiet({"reviewing", "noted"})
  BY <1>2, <1>2a, TurnQuiet
<1>4. vault' = vault \/ vault' = With(vault, path, {desk[s].analysis})
  BY <1>1, PutFacts
<1>5. ASSUME NEW a \in Assets PROVE Note(vault', ThesisPath(a)) = Note(vault, ThesisPath(a))
  <2>1. path # ThesisPath(a)
    BY PathsApart
  <2>. HIDE DEF path
  <2>. QED  BY <1>4, <2>1, NoteOfWith
<1>. QED  BY <1>3, <1>5

LEMMA ReviewOthers ==
    ASSUME Base, ReviewInv, NEW s \in Sessions,
           \/ Scan(s) \/ CommitScan(s)
           \/ \E entry \in DOMAIN queue : Process(s, entry) \/ OpenDismissal(s, entry)
           \/ \E a \in Assets : Research(s, a)
           \/ Publish(s) \/ Save(s) \/ Finish(s) \/ Dismiss(s) \/ Abort(s)
    PROVE  ReviewInv'
<1>. SUFFICES ReviewsAside
  BY ReviewsAsideKeep
<1>. DEFINE kinds == {"reviewing", "noted"}
<1>0. today \in Days
  BY DEF ReviewInv, ThesisTypes
<1>1. ASSUME NEW w, Turns(s, w), w.pc \notin kinds, UNCHANGED <<today, theses, reviews, vault>>
      PROVE  ReviewsAside
  BY <1>0, <1>1, TurnQuiet DEF ReviewsAside
<1>2. ASSUME NEW entry, Closes(s, entry), UNCHANGED <<today, theses, reviews, vault>>
      PROVE  ReviewsAside
  <2>1. Quiet(kinds)
    BY <1>2, CloseQuiet
  <2>. QED  BY <1>0, <1>2, <2>1 DEF ReviewsAside
<1>3. CASE Scan(s)
  <2>1. UNCHANGED <<today, theses, reviews, vault>>
    BY <1>3 DEF Scan
  <2>2. Begins(s)
    BY <1>3, ScanBegins
  <2>3. Quiet(kinds)
    BY <2>2 DEF Begins, Quiet
  <2>. QED  BY <1>0, <2>1, <2>3 DEF ReviewsAside
<1>4. CASE CommitScan(s)
  <2>1. Turns(s, Idle) /\ UNCHANGED <<today, theses, reviews, vault>>
    BY <1>4, Zenon DEF CommitScan, Turns
  <2>. QED  BY <1>1, <2>1 DEF Idle
<1>5. ASSUME NEW entry \in DOMAIN queue, Process(s, entry) \/ OpenDismissal(s, entry)
      PROVE  ReviewsAside
  <2>1. PICK w : Turns(s, w) /\ w.pc \in {"asked", "dismissing"} /\ UNCHANGED <<today, theses, reviews, vault>>
    BY <1>5 DEF Process, OpenDismissal, Start, Turns, Asked
  <2>. QED  BY <1>1, <2>1
<1>6. ASSUME NEW a \in Assets, Research(s, a)  PROVE ReviewsAside
  <2>1. PICK w : Turns(s, w) /\ w.pc = "asked" /\ UNCHANGED <<today, theses, reviews, vault>>
    BY <1>6 DEF Research, Start, Turns, Asked
  <2>. QED  BY <1>1, <2>1
<1>7. CASE Publish(s)
  <2>1. UNCHANGED <<today, theses, reviews>>
    BY <1>7 DEF Publish
  <2>. QED  BY <1>0, <1>7, <2>1, PublishAside DEF ReviewsAside
<1>8. CASE Save(s)
  <2>1. PICK w : Turns(s, w) /\ w.pc = "saved" /\ UNCHANGED <<today, theses, reviews, vault>>
    BY <1>8 DEF Save, Turns
  <2>. QED  BY <1>1, <2>1
<1>9. CASE Finish(s)
  <2>1. UNCHANGED <<today, theses, reviews, vault>> /\ (Turns(s, Idle) \/ Closes(s, desk[s].entry))
    BY <1>9, Zenon DEF Finish, Turns, Closes
  <2>. QED  BY <1>1, <1>2, <2>1 DEF Idle
<1>10. CASE Dismiss(s)
  <2>1. UNCHANGED <<today, theses, reviews, vault>> /\ Closes(s, desk[s].entry)
    BY <1>10, Zenon DEF Dismiss, Closes
  <2>. QED  BY <1>2, <2>1
<1>11. CASE Abort(s)
  <2>1. Turns(s, Idle) /\ UNCHANGED <<today, theses, reviews, vault>>
    BY <1>11 DEF Abort, Turns
  <2>. QED  BY <1>1, <2>1 DEF Idle
<1>. QED  BY <1>3, <1>4, <1>5, <1>6, <1>7, <1>8, <1>9, <1>10, <1>11

LEMMA ReviewWorld ==
    ASSUME Base, ReviewInv, UNCHANGED vars \/ ObserveRegime \/ DaysPass \/ \E a \in Assets : News(a)
    PROVE  ReviewInv'
<1>1. UNCHANGED <<desk, theses, reviews, vault>> /\ today' \in Days
  BY DEF vars, ObserveRegime, DaysPass, News, ReviewInv, ThesisTypes
<1>2. Quiet({"reviewing", "noted"})
  BY <1>1 DEF Quiet
<1>. QED  BY <1>1, <1>2, ReviewsAsideKeep DEF ReviewsAside

LEMMA ReviewNext == Base /\ ReviewInv /\ [Next]_vars => ReviewInv'
<1>. SUFFICES ASSUME Base, ReviewInv, [Next]_vars PROVE ReviewInv'
  OBVIOUS
<1>1. CASE UNCHANGED vars \/ ObserveRegime \/ DaysPass \/ \E a \in Assets : News(a)
  BY <1>1, ReviewWorld
<1>2. ASSUME NEW s \in Sessions,
             \/ Scan(s) \/ CommitScan(s)
             \/ \E entry \in DOMAIN queue : Process(s, entry) \/ OpenDismissal(s, entry)
             \/ \E a \in Assets : Research(s, a)
             \/ Publish(s) \/ Save(s) \/ Finish(s) \/ Dismiss(s) \/ Abort(s)
      PROVE  ReviewInv'
  BY <1>2, ReviewOthers
<1>3. ASSUME NEW s \in Sessions, NEW a \in Assets, OpenReview(s, a)  PROVE ReviewInv'
  BY <1>3, OpenReviewKeeps
<1>4. ASSUME NEW s \in Sessions, NoteReview(s)  PROVE ReviewInv'
  BY <1>4, NoteReviewKeeps
<1>5. ASSUME NEW s \in Sessions, CommitReview(s)  PROVE ReviewInv'
  BY <1>5, CommitReviewKeeps
<1>. QED  BY <1>1, <1>2, <1>3, <1>4, <1>5, Zenon DEF Next

\* A thesis assessment that no review accounts for, or a committed review that the note
\* does not show, is never reached: the note is written before the rows, and what a review
\* loaded is current unless another one was committed (brain/thesis/thesis_agent.py apply,
\* routers/thesis.py review_thesis, rule 9 of models/thesis.py).
THEOREM AssessmentsAreAudited == Spec => []AssessmentsAudited
<1>1. Init => Base /\ ReviewInv
  BY ScanInit, ReviewInit
<1>2. Base /\ ReviewInv /\ [Next]_vars => (Base /\ ReviewInv)'
  BY QueueSteps, ReviewNext
<1>. QED  BY <1>1, <1>2, ReviewInvAudits, PTL DEF Spec

-----------------------------------------------------------------------------
(***************************************************************************)
(* Research notes and documents.                                           *)
(***************************************************************************)
Researching == {"asked", "written", "saved"}
Publishes(w) == w.pc \in {"written", "saved"}
AnalysisOf(w) == IF w.pc = "saved" THEN w.row.analysis ELSE w.analysis
IsResearch(path) == path[1] = "research"

\* The research of a session: its analysis is new as long as it is not published; then it
\* is what the note shows, unless the note is disturbed, and its row is the newest.
Working(w, notes, marks, rows, requests, ids) ==
    /\ w.pc \in Researching => w.entry = NoEntry \/ w.entry.asset = w.asset
    /\ w.pc = "asked" =>
         /\ w.analysis \in 1..requests
         /\ \A p \in DOMAIN notes : IsResearch(p) => notes[p] # {w.analysis}
    /\ Publishes(w) =>
         /\ w.path = NotePath(w.asset, w.path[3]) /\ w.path \in DOMAIN notes
         /\ AnalysisOf(w) \in 1..requests
         /\ w.path \notin marks => notes[w.path] = {AnalysisOf(w)}
    /\ w.pc = "saved" =>
         /\ w.row.id \in 1..ids /\ w.row.path = w.path /\ w.row.asset = w.asset
         /\ w.row.entry = w.entry
         /\ w.path \notin marks => \A d \in rows : d.path = w.path => d.id < w.row.id

\* No two sessions made the same analysis or, without disturbing it, publish one note.
Apart(v, w, marks) ==
    /\ v.pc = "asked" /\ w.pc = "asked" => v.analysis # w.analysis
    /\ Publishes(v) /\ Publishes(w) /\ v.path = w.path => v.path \in marks

\* A row of research_documents, and the note it is about.
Filed(d, notes, ids) ==
    d.id \in 1..ids /\ d.path = NotePath(d.asset, d.path[3]) /\ d.path \in DOMAIN notes

\* The note of d shows the newest analysis, or somebody is at work on it, or it is disturbed.
Shown(d, work, notes, marks, rows) ==
    \/ d.path \in marks
    \/ \E s \in Sessions : Publishes(work[s]) /\ work[s].path = d.path
    \/ notes[d.path] = {Newest({e \in rows : e.path = d.path}).analysis}

\* What a done entry is linked to.
WrittenUp(entry, document, notes, marks, rows) ==
    \E d \in rows :
      /\ d.id = document /\ d.asset = entry.asset /\ d.path \in DOMAIN notes
      /\ d.path \in marks \/ d.entry = entry

PubInv ==
    /\ \A s \in Sessions :
         Working(desk[s], vault, disturbed, documents, count.requests, count.ids)
    /\ \A s, t \in Sessions : s # t => Apart(desk[s], desk[t], disturbed)
    /\ \A p \in DOMAIN vault : IsResearch(p) => \E n \in 1..count.requests : vault[p] = {n}
    /\ \A d \in documents : /\ Filed(d, vault, count.ids)
                            /\ Shown(d, desk, vault, disturbed, documents)
    /\ \A e \in DOMAIN queue : queue[e].status = "done" =>
         WrittenUp(e, queue[e].document, vault, disturbed, documents)

LEMMA PubInvShows == PubInv => DoneIsWrittenUp
BY Zenon DEF PubInv, DoneIsWrittenUp, Shown, WrittenUp, Publishes

LEMMA PubInit == Init => PubInv
<1>. SUFFICES ASSUME Init PROVE PubInv
  OBVIOUS
<1>1. /\ desk = [s \in Sessions |-> Idle] /\ vault = <<>> /\ documents = {} /\ queue = <<>>
  BY DEF Init
<1>2. \A s \in Sessions : desk[s].pc = "idle"
  BY <1>1 DEF Idle
<1>3. DOMAIN vault = {} /\ DOMAIN queue = {}
  BY <1>1
<1>. QED  BY <1>1, <1>2, <1>3 DEF PubInv, Working, Apart, Researching, Publishes

LEMMA NotePaths ==
    ASSUME NEW a, NEW day
    PROVE  /\ IsResearch(NotePath(a, day)) /\ ~IsResearch(ThesisPath(a))
           /\ NotePath(a, day)[2] = a /\ NotePath(a, day)[3] = day
BY DEF IsResearch, NotePath, ThesisPath

LEMMA NewestIs ==
    ASSUME NEW rows, rows # {}, NEW n \in Nat, \A d \in rows : d.id \in 1..n
    PROVE  Newest(rows) \in rows /\ \A e \in rows : e.id <= Newest(rows).id
<1>. DEFINE ids == {d.id : d \in rows}
<1>1. ids \subseteq Nat /\ ids # {} /\ \A i \in ids : i <= n
  OBVIOUS
<1>2. PICK i \in ids : \A j \in ids : j <= i
  BY <1>1, Greatest
<1>3. PICK d \in rows : d.id = i
  OBVIOUS
<1>4. \A e \in rows : e.id <= d.id
  BY <1>2, <1>3
<1>. QED  BY <1>4 DEF Newest

LEMMA NewestUnique ==
    ASSUME NEW rows, NEW d \in rows, NEW n \in Nat, \A e \in rows : e.id \in 1..n,
           \A e \in rows : e # d => e.id < d.id
    PROVE  Newest(rows) = d
<1>1. Newest(rows) \in rows /\ d.id <= Newest(rows).id
  BY NewestIs
<1>2. d.id \in Nat /\ Newest(rows).id \in Nat
  BY <1>1
<1>. QED  BY <1>1, <1>2

-----------------------------------------------------------------------------
\* A step that leaves research, its notes and its rows alone.
DeskAside ==
    /\ \A t \in Sessions : desk'[t].pc \in Researching => desk'[t] = desk[t]
    /\ \A t \in Sessions : Publishes(desk[t]) => desk'[t] = desk[t] \/ desk[t].path \in disturbed'

NotesAside ==
    /\ DOMAIN vault \subseteq DOMAIN vault'
    /\ \A p \in DOMAIN vault' : IsResearch(p) => p \in DOMAIN vault /\ vault'[p] = vault[p]

QueueAside ==
    \A e \in DOMAIN queue' : queue'[e].status = "done" =>
      e \in DOMAIN queue /\ queue[e].status = "done" /\ queue'[e].document = queue[e].document

ResearchAside ==
    /\ documents' = documents /\ disturbed \subseteq disturbed'
    /\ count.requests <= count'.requests /\ count'.ids = count.ids
    /\ DeskAside /\ NotesAside /\ QueueAside

\* What is said of a session stays true when notes, marks and counters grow beside it.
LEMMA WorkingGrows ==
    ASSUME NEW w, NEW notes, NEW more, NEW marks, NEW marked, NEW rows,
           NEW r \in Nat, NEW q \in Nat, NEW i \in Nat, NEW j \in Nat,
           Working(w, notes, marks, rows, r, i), marks \subseteq marked, r <= q, i <= j,
           DOMAIN notes \subseteq DOMAIN more,
           \A p \in DOMAIN more : IsResearch(p) => p \in DOMAIN notes /\ more[p] = notes[p]
    PROVE  Working(w, more, marked, rows, q, j)
<1>1. w.pc \in Researching => w.entry = NoEntry \/ w.entry.asset = w.asset
  BY DEF Working
<1>2. ASSUME w.pc = "asked"
      PROVE  w.analysis \in 1..q /\ \A p \in DOMAIN more : IsResearch(p) => more[p] # {w.analysis}
  BY <1>2 DEF Working
<1>3. ASSUME Publishes(w)
      PROVE  /\ w.path = NotePath(w.asset, w.path[3]) /\ w.path \in DOMAIN more
             /\ AnalysisOf(w) \in 1..q
             /\ w.path \notin marked => more[w.path] = {AnalysisOf(w)}
  <2>1. /\ w.path = NotePath(w.asset, w.path[3]) /\ w.path \in DOMAIN notes
        /\ AnalysisOf(w) \in 1..r
        /\ w.path \notin marks => notes[w.path] = {AnalysisOf(w)}
    BY <1>3 DEF Working
  <2>2. IsResearch(w.path)
    BY <2>1, NotePaths
  <2>. QED  BY <2>1, <2>2
<1>4. ASSUME w.pc = "saved"
      PROVE  /\ w.row.id \in 1..j /\ w.row.path = w.path /\ w.row.asset = w.asset
             /\ w.row.entry = w.entry
             /\ w.path \notin marked => \A d \in rows : d.path = w.path => d.id < w.row.id
  BY <1>4 DEF Working
<1>. QED  BY <1>1, <1>2, <1>3, <1>4 DEF Working

LEMMA ResearchAsideKeeps ==
    ASSUME Base, Base', PubInv, ResearchAside
    PROVE  PubInv'
<1>1. /\ count.requests \in Nat /\ count'.requests \in Nat /\ count.ids \in Nat
      /\ count.requests <= count'.requests /\ count'.ids = count.ids
  BY DEF Base, ResearchAside
<1>2. /\ documents' = documents /\ disturbed \subseteq disturbed'
      /\ DOMAIN vault \subseteq DOMAIN vault'
      /\ \A p \in DOMAIN vault' : IsResearch(p) => p \in DOMAIN vault /\ vault'[p] = vault[p]
  BY DEF ResearchAside, DeskAside, NotesAside, QueueAside
<1>3. ASSUME NEW s \in Sessions
      PROVE  Working(desk'[s], vault', disturbed', documents', count'.requests, count'.ids)
  <2>1. CASE desk'[s].pc \in Researching
    <3>1. desk'[s] = desk[s]
          /\ Working(desk[s], vault, disturbed, documents, count.requests, count.ids)
      BY <2>1 DEF ResearchAside, DeskAside, NotesAside, QueueAside, PubInv
    <3>. QED  BY <1>1, <1>2, <3>1, WorkingGrows
  <2>2. CASE desk'[s].pc \notin Researching
    BY <2>2 DEF Working, Researching, Publishes
  <2>. QED  BY <2>1, <2>2
<1>4. ASSUME NEW s \in Sessions, NEW t \in Sessions, s # t
      PROVE  Apart(desk'[s], desk'[t], disturbed')
  <2>1. CASE desk'[s].pc \in Researching /\ desk'[t].pc \in Researching
    <3>1. desk'[s] = desk[s] /\ desk'[t] = desk[t] /\ Apart(desk[s], desk[t], disturbed)
      BY <1>4, <2>1 DEF ResearchAside, DeskAside, NotesAside, QueueAside, PubInv
    <3>. QED  BY <1>2, <3>1 DEF Apart
  <2>2. CASE desk'[s].pc \notin Researching \/ desk'[t].pc \notin Researching
    BY <2>2 DEF Apart, Researching, Publishes
  <2>. QED  BY <2>1, <2>2
<1>5. ASSUME NEW p \in DOMAIN vault', IsResearch(p)
      PROVE  \E n \in 1..count'.requests : vault'[p] = {n}
  <2>1. PICK n \in 1..count.requests : vault[p] = {n}
    BY <1>2, <1>5 DEF PubInv
  <2>. QED  BY <1>1, <1>2, <1>5, <2>1
<1>6. ASSUME NEW d \in documents
      PROVE  Filed(d, vault', count'.ids) /\ Shown(d, desk', vault', disturbed', documents')
  <2>1. Filed(d, vault, count.ids) /\ Shown(d, desk, vault, disturbed, documents)
    BY DEF PubInv
  <2>2. IsResearch(d.path) /\ d.path \in DOMAIN vault
    BY <2>1, NotePaths DEF Filed
  <2>3. vault'[d.path] = vault[d.path] /\ d.path \in DOMAIN vault'
    BY <1>2, <2>2
  <2>4. Filed(d, vault', count'.ids)
    BY <1>1, <2>1, <2>3 DEF Filed
  <2>5. CASE d.path \in disturbed
    BY <1>2, <2>4, <2>5 DEF Shown
  <2>6. ASSUME NEW s \in Sessions, Publishes(desk[s]), desk[s].path = d.path
        PROVE  Shown(d, desk', vault', disturbed', documents')
    <3>1. desk'[s] = desk[s] \/ d.path \in disturbed'
      BY <2>6 DEF ResearchAside, DeskAside, NotesAside, QueueAside
    <3>2. CASE desk'[s] = desk[s]
      <4>1. Publishes(desk'[s]) /\ desk'[s].path = d.path
        BY <2>6, <3>2
      <4>. QED  BY <4>1, Zenon DEF Shown
    <3>3. CASE d.path \in disturbed'
      BY <3>3, Zenon DEF Shown
    <3>. QED  BY <3>1, <3>2, <3>3
  <2>7. CASE vault[d.path] = {Newest({e \in documents : e.path = d.path}).analysis}
    BY <1>2, <2>3, <2>4, <2>7 DEF Shown
  <2>. QED  BY <2>1, <2>4, <2>5, <2>6, <2>7 DEF Shown
<1>7. ASSUME NEW e \in DOMAIN queue', queue'[e].status = "done"
      PROVE  WrittenUp(e, queue'[e].document, vault', disturbed', documents')
  <2>1. WrittenUp(e, queue[e].document, vault, disturbed, documents)
        /\ queue'[e].document = queue[e].document
    BY <1>7 DEF ResearchAside, DeskAside, NotesAside, QueueAside, PubInv
  <2>. QED  BY <1>2, <2>1 DEF WrittenUp
<1>. QED  BY <1>2, <1>3, <1>4, <1>5, <1>6, <1>7 DEF PubInv

LEMMA TurnDeskAside ==
    ASSUME Base, NEW s \in Sessions, NEW w, Turns(s, w), w.pc \notin Researching,
           ~Publishes(desk[s]) \/ desk[s].path \in disturbed'
    PROVE  DeskAside
<1>1. desk'[s] = w /\ \A t \in Sessions \ {s} : desk'[t] = desk[t]
  BY TurnKeeps
<1>. QED  BY <1>1 DEF DeskAside

LEMMA CountGrows ==
    ASSUME Base, NEW s \in Sessions, NEW w, Start(s, w)
    PROVE  /\ Turns(s, w) /\ desk[s].pc = "idle"
           /\ count'.requests = count.requests + 1 /\ count'.ids = count.ids
           /\ count.requests \in Nat
BY DEF Base, Start, Free, Turns

\* A step that leaves the research alone because it only turns a session.
Beside(s) == UNCHANGED <<queue, documents, disturbed>> /\ NotesAside

LEMMA StartsAside ==
    ASSUME Base, NEW s \in Sessions, NEW w, Start(s, w), w.pc \notin Researching, Beside(s)
    PROVE  ResearchAside
<1>1. /\ Turns(s, w) /\ desk[s].pc = "idle"
      /\ count'.requests = count.requests + 1 /\ count'.ids = count.ids /\ count.requests \in Nat
  BY CountGrows
<1>2. DeskAside
  BY <1>1, TurnDeskAside DEF Publishes
<1>. QED  BY <1>1, <1>2 DEF ResearchAside, Beside, QueueAside

LEMMA EndsAside ==
    ASSUME Base, NEW s \in Sessions, NEW w, Turns(s, w), w.pc \notin Researching,
           ~Publishes(desk[s]), UNCHANGED count, Beside(s)
    PROVE  ResearchAside
<1>1. DeskAside
  BY TurnDeskAside
<1>2. count.requests \in Nat
  BY DEF Base
<1>. QED  BY <1>1, <1>2 DEF ResearchAside, Beside, QueueAside

LEMMA ScanAside == ASSUME Base, NEW s \in Sessions, Scan(s)  PROVE ResearchAside
<1>1. Begins(s)
  BY ScanBegins
<1>2. /\ Free(s) /\ count' = [count EXCEPT !.requests = @ + 1]
      /\ UNCHANGED <<queue, documents, vault, disturbed>>
  BY DEF Scan, Start
<1>3. count.requests <= count'.requests /\ count'.ids = count.ids
  BY <1>2 DEF Base
<1>4. DeskAside
  BY <1>1, <1>2 DEF DeskAside, Begins, Free, Publishes, Researching
<1>. QED  BY <1>2, <1>3, <1>4 DEF ResearchAside, NotesAside, QueueAside

LEMMA CommitScanAside == ASSUME Base, NEW s \in Sessions, CommitScan(s)  PROVE ResearchAside
<1>1. Commits(s)
  BY ScanCommits
<1>2. UNCHANGED <<documents, vault, count, disturbed>> /\ desk[s].pc = "scanned"
  BY DEF CommitScan
<1>3. count.requests <= count'.requests /\ count'.ids = count.ids
  BY <1>2 DEF Base
<1>4. DeskAside
  BY <1>1, <1>2 DEF DeskAside, Commits, Publishes, Researching, Idle
<1>5. QueueAside
  BY <1>1 DEF QueueAside, Commits, Filled
<1>. QED  BY <1>2, <1>3, <1>4, <1>5 DEF ResearchAside, NotesAside

LEMMA DismissAside == ASSUME Base, NEW s \in Sessions, Dismiss(s)  PROVE ResearchAside
<1>1. Settles(s, desk[s].entry, "dismissed", NoDocument)
  BY DismissSettles
<1>2. UNCHANGED <<documents, vault, count, disturbed>> /\ desk[s].pc = "dismissing"
  BY DEF Dismiss
<1>3. count.requests <= count'.requests /\ count'.ids = count.ids
  BY <1>2 DEF Base
<1>4. Quiet(Researching)
  BY <1>1, CloseQuiet DEF Settles, Researching
<1>5. ASSUME NEW t \in Sessions, Publishes(desk[t]) PROVE desk'[t] = desk[t]
  <2>1. t # s /\ desk[t].pc # "scanned"
    BY <1>2, <1>5 DEF Publishes
  <2>. QED  BY <1>1, <2>1, CloseKeeps DEF Settles
<1>6. DeskAside
  BY <1>4, <1>5 DEF DeskAside, Quiet
<1>7. QueueAside
  BY <1>1 DEF QueueAside, Settles
<1>. QED  BY <1>2, <1>3, <1>6, <1>7 DEF ResearchAside, NotesAside

LEMMA NoteAside ==
    ASSUME Base, NEW s \in Sessions, NoteReview(s)
    PROVE  ResearchAside
<1>1. UNCHANGED <<queue, documents, count, disturbed>> /\ desk[s].pc = "reviewing"
  BY DEF NoteReview
<1>. DEFINE path == ThesisPath(desk[s].asset)
<1>2. PICK w, assessment, E :
        /\ Turns(s, w)
        /\ (w = Idle \/ w = Reviewed(s, assessment))
        /\ vault' = vault \/ (vault' = With(vault, path, E) /\ Note(vault, path) \subseteq E)
  BY Noting, Zenon
<1>3. w.pc \notin Researching
  BY <1>2 DEF Idle, Reviewed, Researching
<1>4. ~IsResearch(path)
  BY NotePaths
<1>. HIDE DEF path
<1>5. NotesAside
  BY <1>2, <1>4 DEF NotesAside, With
<1>. QED  BY <1>1, <1>2, <1>3, <1>5, EndsAside DEF Beside, Publishes

LEMMA AbortAside == ASSUME Base, NEW s \in Sessions, Abort(s)  PROVE ResearchAside
<1>1. /\ UNCHANGED <<queue, documents, vault>> /\ Turns(s, Idle)
      /\ count' = [count EXCEPT !.faults = @ + 1]
      /\ disturbed' = IF Publishes(desk[s]) THEN disturbed \cup {desk[s].path} ELSE disturbed
  BY DEF Abort, Turns, Publishes
<1>2. count.requests <= count'.requests /\ count'.ids = count.ids
  BY <1>1 DEF Base
<1>3. Idle.pc \notin Researching
  BY DEF Idle, Researching
<1>4. DeskAside
  BY <1>1, <1>3, TurnDeskAside
<1>. QED  BY <1>1, <1>2, <1>4 DEF ResearchAside, NotesAside, QueueAside

LEMMA OthersLeaveResearch ==
    ASSUME Base, NEW s \in Sessions,
           \/ Scan(s) \/ CommitScan(s)
           \/ \E entry \in DOMAIN queue : OpenDismissal(s, entry)
           \/ \E a \in Assets : OpenReview(s, a)
           \/ Dismiss(s) \/ NoteReview(s) \/ CommitReview(s) \/ Abort(s)
    PROVE  ResearchAside
<1>1. ASSUME NEW entry \in DOMAIN queue, OpenDismissal(s, entry)  PROVE ResearchAside
  <2>. DEFINE w == [pc |-> "dismissing", entry |-> entry]
  <2>1. Start(s, w) /\ UNCHANGED <<queue, documents, vault, disturbed>>
    BY <1>1 DEF OpenDismissal
  <2>2. w.pc \notin Researching
    BY DEF Researching
  <2>. HIDE DEF w
  <2>. QED  BY <2>1, <2>2, StartsAside DEF Beside, NotesAside
<1>2. ASSUME NEW a \in Assets, OpenReview(s, a)  PROVE ResearchAside
  <2>. DEFINE w == [pc |-> "reviewing", asset |-> a, seen |-> Cardinality(ReviewsOf(a)),
                    loaded |-> theses[a].assessment]
  <2>1. Start(s, w) /\ UNCHANGED <<queue, documents, vault, disturbed>>
    BY <1>2 DEF OpenReview
  <2>2. w.pc \notin Researching
    BY DEF Researching
  <2>. HIDE DEF w
  <2>. QED  BY <2>1, <2>2, StartsAside DEF Beside, NotesAside
<1>3. CASE CommitReview(s)
  <2>1. /\ Turns(s, Idle) /\ desk[s].pc = "noted"
        /\ UNCHANGED <<queue, documents, vault, count, disturbed>>
    BY <1>3 DEF CommitReview, Turns
  <2>2. Idle.pc \notin Researching /\ ~Publishes(desk[s])
    BY <2>1 DEF Idle, Researching, Publishes
  <2>. QED  BY <2>1, <2>2, EndsAside DEF Beside, NotesAside
<1>. QED  BY <1>1, <1>2, <1>3, ScanAside, CommitScanAside, DismissAside, NoteAside, AbortAside

LEMMA WorldLeavesResearch ==
    ASSUME Base, UNCHANGED vars \/ ObserveRegime \/ DaysPass \/ \E a \in Assets : News(a)
    PROVE  ResearchAside
<1>1. /\ UNCHANGED <<desk, queue, documents, vault, disturbed>>
      /\ (UNCHANGED count \/ count' = [count EXCEPT !.news = @ + 1])
  BY DEF vars, ObserveRegime, DaysPass, News
<1>2. count.requests <= count'.requests /\ count'.ids = count.ids
  BY <1>1 DEF Base
<1>. QED  BY <1>1, <1>2 DEF ResearchAside, DeskAside, NotesAside, QueueAside

-----------------------------------------------------------------------------
\* Research begins: its analysis is the newest of all.
LEMMA AskKeeps ==
    ASSUME Base, PubInv, NEW s \in Sessions, NEW a, NEW entry,
           entry = NoEntry \/ entry.asset = a,
           Start(s, Asked(a, entry)), UNCHANGED <<queue, documents, vault, disturbed>>
    PROVE  PubInv'
<1>. DEFINE r == count.requests
            w == Asked(a, entry)
<1>1. /\ Turns(s, w) /\ desk[s].pc = "idle"
      /\ count'.requests = r + 1 /\ count'.ids = count.ids /\ r \in Nat
  BY CountGrows
<1>2. w.pc = "asked" /\ w.entry = entry /\ w.asset = a /\ w.analysis = r + 1
  BY DEF Asked
<1>. HIDE DEF w
<1>3. desk'[s] = w /\ \A t \in Sessions \ {s} : desk'[t] = desk[t]
  BY <1>1, TurnKeeps
<1>4. /\ count.ids \in Nat
      /\ \A p \in DOMAIN vault : IsResearch(p) => \E n \in 1..r : vault[p] = {n}
  BY DEF Base, PubInv
<1>5. Working(w, vault, disturbed, documents, r + 1, count.ids)
  BY <1>1, <1>2, <1>4 DEF Working, Publishes
<1>6. ASSUME NEW t \in Sessions, t # s
      PROVE  Working(desk[t], vault, disturbed, documents, r + 1, count.ids)
  <2>1. Working(desk[t], vault, disturbed, documents, r, count.ids)
    BY DEF PubInv
  <2>. HIDE DEF r
  <2>. QED  BY <1>1, <1>4, <2>1, WorkingGrows
<1>7. ASSUME NEW t \in Sessions, t # s
      PROVE  Apart(w, desk[t], disturbed) /\ Apart(desk[t], w, disturbed)
  <2>1. desk[t].pc = "asked" => desk[t].analysis \in 1..r
    BY DEF PubInv, Working
  <2>. QED  BY <1>1, <1>2, <2>1 DEF Apart, Publishes
<1>8. ASSUME NEW t \in Sessions, NEW u \in Sessions, t # u
      PROVE  Apart(desk'[t], desk'[u], disturbed)
  BY <1>3, <1>7, <1>8 DEF PubInv
<1>9. ASSUME NEW p \in DOMAIN vault, IsResearch(p)  PROVE \E n \in 1..(r + 1) : vault[p] = {n}
  BY <1>1, <1>4, <1>9
<1>10. ASSUME NEW d \in documents
       PROVE  Filed(d, vault, count.ids) /\ Shown(d, desk', vault, disturbed, documents)
  <2>1. Filed(d, vault, count.ids) /\ Shown(d, desk, vault, disturbed, documents)
    BY DEF PubInv
  <2>2. \A t \in Sessions : Publishes(desk[t]) => desk'[t] = desk[t]
    BY <1>1, <1>3 DEF Publishes
  <2>. QED  BY <2>1, <2>2 DEF Shown
<1>11. \A e \in DOMAIN queue : queue[e].status = "done" =>
         WrittenUp(e, queue[e].document, vault, disturbed, documents)
  BY DEF PubInv
<1>12. \A t \in Sessions : Working(desk'[t], vault, disturbed, documents, r + 1, count.ids)
  BY <1>3, <1>5, <1>6
<1>. HIDE DEF r
<1>. QED  BY <1>1, <1>8, <1>9, <1>10, <1>11, <1>12 DEF PubInv

\* What a publish that reached the vault did.
Wrote(s, path, busy) ==
    /\ vault' = With(vault, path, {desk[s].analysis})
    /\ disturbed \subseteq disturbed' /\ disturbed' \subseteq disturbed \cup {path}
    /\ Turns(s, Idle) \/ Turns(s, busy)
    /\ \/ path \in disturbed'
       \/ Turns(s, busy) /\ \A t \in Sessions \ {s} : Publishes(desk[t]) => desk[t].path # path

LEMMA PublishFacts ==
    ASSUME PubInv, NEW s \in Sessions, Publish(s)
    PROVE  LET path == NotePath(desk[s].asset, today)
               busy == [pc |-> "written", asset |-> desk[s].asset, entry |-> desk[s].entry,
                        began |-> desk[s].began, path |-> path, analysis |-> desk[s].analysis]
           IN  \/ Turns(s, Idle) /\ UNCHANGED <<vault, disturbed>>
               \/ Wrote(s, path, busy)
<1>. DEFINE path == NotePath(desk[s].asset, today)
            busy == [pc |-> "written", asset |-> desk[s].asset, entry |-> desk[s].entry,
                     began |-> desk[s].began, path |-> path, analysis |-> desk[s].analysis]
            x == desk[s].analysis
<1>1. PICK put \in Puts(vault, path, x) :
        /\ vault' = put.vault
        /\ Turns(s, IF put.told THEN busy ELSE Idle)
        /\ disturbed' = disturbed \cup
             {p \in {path} : put.vault # vault /\ (~put.told \/ Publishing(s, path) # {})}
  BY Zenon DEF Publish, Turns
<1>2. /\ desk[s].pc = "asked" /\ IsResearch(path)
      /\ \A p \in DOMAIN vault : IsResearch(p) => vault[p] # {x}
  <2>1. desk[s].pc = "asked"
    BY DEF Publish
  <2>. QED  BY <2>1, NotePaths DEF PubInv, Working
<1>3. put.vault = vault \/ put.vault = With(vault, path, {x})
  BY PutFacts
<1>4. put.told => put.vault = With(vault, path, {x})
  BY PutFacts
<1>. HIDE DEF path, busy, x
<1>5. With(vault, path, {x}) # vault
  <2>1. path \in DOMAIN With(vault, path, {x}) /\ With(vault, path, {x})[path] = {x}
    BY DEF With
  <2>. QED  BY <1>2, <2>1
<1>6. Publishing(s, path) = {} => \A t \in Sessions \ {s} : Publishes(desk[t]) => desk[t].path # path
  BY DEF Publishing, Publishes
<1>7. CASE put.told
  <2>1. Turns(s, busy) /\ vault' = With(vault, path, {x}) /\ put.vault # vault
    BY <1>1, <1>4, <1>5, <1>7, Zenon
  <2>2. Publishing(s, path) # {} => path \in disturbed'
    BY <1>1, <2>1
  <2>3. disturbed \subseteq disturbed' /\ disturbed' \subseteq disturbed \cup {path}
    BY <1>1
  <2>. QED  BY <1>6, <2>1, <2>2, <2>3 DEF Wrote, x, path, busy
<1>8. CASE ~put.told /\ put.vault = vault
  <2>1. Turns(s, Idle) /\ vault' = vault
    BY <1>1, <1>8, Zenon
  <2>2. disturbed' = disturbed
    BY <1>1, <1>8
  <2>. QED  BY <2>1, <2>2
<1>9. CASE ~put.told /\ put.vault # vault
  <2>1. Turns(s, Idle) /\ vault' = With(vault, path, {x})
    BY <1>1, <1>3, <1>9, Zenon
  <2>2. path \in disturbed' /\ disturbed \subseteq disturbed' /\ disturbed' \subseteq disturbed \cup {path}
    BY <1>1, <1>9
  <2>. QED  BY <2>1, <2>2 DEF Wrote, x, path, busy
<1>. QED  BY <1>7, <1>8, <1>9

LEMMA WriteKeeps ==
    ASSUME Base, PubInv, NEW s \in Sessions, desk[s].pc = "asked", NEW path, NEW busy, NEW day,
           path = NotePath(desk[s].asset, day),
           busy = [pc |-> "written", asset |-> desk[s].asset, entry |-> desk[s].entry,
                   began |-> desk[s].began, path |-> path, analysis |-> desk[s].analysis],
           Wrote(s, path, busy), UNCHANGED <<queue, documents, count>>
    PROVE  PubInv'
<1>. DEFINE x == desk[s].analysis
<1>1. /\ busy.pc = "written" /\ busy.asset = desk[s].asset /\ busy.entry = desk[s].entry
      /\ busy.path = path /\ busy.analysis = x
  OBVIOUS
<1>2. /\ desk'[s] = Idle \/ desk'[s] = busy
      /\ \A t \in Sessions \ {s} : desk'[t] = desk[t]
  BY TurnKeeps DEF Wrote
<1>3. \/ path \in disturbed'
      \/ desk'[s] = busy /\ \A t \in Sessions \ {s} : Publishes(desk[t]) => desk[t].path # path
  BY TurnKeeps DEF Wrote
<1>4. /\ path \in DOMAIN vault' /\ vault'[path] = {x} /\ DOMAIN vault' = DOMAIN vault \cup {path}
      /\ \A p \in DOMAIN vault : p # path => vault'[p] = vault[p]
      /\ disturbed \subseteq disturbed'
  BY DEF Wrote, With
<1>5. /\ x \in 1..count.requests /\ count.requests \in Nat /\ count.ids \in Nat
      /\ busy.entry = NoEntry \/ busy.entry.asset = busy.asset
      /\ path[3] = day /\ IsResearch(path)
  <2>1. x \in 1..count.requests /\ (busy.entry = NoEntry \/ busy.entry.asset = busy.asset)
    BY <1>1 DEF PubInv, Working, Researching
  <2>. QED  BY <2>1, NotePaths DEF Base
<1>6. Working(busy, vault', disturbed', documents, count.requests, count.ids)
  BY <1>1, <1>4, <1>5 DEF Working, AnalysisOf, Researching, Publishes
<1>7. Working(Idle, vault', disturbed', documents, count.requests, count.ids)
  BY DEF Working, Idle, Researching, Publishes
<1>. HIDE DEF x
<1>8. ASSUME NEW t \in Sessions, t # s
      PROVE  Working(desk[t], vault', disturbed', documents, count.requests, count.ids)
  <2>. DEFINE w == desk[t]
  <2>1. Working(w, vault, disturbed, documents, count.requests, count.ids)
        /\ (w.pc = "asked" => w.analysis # x)
    BY <1>8 DEF PubInv, Apart, x
  <2>2. Publishes(w) => w.path # path \/ path \in disturbed'
    BY <1>3, <1>8
  <2>. HIDE DEF w
  <2>3. ASSUME w.pc = "asked"
        PROVE  \A p \in DOMAIN vault' : IsResearch(p) => vault'[p] # {w.analysis}
    BY <1>4, <2>1, <2>3 DEF Working
  <2>4. ASSUME Publishes(w)
        PROVE  /\ w.path \in DOMAIN vault'
               /\ w.path \notin disturbed' => vault'[w.path] = {AnalysisOf(w)}
    BY <1>4, <2>1, <2>2, <2>4 DEF Working
  <2>5. ASSUME w.pc = "saved"
        PROVE  /\ w.row.id \in 1..count.ids /\ w.row.path = w.path /\ w.row.asset = w.asset
               /\ w.row.entry = w.entry
               /\ w.path \notin disturbed' => \A d \in documents : d.path = w.path => d.id < w.row.id
    BY <1>4, <2>1, <2>5 DEF Working
  <2>6. /\ w.pc \in Researching => w.entry = NoEntry \/ w.entry.asset = w.asset
        /\ w.pc = "asked" => w.analysis \in 1..count.requests
        /\ Publishes(w) => /\ w.path = NotePath(w.asset, w.path[3])
                           /\ AnalysisOf(w) \in 1..count.requests
    BY <2>1 DEF Working
  <2>7. Working(w, vault', disturbed', documents, count.requests, count.ids)
    BY <2>3, <2>4, <2>5, <2>6 DEF Working
  <2>. QED  BY <2>7 DEF w
<1>9. \A t \in Sessions : Working(desk'[t], vault', disturbed', documents, count.requests, count.ids)
  BY <1>2, <1>6, <1>7, <1>8
<1>10. ASSUME NEW t \in Sessions, t # s
       PROVE  Apart(desk'[s], desk[t], disturbed') /\ Apart(desk[t], desk'[s], disturbed')
  <2>1. desk'[s].pc # "asked"
    BY <1>1, <1>2 DEF Idle
  <2>2. Publishes(desk'[s]) => desk'[s].path = path
    BY <1>1, <1>2 DEF Idle, Publishes
  <2>3. Publishes(desk'[s]) /\ Publishes(desk[t]) /\ desk[t].path = path => path \in disturbed'
    BY <1>3, <1>10
  <2>. QED  BY <2>1, <2>2, <2>3 DEF Apart
<1>11. ASSUME NEW t \in Sessions, NEW u \in Sessions, t # u
       PROVE  Apart(desk'[t], desk'[u], disturbed')
  <2>1. CASE t # s /\ u # s
    <3>1. Apart(desk[t], desk[u], disturbed) /\ desk'[t] = desk[t] /\ desk'[u] = desk[u]
      BY <1>2, <1>11, <2>1 DEF PubInv
    <3>. QED  BY <1>4, <3>1 DEF Apart
  <2>. QED  BY <1>2, <1>10, <1>11, <2>1
<1>12. ASSUME NEW p \in DOMAIN vault', IsResearch(p)
       PROVE  \E n \in 1..count.requests : vault'[p] = {n}
  BY <1>4, <1>5, <1>12 DEF PubInv
<1>13. ASSUME NEW d \in documents
       PROVE  Filed(d, vault', count.ids) /\ Shown(d, desk', vault', disturbed', documents)
  <2>1. Filed(d, vault, count.ids) /\ Shown(d, desk, vault, disturbed, documents)
    BY DEF PubInv
  <2>2. Filed(d, vault', count.ids)
    BY <1>4, <2>1 DEF Filed
  <2>3. ASSUME d.path = path  PROVE Shown(d, desk', vault', disturbed', documents)
    <3>1. CASE path \in disturbed'
      BY <2>3, <3>1 DEF Shown
    <3>2. CASE desk'[s] = busy
      <4>1. Publishes(desk'[s]) /\ desk'[s].path = d.path
        BY <1>1, <2>3, <3>2 DEF Publishes
      <4>. QED  BY <4>1, Zenon DEF Shown
    <3>3. path \in disturbed' \/ desk'[s] = busy
      BY <1>3
    <3>. QED  BY <3>1, <3>2, <3>3
  <2>4. ASSUME d.path # path  PROVE Shown(d, desk', vault', disturbed', documents)
    <3>1. vault'[d.path] = vault[d.path]
      BY <1>4, <2>1, <2>4 DEF Filed
    <3>2. \A t \in Sessions : Publishes(desk[t]) => desk'[t] = desk[t]
      BY <1>2 DEF Publishes
    <3>3. CASE d.path \in disturbed
      BY <1>4, <3>3, Zenon DEF Shown
    <3>4. ASSUME NEW t \in Sessions, Publishes(desk[t]), desk[t].path = d.path
          PROVE  Shown(d, desk', vault', disturbed', documents)
      <4>1. Publishes(desk'[t]) /\ desk'[t].path = d.path
        BY <3>2, <3>4
      <4>. QED  BY <4>1, Zenon DEF Shown
    <3>5. CASE vault[d.path] = {Newest({e \in documents : e.path = d.path}).analysis}
      BY <3>1, <3>5 DEF Shown
    <3>. QED  BY <2>1, <3>3, <3>4, <3>5 DEF Shown
  <2>. QED  BY <2>2, <2>3, <2>4
<1>14. ASSUME NEW e \in DOMAIN queue, queue[e].status = "done"
       PROVE  WrittenUp(e, queue[e].document, vault', disturbed', documents)
  <2>1. WrittenUp(e, queue[e].document, vault, disturbed, documents)
    BY <1>14 DEF PubInv
  <2>. QED  BY <1>4, <2>1 DEF WrittenUp
<1>. QED  BY <1>9, <1>11, <1>12, <1>13, <1>14 DEF PubInv

LEMMA PublishKeeps ==
    ASSUME Base, PubInv, Base', NEW s \in Sessions, Publish(s)
    PROVE  PubInv'
<1>. DEFINE path == NotePath(desk[s].asset, today)
            busy == [pc |-> "written", asset |-> desk[s].asset, entry |-> desk[s].entry,
                     began |-> desk[s].began, path |-> path, analysis |-> desk[s].analysis]
<1>1. desk[s].pc = "asked" /\ UNCHANGED <<queue, documents, count>>
  BY DEF Publish
<1>2. \/ Turns(s, Idle) /\ UNCHANGED <<vault, disturbed>>
      \/ Wrote(s, path, busy)
  BY PublishFacts
<1>3. CASE Turns(s, Idle) /\ UNCHANGED <<vault, disturbed>>
  <2>1. ResearchAside
    BY <1>1, <1>3, EndsAside DEF Idle, Researching, Publishes, Beside, NotesAside
  <2>. QED  BY <2>1, ResearchAsideKeeps
<1>4. CASE Wrote(s, path, busy)
  <2>1. busy = [pc |-> "written", asset |-> desk[s].asset, entry |-> desk[s].entry,
                began |-> desk[s].began, path |-> path, analysis |-> desk[s].analysis]
        /\ path = NotePath(desk[s].asset, today)
    OBVIOUS
  <2>. HIDE DEF path, busy
  <2>. QED  BY <1>1, <1>4, <2>1, WriteKeeps
<1>. QED  BY <1>2, <1>3, <1>4

LEMMA SaveKeeps ==
    ASSUME Base, PubInv, NEW s \in Sessions, Save(s)
    PROVE  PubInv'
<1>. DEFINE v == desk[s]
            row == [id |-> count.ids + 1, asset |-> v.asset, path |-> v.path,
                    created |-> v.began, analysis |-> v.analysis, entry |-> v.entry]
            w == [pc |-> "saved", asset |-> v.asset, entry |-> v.entry, path |-> v.path, row |-> row]
            i == count.ids
<1>1. /\ v.pc = "written" /\ Turns(s, w) /\ count' = [count EXCEPT !.ids = @ + 1]
      /\ UNCHANGED <<queue, documents, vault, disturbed>>
  BY DEF Save, Turns
<1>2. count'.requests = count.requests /\ count'.ids = i + 1 /\ i \in Nat /\ count.requests \in Nat
  BY <1>1 DEF Base
<1>3. /\ row.id = i + 1 /\ row.asset = v.asset /\ row.path = v.path /\ row.analysis = v.analysis
      /\ row.entry = v.entry
  OBVIOUS
<1>. HIDE DEF row
<1>4. /\ w.pc = "saved" /\ w.asset = v.asset /\ w.entry = v.entry /\ w.path = v.path /\ w.row = row
  OBVIOUS
<1>. HIDE DEF w, i
<1>5. desk'[s] = w /\ \A t \in Sessions \ {s} : desk'[t] = desk[t]
  BY <1>1, TurnKeeps
<1>6. /\ Working(v, vault, disturbed, documents, count.requests, i)
      /\ \A d \in documents : d.id \in 1..i
  BY DEF PubInv, Filed, i
<1>. HIDE DEF v
<1>7. /\ v.entry = NoEntry \/ v.entry.asset = v.asset
      /\ v.path = NotePath(v.asset, v.path[3]) /\ v.path \in DOMAIN vault
      /\ v.analysis \in 1..count.requests
      /\ v.path \notin disturbed => vault[v.path] = {v.analysis}
  BY <1>1, <1>6 DEF Working, Publishes, Researching, AnalysisOf
<1>8. AnalysisOf(w) = v.analysis /\ Publishes(w)
  BY <1>3, <1>4 DEF AnalysisOf, Publishes
<1>9. Working(w, vault, disturbed, documents, count.requests, i + 1)
  BY <1>2, <1>3, <1>4, <1>6, <1>7, <1>8 DEF Working
<1>10. ASSUME NEW t \in Sessions, t # s
       PROVE  Working(desk[t], vault, disturbed, documents, count.requests, i + 1)
  <2>1. Working(desk[t], vault, disturbed, documents, count.requests, i)
    BY DEF PubInv, i
  <2>. QED  BY <1>2, <2>1, WorkingGrows
<1>11. \A t \in Sessions : Working(desk'[t], vault, disturbed, documents, count.requests, i + 1)
  BY <1>5, <1>9, <1>10
<1>12. ASSUME NEW t \in Sessions, t # s
       PROVE  Apart(w, desk[t], disturbed) /\ Apart(desk[t], w, disturbed)
  <2>1. Apart(v, desk[t], disturbed) /\ Apart(desk[t], v, disturbed)
    BY <1>12 DEF PubInv, v
  <2>. QED  BY <1>1, <1>4, <2>1 DEF Apart, Publishes
<1>13. ASSUME NEW t \in Sessions, NEW u \in Sessions, t # u
       PROVE  Apart(desk'[t], desk'[u], disturbed)
  BY <1>5, <1>12, <1>13 DEF PubInv
<1>14. ASSUME NEW d \in documents
       PROVE  Filed(d, vault, i + 1) /\ Shown(d, desk', vault, disturbed, documents)
  <2>1. Filed(d, vault, i) /\ Shown(d, desk, vault, disturbed, documents)
    BY DEF PubInv, i
  <2>2. Filed(d, vault, i + 1)
    BY <1>2, <2>1 DEF Filed
  <2>3. CASE d.path \in disturbed
    BY <2>2, <2>3, Zenon DEF Shown
  <2>4. ASSUME NEW t \in Sessions, Publishes(desk[t]), desk[t].path = d.path
        PROVE  Shown(d, desk', vault, disturbed, documents)
    <3>1. Publishes(desk'[t]) /\ desk'[t].path = d.path
      BY <1>4, <1>5, <1>8, <2>4 DEF v
    <3>. QED  BY <3>1, Zenon DEF Shown
  <2>5. CASE vault[d.path] = {Newest({e \in documents : e.path = d.path}).analysis}
    BY <2>2, <2>5, Zenon DEF Shown
  <2>. QED  BY <2>1, <2>2, <2>3, <2>4, <2>5 DEF Shown
<1>15. /\ \A p \in DOMAIN vault : IsResearch(p) => \E n \in 1..count.requests : vault[p] = {n}
       /\ \A e \in DOMAIN queue : queue[e].status = "done" =>
            WrittenUp(e, queue[e].document, vault, disturbed, documents)
  BY DEF PubInv
<1>. QED  BY <1>1, <1>2, <1>11, <1>13, <1>14, <1>15 DEF PubInv

\* The newest row of a path when the session's own row has joined the others.
LEMMA NewestOfPath ==
    ASSUME PubInv, Base, NEW s \in Sessions, desk[s].pc = "saved"
    PROVE  LET w == desk[s]
               rows == {d \in documents \cup {w.row} : d.path = w.path}
           IN  /\ Newest(rows) \in rows /\ Newest(rows).asset = w.asset
               /\ w.path \notin disturbed => Newest(rows) = w.row
<1>. DEFINE w == desk[s]
            rows == {d \in documents \cup {w.row} : d.path = w.path}
            i == count.ids
<1>1. /\ Working(w, vault, disturbed, documents, count.requests, i) /\ i \in Nat
      /\ \A d \in documents : Filed(d, vault, i)
  BY DEF PubInv, Base
<1>. HIDE DEF w, i
<1>2. w.pc = "saved"
  BY DEF w
<1>3. /\ w.row.id \in 1..i /\ w.row.path = w.path /\ w.row.asset = w.asset
      /\ w.path = NotePath(w.asset, w.path[3])
      /\ w.path \notin disturbed => \A d \in documents : d.path = w.path => d.id < w.row.id
  BY <1>1, <1>2 DEF Working, Publishes
<1>4. \A d \in documents : d.id \in 1..i
  BY <1>1 DEF Filed
<1>5. w.row \in rows /\ \A d \in rows : d.id \in 1..i /\ d.path = w.path
  BY <1>3, <1>4
<1>6. \A d \in rows : d.asset = w.asset
  <2>1. ASSUME NEW d \in documents, d.path = w.path  PROVE d.asset = w.asset
    <3>1. d.path = NotePath(d.asset, d.path[3])
      BY <1>1 DEF Filed
    <3>2. d.path[2] = d.asset /\ w.path[2] = w.asset
      BY <1>3, <3>1, NotePaths
    <3>. QED  BY <2>1, <3>2
  <2>. QED  BY <1>3, <2>1
<1>7. w.path \notin disturbed => \A d \in rows : d # w.row => d.id < w.row.id
  BY <1>3
<1>. HIDE DEF rows
<1>8. Newest(rows) \in rows
  BY <1>1, <1>5, NewestIs
<1>9. w.path \notin disturbed => Newest(rows) = w.row
  BY <1>1, <1>5, <1>7, NewestUnique
<1>. QED  BY <1>6, <1>8, <1>9 DEF rows, w

LEMMA FinishKeeps ==
    ASSUME Base, PubInv, NEW s \in Sessions, Finish(s)
    PROVE  PubInv'
<1>. DEFINE w == desk[s]
            path == w.path
            rows == {d \in documents \cup {w.row} : d.path = path}
            i == count.ids
            r == count.requests
<1>1. /\ w.pc = "saved" /\ documents' = documents \cup {w.row}
      /\ UNCHANGED <<vault, count, disturbed>>
  BY DEF Finish
<1>2. Working(w, vault, disturbed, documents, r, i) /\ i \in Nat /\ r \in Nat
  BY DEF PubInv, Base
<1>3. /\ Newest(rows) \in rows /\ Newest(rows).asset = w.asset
      /\ path \notin disturbed => Newest(rows) = w.row
  BY <1>1, NewestOfPath
<1>4. /\ desk'[s] = Idle
      /\ \A t \in Sessions \ {s} :
           /\ desk'[t].pc \in Researching => desk'[t] = desk[t]
           /\ Publishes(desk[t]) => desk'[t] = desk[t]
  <2>1. CASE w.entry = NoEntry
    <3>1. Turns(s, Idle)
      BY <2>1 DEF Finish, Turns
    <3>. QED  BY <3>1, TurnKeeps
  <2>2. CASE w.entry # NoEntry
    <3>1. Closes(s, w.entry)
      BY <2>2, Zenon DEF Finish, Closes
    <3>2. Quiet(Researching)
      BY <3>1, CloseQuiet DEF Researching
    <3>3. \A t \in Sessions \ {s} : Publishes(desk[t]) => desk'[t] = desk[t]
      BY <3>1, CloseKeeps DEF Publishes
    <3>4. desk'[s] = Idle
      BY <3>1, CloseKeeps
    <3>. QED  BY <3>2, <3>3, <3>4 DEF Quiet
  <2>. QED  BY <2>1, <2>2
<1>5. /\ w.row.id \in 1..i /\ w.row.path = path /\ w.row.asset = w.asset /\ w.row.entry = w.entry
      /\ path = NotePath(w.asset, path[3]) /\ path \in DOMAIN vault
      /\ path \notin disturbed => vault[path] = {w.row.analysis}
      /\ w.entry = NoEntry \/ w.entry.asset = w.asset
  BY <1>1, <1>2 DEF Working, Publishes, Researching, AnalysisOf
<1>6. \A t \in Sessions \ {s} : Publishes(desk[t]) /\ desk[t].path = path => path \in disturbed
  BY <1>1 DEF PubInv, Apart, Publishes
<1>7. ASSUME NEW e \in DOMAIN queue', queue'[e].status = "done"
      PROVE  WrittenUp(e, queue'[e].document, vault, disturbed, documents')
  <2>1. ASSUME e \in DOMAIN queue, queue[e].status = "done", queue'[e].document = queue[e].document
        PROVE  WrittenUp(e, queue'[e].document, vault, disturbed, documents')
    <3>1. WrittenUp(e, queue[e].document, vault, disturbed, documents)
      BY <2>1 DEF PubInv
    <3>. QED  BY <1>1, <2>1, <3>1 DEF WrittenUp
  <2>2. CASE w.entry = NoEntry
    <3>1. queue' = queue
      BY <2>2 DEF Finish
    <3>. QED  BY <1>7, <2>1, <3>1
  <2>3. CASE w.entry # NoEntry
    <3>1. /\ Settles(s, w.entry, "done", Linked(s))
          /\ w.entry \in DOMAIN queue => queue'[w.entry].document = Linked(s)
      BY <2>3, DoneSettles
    <3>2. e \in DOMAIN queue /\ (e # w.entry => queue'[e] = queue[e])
      BY <3>1 DEF Settles
    <3>3. CASE e # w.entry
      BY <1>7, <2>1, <3>2, <3>3
    <3>4. CASE e = w.entry
      <4>1. queue'[e].document = Newest(rows).id
        BY <3>1, <3>2, <3>4 DEF Linked
      <4>. DEFINE d == Newest(rows)
      <4>2. d \in documents' /\ d.path = path /\ d.asset = e.asset
            /\ (d.path \in disturbed \/ d.entry = e)
        BY <1>1, <1>3, <1>5, <2>3, <3>4
      <4>. HIDE DEF d
      <4>. QED  BY <1>5, <4>1, <4>2 DEF WrittenUp, d
    <3>. QED  BY <3>3, <3>4
  <2>. QED  BY <2>2, <2>3
<1>. HIDE DEF w, i, r
<1>8. ASSUME NEW t \in Sessions
      PROVE  Working(desk'[t], vault, disturbed, documents', r, i)
  <2>1. CASE desk'[t].pc \notin Researching
    BY <2>1 DEF Working, Researching, Publishes
  <2>2. CASE desk'[t].pc \in Researching
    <3>1. t # s /\ desk'[t] = desk[t]
      BY <1>4, <2>2 DEF Idle, Researching
    <3>. DEFINE u == desk[t]
    <3>2. Working(u, vault, disturbed, documents, r, i)
      BY DEF PubInv, r, i
    <3>3. Publishes(u) /\ u.path = path => path \in disturbed
      BY <1>6, <3>1
    <3>. HIDE DEF u
    <3>4. Working(u, vault, disturbed, documents', r, i)
      BY <1>1, <1>5, <3>2, <3>3 DEF Working, Publishes
    <3>. QED  BY <3>1, <3>4 DEF u
  <2>. QED  BY <2>1, <2>2
<1>9. ASSUME NEW t \in Sessions, NEW u \in Sessions, t # u
      PROVE  Apart(desk'[t], desk'[u], disturbed)
  <2>1. CASE desk'[t].pc \in Researching /\ desk'[u].pc \in Researching
    <3>1. desk'[t] = desk[t] /\ desk'[u] = desk[u]
      BY <1>4, <2>1 DEF Idle, Researching
    <3>. QED  BY <1>9, <3>1 DEF PubInv
  <2>2. CASE desk'[t].pc \notin Researching \/ desk'[u].pc \notin Researching
    BY <2>2 DEF Apart, Researching, Publishes
  <2>. QED  BY <2>1, <2>2
<1>10. ASSUME NEW d \in documents'
       PROVE  Filed(d, vault, i) /\ Shown(d, desk', vault, disturbed, documents')
  <2>1. Filed(d, vault, i)
    BY <1>1, <1>5 DEF PubInv, Filed, i
  <2>2. ASSUME d.path = path  PROVE Shown(d, desk', vault, disturbed, documents')
    <3>1. rows = {e \in documents' : e.path = d.path}
      BY <1>1, <2>2
    <3>. QED  BY <1>3, <1>5, <2>2, <3>1 DEF Shown
  <2>3. ASSUME d.path # path  PROVE Shown(d, desk', vault, disturbed, documents')
    <3>1. d \in documents
      BY <1>1, <1>5, <2>3
    <3>2. Shown(d, desk, vault, disturbed, documents)
      BY <3>1 DEF PubInv
    <3>3. CASE d.path \in disturbed
      BY <3>3, Zenon DEF Shown
    <3>4. ASSUME NEW t \in Sessions, Publishes(desk[t]), desk[t].path = d.path
          PROVE  Shown(d, desk', vault, disturbed, documents')
      <4>1. Publishes(desk'[t]) /\ desk'[t].path = d.path
        BY <1>4, <2>3, <3>4 DEF w
      <4>. QED  BY <4>1, Zenon DEF Shown
    <3>5. CASE vault[d.path] = {Newest({e \in documents : e.path = d.path}).analysis}
      <4>1. {e \in documents' : e.path = d.path} = {e \in documents : e.path = d.path}
        BY <1>1, <1>5, <2>3
      <4>. QED  BY <3>5, <4>1 DEF Shown
    <3>. QED  BY <3>2, <3>3, <3>4, <3>5 DEF Shown
  <2>. QED  BY <2>1, <2>2, <2>3
<1>11. \A p \in DOMAIN vault : IsResearch(p) => \E n \in 1..r : vault[p] = {n}
  BY DEF PubInv, r
<1>. QED  BY <1>1, <1>7, <1>8, <1>9, <1>10, <1>11 DEF PubInv, r, i

LEMMA EntriesAreNamed ==
    ASSUME NEW s \in Sessions, NEW entry \in DOMAIN queue, Process(s, entry)
    PROVE  /\ Start(s, Asked(entry.asset, entry))
           /\ UNCHANGED <<queue, documents, vault, disturbed>>
BY DEF Process

LEMMA PubNext ==
    ASSUME Base, PubInv, [Next]_vars
    PROVE  PubInv'
<1>0. Base'
  BY QueueSteps
<1>1. CASE UNCHANGED vars \/ ObserveRegime \/ DaysPass \/ \E a \in Assets : News(a)
  BY <1>0, <1>1, WorldLeavesResearch, ResearchAsideKeeps
<1>2. ASSUME NEW s \in Sessions,
             \/ Scan(s) \/ CommitScan(s)
             \/ \E entry \in DOMAIN queue : OpenDismissal(s, entry)
             \/ \E a \in Assets : OpenReview(s, a)
             \/ Dismiss(s) \/ NoteReview(s) \/ CommitReview(s) \/ Abort(s)
      PROVE  PubInv'
  BY <1>0, <1>2, OthersLeaveResearch, ResearchAsideKeeps
<1>3. ASSUME NEW s \in Sessions, NEW entry \in DOMAIN queue, Process(s, entry)  PROVE PubInv'
  BY <1>3, EntriesAreNamed, AskKeeps
<1>4. ASSUME NEW s \in Sessions, NEW a \in Assets, Research(s, a)  PROVE PubInv'
  <2>1. Start(s, Asked(a, NoEntry)) /\ UNCHANGED <<queue, documents, vault, disturbed>>
    BY <1>4 DEF Research
  <2>. QED  BY <2>1, AskKeeps
<1>5. ASSUME NEW s \in Sessions, Publish(s)  PROVE PubInv'
  BY <1>0, <1>5, PublishKeeps
<1>6. ASSUME NEW s \in Sessions, Save(s)  PROVE PubInv'
  BY <1>6, SaveKeeps
<1>7. ASSUME NEW s \in Sessions, Finish(s)  PROVE PubInv'
  BY <1>7, FinishKeeps
<1>. QED  BY <1>1, <1>2, <1>3, <1>4, <1>5, <1>6, <1>7, Zenon DEF Next

\* A done entry is linked to a committed document about its asset, made for it unless a
\* publish of its note failed or overlapped, and such a note shows the newest analysis
\* (routers/research_queue.py process_entry, research_repository.py).
THEOREM DoneStaysWrittenUp == Spec => []DoneIsWrittenUp
<1>1. Init => Base /\ PubInv
  BY ScanInit, PubInit
<1>2. Base /\ PubInv /\ [Next]_vars => (Base /\ PubInv)'
  BY QueueSteps, PubNext
<1>. QED  BY <1>1, <1>2, PubInvShows, PTL DEF Spec

-----------------------------------------------------------------------------
(***************************************************************************)
(* What the detector finds.                                                *)
(***************************************************************************)
\* The magnitudes a change of a type may have.
Fits(type, magnitude) ==
    /\ magnitude \in 1..Full
    /\ type = "thesis_violation" => magnitude >= ThesisMaterialityThreshold
    /\ type = "earnings_release" => magnitude = Full
    /\ type = "regime_change" => magnitude = Full \/ magnitude = Full \div 2

FittingChanges(a) ==
    {c \in [asset : {a}, type : ChangeTypes, magnitude : 1..Full] : Fits(c.type, c.magnitude)}

FactsOn(day) ==
    [closes : Seq(Nat \ {0}), earnings : Seq(Int), stake : Nat, lists : Nat,
     thesis : [assessment : Assessments \cup {None}, reviewed : {Never} \cup 0..day, noted : BOOLEAN],
     researched : {Never} \cup 0..day]

LEMMA Constants ==
    /\ Full \div 2 = 5000 /\ (7 * Full) \div 10 = 7000 /\ Full \div 100 = 100
    /\ (6 * Full) \div 10 = 6000 /\ (2 * Full) \div 10 = 2000
    /\ MaterialityThreshold = 6000 /\ ThesisMaterialityThreshold = 4000
BY DEF Full, MaterialityThreshold, ThesisMaterialityThreshold

LEMMA FittingChange ==
    ASSUME NEW a, NEW type \in ChangeTypes, NEW m, Fits(type, m)
    PROVE  Change(a, type, m) \in FittingChanges(a)
BY DEF FittingChanges, Change, Fits

LEMMA Singleton ==
    ASSUME NEW S, NEW x \in S
    PROVE  <<x>> \in Seq(S) /\ <<>> \in Seq(S)
OBVIOUS

LEMMA Division ==
    ASSUME NEW n \in Int, NEW d \in Int, d > 0
    PROVE  \E q \in Int : q = n \div d /\ d * q <= n /\ n < d * q + d
OBVIOUS

\* A product of at least k times the divisor.
LEMMA Quotient ==
    ASSUME NEW n \in Int, NEW d \in Int, d > 0, NEW k \in Int, d * k <= n
    PROVE  n \div d \in Int /\ k <= n \div d
<1>1. PICK q \in Int : q = n \div d /\ d * q <= n /\ n < d * q + d
  BY Division
<1>2. CASE q < k
  <2>1. PICK j \in Nat : k = q + 1 + j
    BY <1>2, k - q - 1 \in Nat
  <2>2. d * k = d * q + d + d * j /\ d * j >= 0 /\ d * q \in Int /\ d * j \in Int
    BY <2>1
  <2>. QED  BY <1>1, <2>2
<1>. QED  BY <1>1, <1>2

Fractions == 0..Full
Halves == {x \in Fractions : 5000 <= x}

LEMMA FullIs == Full = 10000
BY DEF Full

\* The provers are slow with intervals whose bounds are numerals.
LEMMA FullType == Full \in Nat
BY FullIs

LEMMA FractionIs == ASSUME NEW x \in Fractions  PROVE x \in Nat /\ x <= 10000
<1>1. x \in Nat /\ x <= Full
  BY FullType DEF Fractions
<1>. QED  BY <1>1, FullIs

LEMMA HalfIs == ASSUME NEW x \in Halves  PROVE x \in Nat /\ 5000 <= x /\ x <= 10000
BY FractionIs DEF Halves

LEMMA HalfIsPositive == ASSUME NEW x \in Halves  PROVE x \in 1..Full
<1>1. x \in Fractions /\ 5000 <= x
  BY DEF Halves
<1>. QED  BY <1>1, FullType DEF Fractions

LEMMA IsFraction ==
    ASSUME NEW x \in Nat, x <= 10000
    PROVE  x \in Fractions /\ (5000 <= x => x \in Halves)
<1>1. x <= Full
  BY FullIs
<1>2. x \in Fractions
  BY <1>1, FullType DEF Fractions
<1>. QED  BY <1>2 DEF Halves

LEMMA OneOfThree ==
    ASSUME NEW p, NEW q, NEW x, NEW y, NEW z
    PROVE  (CASE p -> x [] q -> y [] OTHER -> z) \in {x, y, z}
BY Zenon

LEMMA Capped ==
    ASSUME NEW x \in Int, 0 <= x
    PROVE  AtMost(10000, x) \in Fractions /\ (5000 <= x => AtMost(10000, x) \in Halves)
<1>1. CASE x <= 10000
  BY <1>1, IsFraction DEF AtMost
<1>2. CASE ~(x <= 10000)
  BY <1>2, IsFraction DEF AtMost
<1>. QED  BY <1>1, <1>2

\* An observation that reaches its threshold is at least half of the scale.
LEMMA ScaledFits ==
    ASSUME NEW num \in Nat, NEW den \in Nat \ {0}, NEW thrNum \in Nat \ {0},
           NEW thrDen \in Nat \ {0}, thrNum * den <= num * thrDen
    PROVE  Scaled(num, den, thrNum, thrDen) \in Halves
<1>1. PICK x \in Nat, y \in Nat \ {0} : x = num * thrDen /\ y = thrNum * den
  <2>1. num * thrDen \in Nat /\ thrNum * den \in Nat \ {0}
    OBVIOUS
  <2>. QED  BY <2>1
<1>2. num * thrDen * Full = x * 10000 /\ 2 * thrNum * den = 2 * y /\ y <= x
  BY <1>1 DEF Full
<1>3. (2 * y) * 5000 <= x * 10000 /\ 2 * y > 0
  BY <1>2
<1>4. (x * 10000) \div (2 * y) \in Int /\ 5000 <= (x * 10000) \div (2 * y)
  BY <1>3, Quotient
<1>5. Scaled(num, den, thrNum, thrDen) = AtMost(10000, (x * 10000) \div (2 * y))
  BY <1>2 DEF Scaled, Full
<1>6. PICK q \in Int : q = (x * 10000) \div (2 * y)
  BY <1>4
<1>7. AtMost(10000, q) \in Halves
  <2>1. q \in Int /\ 5000 <= q /\ 0 <= q
    BY <1>4, <1>6
  <2>. QED  BY <2>1, Capped
<1>. QED  BY <1>5, <1>6, <1>7

LEMMA RecentCloses ==
    ASSUME NEW closes \in Seq(Nat \ {0}), NEW n \in Nat
    PROVE  LastOf(closes, n) \in Seq(Nat \ {0})
<1>1. PICK from \in Nat \ {0} : from = IF Len(closes) > n THEN Len(closes) - n + 1 ELSE 1
  <2>1. Len(closes) \in Nat
    OBVIOUS
  <2>2. CASE Len(closes) > n
    <3>1. Len(closes) - n + 1 \in Nat \ {0}
      BY <2>1, <2>2
    <3>. QED  BY <2>2, <3>1
  <2>3. CASE ~(Len(closes) > n)
    BY <2>3
  <2>. QED  BY <2>2, <2>3
<1>2. \A i \in from..Len(closes) : closes[i] \in Nat \ {0}
  OBVIOUS
<1>3. SubSeq(closes, from, Len(closes)) \in Seq(Nat \ {0})
  BY <1>2, SubSeqProperties
<1>. QED  BY <1>1, <1>3 DEF LastOf

LEMMA MoveFits ==
    ASSUME NEW new \in Nat \ {0}, NEW old \in Nat \ {0}, NEW percent \in Nat \ {0},
           Breaches(new, old, percent)
    PROVE  MoveMagnitude(new, old, percent) \in 1..Full
<1>1. PICK d \in Nat : d = Distance(new, old)
  <2>1. Distance(new, old) \in Nat
    BY DEF Distance
  <2>. QED  BY <2>1
<1>2. percent * old <= d * 100
  BY <1>1 DEF Breaches
<1>3. Scaled(d, old, percent, 100) \in Halves
  BY <1>2, ScaledFits
<1>4. MoveMagnitude(new, old, percent) = Scaled(d, old, percent, 100)
  BY <1>1, Zenon DEF MoveMagnitude
<1>5. MoveMagnitude(new, old, percent) \in Halves
  BY <1>3, <1>4
<1>. QED  BY <1>5, HalfIsPositive, Zenon

LEMMA PriceFits ==
    ASSUME NEW a, NEW closes \in Seq(Nat \ {0})
    PROVE  PriceChanges(a, closes) \in Seq(FittingChanges(a))
<1>1. PICK recent \in Seq(Nat \ {0}) : recent = LastOf(closes, MoveWindow + 1)
  BY RecentCloses, DetectionAssumption
<1>2. PICK n \in Nat : n = Len(recent)
  OBVIOUS
<1>3. \A i \in 1..n : recent[i] \in Nat \ {0}
  BY <1>2
<1>. DEFINE shock == n >= 2 /\ Breaches(recent[n], recent[n - 1], ShockPercent)
            move == n >= 2 /\ n > MoveWindow /\ Breaches(recent[n], recent[1], MovePercent)
            first == IF shock
                     THEN <<Change(a, "price_shock",
                                   MoveMagnitude(recent[n], recent[n - 1], ShockPercent))>>
                     ELSE <<>>
            second == IF move
                      THEN <<Change(a, "large_move",
                                    MoveMagnitude(recent[n], recent[1], MovePercent))>>
                      ELSE <<>>
<1>4. first \in Seq(FittingChanges(a))
  <2>1. CASE shock
    <3>1. recent[n] \in Nat \ {0} /\ recent[n - 1] \in Nat \ {0} /\ ShockPercent \in Nat \ {0}
      BY <1>3, <2>1 DEF ShockPercent
    <3>2. MoveMagnitude(recent[n], recent[n - 1], ShockPercent) \in 1..Full
      BY <2>1, <3>1, MoveFits
    <3>3. Change(a, "price_shock", MoveMagnitude(recent[n], recent[n - 1], ShockPercent))
            \in FittingChanges(a)
      BY <3>2, FittingChange DEF Fits, ChangeTypes
    <3>. QED  BY <2>1, <3>3, Singleton
  <2>2. CASE ~shock
    BY <2>2
  <2>. QED  BY <2>1, <2>2
<1>5. second \in Seq(FittingChanges(a))
  <2>1. CASE move
    <3>1. recent[n] \in Nat \ {0} /\ recent[1] \in Nat \ {0} /\ MovePercent \in Nat \ {0}
      BY <1>3, <2>1 DEF MovePercent
    <3>2. MoveMagnitude(recent[n], recent[1], MovePercent) \in 1..Full
      BY <2>1, <3>1, MoveFits
    <3>3. Change(a, "large_move", MoveMagnitude(recent[n], recent[1], MovePercent))
            \in FittingChanges(a)
      BY <3>2, FittingChange DEF Fits, ChangeTypes
    <3>. QED  BY <2>1, <3>3, Singleton
  <2>2. CASE ~move
    BY <2>2
  <2>. QED  BY <2>1, <2>2
<1>6. PriceChanges(a, closes) = first \o second
  BY <1>1, <1>2 DEF PriceChanges
<1>. HIDE DEF first, second
<1>. QED  BY <1>4, <1>5, <1>6, ConcatProperties

LEMMA EarningsFit ==
    ASSUME NEW a, NEW earnings \in Seq(Int), NEW day \in Int
    PROVE  EarningsChanges(a, earnings, day) \in Seq(FittingChanges(a))
<1>1. PICK n : n = Cardinality({i \in DOMAIN earnings : earnings[i] >= day - EarningsDays})
  OBVIOUS
<1>2. n \in Nat
  <2>1. DOMAIN earnings = 1..Len(earnings) /\ Len(earnings) \in Nat
    OBVIOUS
  <2>2. IsFiniteSet(1..Len(earnings))
    BY <2>1, 1 \in Int, Len(earnings) \in Int, FS_Interval
  <2>3. {i \in DOMAIN earnings : earnings[i] >= day - EarningsDays} \in SUBSET (1..Len(earnings))
    BY <2>1
  <2>. QED  BY <1>1, <2>2, <2>3, FS_Subset, FS_CardinalityType
<1>3. Change(a, "earnings_release", Full) \in FittingChanges(a)
  <2>1. Fits("earnings_release", Full) /\ "earnings_release" \in ChangeTypes
    BY DEF Fits, ChangeTypes, Full
  <2>. QED  BY <2>1, FittingChange
<1>4. EarningsChanges(a, earnings, day)
        = [i \in 1..n |-> Change(a, "earnings_release", Full)]
  BY <1>1 DEF EarningsChanges
<1>5. EarningsChanges(a, earnings, day) \in [1..n -> FittingChanges(a)]
  BY <1>3, <1>4
<1>6. \A m \in Nat : \A f \in [1..m -> FittingChanges(a)] : f \in Seq(FittingChanges(a))
  BY SeqDef
<1>. QED  BY <1>2, <1>5, <1>6

LEMMA AgeFits ==
    ASSUME NEW age \in Nat, NEW limit \in Nat \ {0}, limit <= age
    PROVE  Scaled(age, 1, limit, 1) \in Halves
<1>1. limit * 1 <= age * 1
  OBVIOUS
<1>. QED  BY <1>1, ScaledFits

LEMMA ThesisFits ==
    ASSUME NEW a, NEW day \in Nat,
           NEW thesis \in [assessment : Assessments \cup {None}, reviewed : {Never} \cup 0..day,
                           noted : BOOLEAN]
    PROVE  ThesisChanges(a, thesis, day) \in Seq(FittingChanges(a))
<1>1. PICK age \in Int : age = IF thesis.reviewed = Never THEN ThesisStaleDays + 1
                               ELSE day - thesis.reviewed
  BY DEF ThesisStaleDays
<1>2. PICK m : m = CASE thesis.assessment = "THESIS_INVALIDATED" -> Full
                     [] thesis.assessment = "THESIS_WEAKENED" -> (7 * Full) \div 10
                     [] OTHER -> IF age > ThesisStaleDays
                                 THEN Scaled(age, 1, ThesisStaleDays, 1) ELSE 0
  OBVIOUS
<1>3. m \in Halves \/ m = 0
  <2>1. m = Full \/ m = (7 * Full) \div 10
        \/ m = (IF age > ThesisStaleDays THEN Scaled(age, 1, ThesisStaleDays, 1) ELSE 0)
    BY <1>2, Zenon
  <2>2. CASE age > ThesisStaleDays
    <3>1. age \in Nat /\ ThesisStaleDays \in Nat \ {0} /\ ThesisStaleDays <= age
      BY <2>2 DEF ThesisStaleDays
    <3>2. Scaled(age, 1, ThesisStaleDays, 1) \in Halves
      BY <3>1, AgeFits
    <3>3. Full \in Halves /\ (7 * Full) \div 10 \in Halves
      BY Constants, IsFraction DEF Full
    <3>. QED  BY <2>1, <2>2, <3>2, <3>3
  <2>3. CASE ~(age > ThesisStaleDays)
    <3>1. Full \in Halves /\ (7 * Full) \div 10 \in Halves
      BY Constants, IsFraction DEF Full
    <3>. QED  BY <2>1, <2>3, <3>1
  <2>. QED  BY <2>2, <2>3
<1>4. ThesisChanges(a, thesis, day) = IF m = 0 THEN <<>> ELSE <<Change(a, "thesis_violation", m)>>
  BY <1>1, <1>2, Zenon DEF ThesisChanges
<1>5. CASE m # 0
  <2>1. Fits("thesis_violation", m)
    <3>1. m \in Nat /\ 5000 <= m /\ m <= 10000
      BY <1>3, <1>5, HalfIs
    <3>. QED  BY <3>1, Constants DEF Fits, Full
  <2>2. Change(a, "thesis_violation", m) \in FittingChanges(a)
    BY <2>1, FittingChange DEF ChangeTypes
  <2>. QED  BY <1>4, <1>5, <2>2, Singleton
<1>. QED  BY <1>4, <1>5

LEMMA StaleFits ==
    ASSUME NEW a, NEW day \in Nat, NEW researched \in {Never} \cup 0..day
    PROVE  StaleResearch(a, researched, day) \in Seq(FittingChanges(a))
<1>1. PICK age \in Int : age = IF researched = Never THEN StaleResearchDays + 1
                               ELSE day - researched
  BY DEF StaleResearchDays
<1>2. StaleResearch(a, researched, day) =
        IF age <= StaleResearchDays THEN <<>>
        ELSE <<Change(a, "stale_research", Scaled(age, 1, StaleResearchDays, 1))>>
  BY <1>1 DEF StaleResearch
<1>3. CASE age > StaleResearchDays
  <2>1. age \in Nat /\ StaleResearchDays \in Nat \ {0} /\ StaleResearchDays <= age
    BY <1>3 DEF StaleResearchDays
  <2>2. Scaled(age, 1, StaleResearchDays, 1) \in 1..Full
    <3>1. Scaled(age, 1, StaleResearchDays, 1) \in Halves
      BY <2>1, AgeFits
    <3>. QED  BY <3>1, HalfIsPositive, Zenon
  <2>3. Change(a, "stale_research", Scaled(age, 1, StaleResearchDays, 1)) \in FittingChanges(a)
    BY <2>2, FittingChange DEF Fits, ChangeTypes
  <2>4. ~(age <= StaleResearchDays)
    BY <1>3 DEF StaleResearchDays
  <2>. QED  BY <1>2, <2>3, <2>4, Singleton
<1>4. CASE ~(age > StaleResearchDays)
  <2>1. age <= StaleResearchDays
    BY <1>4 DEF StaleResearchDays
  <2>. QED  BY <1>2, <2>1
<1>. QED  BY <1>3, <1>4

LEMMA RegimeFits ==
    ASSUME NEW a, NEW facts, NEW observed
    PROVE  RegimeChanges(a, facts, observed) \in Seq(FittingChanges(a))
<1>1. PICK m : m = RegimeMagnitude(observed)
  OBVIOUS
<1>2. m = 0 \/ m = Full \/ m = Full \div 2
  <2>. DEFINE n == Len(observed)
              x == CASE observed[n].trend # observed[n - 1].trend -> Full
                     [] observed[n].other # observed[n - 1].other -> Full \div 2
                     [] OTHER -> 0
  <2>1. x \in {Full, Full \div 2, 0}
    BY OneOfThree, Zenon
  <2>2. RegimeMagnitude(observed) = IF n < 2 THEN 0 ELSE x
    BY Zenon DEF RegimeMagnitude
  <2>. HIDE DEF n, x
  <2>. QED  BY <1>1, <2>1, <2>2
<1>3. CASE m > 0
  <2>0. Fits("regime_change", m) /\ "regime_change" \in ChangeTypes
    BY <1>2, <1>3 DEF Fits, ChangeTypes, Full
  <2>1. Change(a, "regime_change", m) \in FittingChanges(a)
    BY <2>0, FittingChange
  <2>2. <<Change(a, "regime_change", m)>> \in Seq(FittingChanges(a))
        /\ <<>> \in Seq(FittingChanges(a))
    BY <2>1, Singleton
  <2>. QED  BY <1>1, <2>2, Zenon DEF RegimeChanges
<1>4. CASE ~(m > 0)
  <2>1. RegimeChanges(a, facts, observed) = <<>>
    BY <1>1, <1>4 DEF RegimeChanges
  <2>. QED  BY <2>1
<1>. QED  BY <1>3, <1>4

\* Every change found for an asset is about it and fits its type.
LEMMA FoundFits ==
    ASSUME NEW a, NEW day \in Nat, NEW facts \in FactsOn(day), NEW observed
    PROVE  \A i \in DOMAIN (DetectForAsset(a, facts, day) \o RegimeChanges(a, facts, observed)) :
             (DetectForAsset(a, facts, day) \o RegimeChanges(a, facts, observed))[i]
               \in FittingChanges(a)
<1>1. PICK thesis : thesis = IF facts.thesis.assessment = None THEN <<>>
                             ELSE ThesisChanges(a, facts.thesis, day)
  OBVIOUS
<1>2. /\ facts.closes \in Seq(Nat \ {0}) /\ facts.earnings \in Seq(Int)
      /\ facts.thesis \in [assessment : Assessments \cup {None}, reviewed : {Never} \cup 0..day,
                           noted : BOOLEAN]
      /\ facts.researched \in {Never} \cup 0..day
  BY DEF FactsOn
<1>3. /\ PriceChanges(a, facts.closes) \in Seq(FittingChanges(a))
      /\ EarningsChanges(a, facts.earnings, day) \in Seq(FittingChanges(a))
      /\ StaleResearch(a, facts.researched, day) \in Seq(FittingChanges(a))
      /\ RegimeChanges(a, facts, observed) \in Seq(FittingChanges(a))
  <2>1. PriceChanges(a, facts.closes) \in Seq(FittingChanges(a))
    BY <1>2, PriceFits
  <2>2. EarningsChanges(a, facts.earnings, day) \in Seq(FittingChanges(a))
    BY <1>2, EarningsFit
  <2>3. StaleResearch(a, facts.researched, day) \in Seq(FittingChanges(a))
    BY <1>2, StaleFits
  <2>4. RegimeChanges(a, facts, observed) \in Seq(FittingChanges(a))
    BY RegimeFits
  <2>. QED  BY <2>1, <2>2, <2>3, <2>4
<1>4. thesis \in Seq(FittingChanges(a))
  BY <1>1, <1>2, ThesisFits
<1>5. DetectForAsset(a, facts, day) =
        PriceChanges(a, facts.closes) \o EarningsChanges(a, facts.earnings, day) \o thesis
          \o StaleResearch(a, facts.researched, day)
  BY <1>1 DEF DetectForAsset
<1>6. DetectForAsset(a, facts, day) \in Seq(FittingChanges(a))
  BY <1>3, <1>4, <1>5, ConcatProperties
<1>7. DetectForAsset(a, facts, day) \o RegimeChanges(a, facts, observed)
        \in Seq(FittingChanges(a))
  BY <1>3, <1>6, ConcatProperties
<1>. QED  BY <1>7

\* Scores are fractions.
Weighed(m, n, p, w) == (40 * m + 20 * n + 25 * p + 15 * w) \div 100

LEMMA Average ==
    ASSUME NEW m \in Fractions, NEW n \in Fractions, NEW p \in Fractions, NEW w \in Fractions
    PROVE  Weighed(m, n, p, w) \in Fractions
<1>0. /\ m \in Nat /\ n \in Nat /\ p \in Nat /\ w \in Nat
      /\ m <= 10000 /\ n <= 10000 /\ p <= 10000 /\ w <= 10000
  BY FractionIs
<1>1. PICK x \in Nat : x = 40 * m + 20 * n + 25 * p + 15 * w /\ x <= 1000000
  BY <1>0, SMT
<1>2. PICK q \in Int : q = x \div 100 /\ 100 * q <= x /\ x < 100 * q + 100
  BY <1>1, Division
<1>3. q \in Nat /\ q <= 10000
  BY <1>1, <1>2, SMT
<1>. QED  BY <1>1, <1>2, <1>3, IsFraction DEF Weighed

LEMMA ScoreFits ==
    ASSUME NEW change, change.magnitude \in Fractions, NEW day \in Nat, NEW facts \in FactsOn(day)
    PROVE  Score(change, facts, day) \in Fractions
<1>1. Novelty(facts, day) \in Fractions
  <2>1. CASE facts.researched = Never
    BY <2>1, IsFraction DEF Novelty, Full
  <2>2. CASE facts.researched # Never
    <3>1. PICK age \in Nat : age = day - facts.researched
      BY <2>2 DEF FactsOn
    <3>2. PICK q \in Nat : q = (age * 10000) \div 60
      OBVIOUS
    <3>3. Novelty(facts, day) = AtMost(10000, q)
      BY <2>2, <3>1, <3>2 DEF Novelty, Full, NoveltySaturationDays
    <3>. QED  BY <3>2, <3>3, Capped
  <2>. QED  BY <2>1, <2>2
<1>2. PortfolioImpact(facts) \in Fractions
  <2>1. PICK stake \in Nat : stake = facts.stake
    BY DEF FactsOn
  <2>2. PICK x \in Nat : x = stake * 100
    OBVIOUS
  <2>3. PortfolioImpact(facts) = AtMost(10000, x)
    BY <2>1, <2>2, Constants DEF PortfolioImpact, Full
  <2>. QED  BY <2>2, <2>3, Capped
<1>3. WatchlistRelevance(facts) \in Fractions
  <2>1. PICK lists \in Nat : lists = facts.lists
    BY DEF FactsOn
  <2>2. CASE lists = 0
    BY <2>1, <2>2, IsFraction DEF WatchlistRelevance
  <2>3. CASE lists # 0
    <3>1. WatchlistRelevance(facts) = AtMost(Full, (6 * Full) \div 10 + ((2 * Full) \div 10) * (lists - 1))
      BY <2>1, <2>3 DEF WatchlistRelevance
    <3>2. PICK x \in Nat : x = 6000 + 2000 * (lists - 1)
      BY <2>3
    <3>3. WatchlistRelevance(facts) = AtMost(10000, x)
      BY <3>1, <3>2, Constants DEF Full
    <3>. QED  BY <3>2, <3>3, Capped
  <2>. QED  BY <2>2, <2>3
<1>4. Score(change, facts, day)
        = Weighed(change.magnitude, Novelty(facts, day), PortfolioImpact(facts),
                  WatchlistRelevance(facts))
  BY Zenon DEF Score, Weighed, ImportanceWeight, NoveltyWeight, PortfolioWeight, WatchlistWeight
<1>5. ASSUME NEW m \in Fractions, NEW n \in Fractions, NEW p \in Fractions, NEW w \in Fractions
      PROVE  Weighed(m, n, p, w) \in Fractions
  BY Average
<1>6. PICK m \in Fractions, n \in Fractions, p \in Fractions, w \in Fractions :
        /\ m = change.magnitude /\ n = Novelty(facts, day) /\ p = PortfolioImpact(facts)
        /\ w = WatchlistRelevance(facts)
  BY <1>1, <1>2, <1>3, Zenon
<1>7. Score(change, facts, day) = Weighed(m, n, p, w)
  BY <1>4, <1>6, Zenon
<1>8. Weighed(m, n, p, w) \in Fractions
  BY <1>5, <1>6, Zenon
<1>. QED  BY <1>7, <1>8

-----------------------------------------------------------------------------
(***************************************************************************)
(* What is scored fits the event it is about.                              *)
(***************************************************************************)
RatingFits(type, rating) ==
    type \in ChangeTypes /\ Fits(type, rating.importance) /\ rating.score \in Fractions

EntryFits(e, row, requests) ==
    /\ e.asset \in Assets /\ e.scan \in Nat /\ e.scan < requests
    /\ RatingFits(e.type, row)

\* What a session is going to write, on this day and after so many requests.
WorkFits(w, day, requests) ==
    /\ w.pc = "scanned" =>
         /\ w.scan \in Nat /\ w.scan < requests
         /\ \A key \in DOMAIN w.insert : key[1] \in Assets /\ RatingFits(key[2], w.insert[key])
         /\ \A e \in DOMAIN w.refresh : RatingFits(e.type, w.refresh[e].rated)
    /\ w.pc \in {"asked", "written"} => w.asset \in Assets /\ w.began \in 0..day
    /\ w.pc = "saved" => w.row.created \in 0..day
    /\ w.pc = "noted" => w.at \in 0..day

\* What a scan reads.
FactsFit(situations, observed, held, rows, notes, day) ==
    /\ situations \in [Assets -> Situations]
    /\ observed \in Seq(Regimes) /\ Len(observed) <= 2
    /\ \A a \in Assets : held[a].reviewed \in {Never} \cup 0..day
    /\ \A d \in rows : d.created \in 0..day
    /\ DOMAIN notes \subseteq Paths

QueueFits(entries, requests) == \A e \in DOMAIN entries : EntryFits(e, entries[e], requests)
DeskFits(work, day, requests) == \A s \in Sessions : WorkFits(work[s], day, requests)

FitInv ==
    /\ today \in Nat
    /\ FactsFit(market, regimes, theses, documents, vault, today)
    /\ QueueFits(queue, count.requests)
    /\ DeskFits(desk, today, count.requests)

LEMMA LaterFits ==
    ASSUME NEW w, NEW d \in Nat, NEW e \in Nat, d <= e, NEW r \in Nat, NEW q \in Nat, r <= q,
           WorkFits(w, d, r)
    PROVE  WorkFits(w, e, q)
BY DEF WorkFits

LEMMA LaterQueueFits ==
    ASSUME NEW entries, NEW r \in Nat, NEW q \in Nat, r <= q, QueueFits(entries, r)
    PROVE  QueueFits(entries, q)
BY DEF QueueFits, EntryFits

LEMMA FitInit == Init => FitInv
<1>. SUFFICES ASSUME Init PROVE FitInv
  OBVIOUS
<1>1. /\ today = 0 /\ market \in [Assets -> Situations] /\ regimes = Observed /\ queue = <<>>
      /\ documents = {} /\ vault = <<>> /\ desk = [s \in Sessions |-> Idle]
      /\ theses \in [Assets -> OpeningTheses]
  BY DEF Init
<1>2. regimes \in Seq(Regimes) /\ Len(regimes) <= 2
  BY <1>1, DeskAssumption
<1>3. ASSUME NEW a \in Assets PROVE theses[a].reviewed = Never
  <2>1. theses[a] \in OpeningTheses
    BY <1>1
  <2>. QED  BY <2>1 DEF OpeningTheses
<1>4. DOMAIN vault = {} /\ DOMAIN queue = {}
  BY <1>1
<1>5. DeskFits(desk, today, count.requests)
  BY <1>1 DEF DeskFits, WorkFits, Idle
<1>. QED  BY <1>1, <1>2, <1>3, <1>4, <1>5 DEF FitInv, FactsFit, QueueFits

\* A session turns to work that fits.
LEMMA DeskTurns ==
    ASSUME Base, FitInv, NEW s \in Sessions, NEW w, Turns(s, w),
           NEW q \in Nat, count.requests <= q, WorkFits(w, today, q)
    PROVE  DeskFits(desk', today, q)
<1>1. desk'[s] = w /\ \A t \in Sessions \ {s} : desk'[t] = desk[t]
  BY TurnKeeps
<1>2. ASSUME NEW t \in Sessions PROVE WorkFits(desk[t], today, q)
  <2>1. today \in Nat /\ count.requests \in Nat /\ WorkFits(desk[t], today, count.requests)
    BY DEF Base, FitInv, DeskFits
  <2>. QED  BY <2>1, LaterFits
<1>3. ASSUME NEW t \in Sessions PROVE WorkFits(desk'[t], today, q)
  <2>1. CASE t = s
    BY <1>1, <2>1
  <2>2. CASE t # s
    BY <1>1, <1>2, <2>2
  <2>. QED  BY <2>1, <2>2
<1>. QED  BY <1>3 DEF DeskFits

LEMMA StartFits ==
    ASSUME Base, FitInv, NEW s \in Sessions, NEW w, Start(s, w),
           WorkFits(w, today, count.requests + 1),
           UNCHANGED <<today, market, regimes, queue, documents, theses, vault>>
    PROVE  FitInv'
<1>1. /\ Turns(s, w) /\ count'.requests = count.requests + 1 /\ count.requests \in Nat
  BY CountGrows
<1>2. DeskFits(desk', today, count.requests + 1)
  BY <1>1, DeskTurns
<1>3. QueueFits(queue, count.requests + 1)
  BY <1>1, LaterQueueFits DEF FitInv
<1>. QED  BY <1>1, <1>2, <1>3 DEF FitInv

LEMMA TurnFits ==
    ASSUME Base, FitInv, NEW s \in Sessions, NEW w, Turns(s, w), WorkFits(w, today, count.requests),
           UNCHANGED <<today, market, regimes, queue>>, count'.requests = count.requests,
           FactsFit(market, regimes, theses', documents', vault', today)
    PROVE  FitInv'
<1>1. count.requests \in Nat
  BY DEF Base
<1>2. DeskFits(desk', today, count.requests)
  BY <1>1, DeskTurns
<1>. QED  BY <1>2 DEF FitInv

LEMMA IdleFits == ASSUME NEW day, NEW r  PROVE WorkFits(Idle, day, r)
BY DEF WorkFits, Idle

\* A session that closes an entry leaves the work of the others.
LEMMA ClosedWork ==
    ASSUME Base, NEW s \in Sessions, NEW entry, Closes(s, entry), NEW t \in Sessions
    PROVE  \/ desk'[t] = Idle
           \/ desk'[t] = desk[t]
           \/ /\ desk[t].pc = "scanned" /\ desk'[t].pc = "scanned"
              /\ desk'[t].scan = desk[t].scan /\ desk'[t].insert = desk[t].insert
              /\ desk'[t].refresh = desk[t].refresh
<1>1. /\ desk'[s] = Idle
      /\ \A u \in Sessions \ {s} :
           /\ desk[u].pc # "scanned" => desk'[u] = desk[u]
           /\ desk[u].pc = "scanned" =>
                desk'[u] = [pc |-> "scanned", scan |-> desk[u].scan, found |-> desk[u].found,
                            refresh |-> desk[u].refresh, insert |-> desk[u].insert,
                            closed |-> desk[u].closed \cup {entry}]
  BY CloseKeeps, ZenonT(30)
<1>2. CASE t # s /\ desk[t].pc = "scanned"
  <2>1. desk'[t] = [pc |-> "scanned", scan |-> desk[t].scan, found |-> desk[t].found,
                    refresh |-> desk[t].refresh, insert |-> desk[t].insert,
                    closed |-> desk[t].closed \cup {entry}]
    BY <1>1, <1>2
  <2>. QED  BY <1>2, <2>1
<1>3. CASE ~(t # s /\ desk[t].pc = "scanned")
  BY <1>1, <1>3
<1>. QED  BY <1>2, <1>3

LEMMA CloseFits ==
    ASSUME Base, FitInv, NEW s \in Sessions, NEW entry, Closes(s, entry),
           UNCHANGED <<today, market, regimes, theses, vault, count>>,
           \A d \in documents' : d.created \in 0..today,
           DOMAIN queue' = DOMAIN queue,
           \A e \in DOMAIN queue : /\ queue'[e].importance = queue[e].importance
                                   /\ queue'[e].score = queue[e].score
    PROVE  FitInv'
<1>1. ASSUME NEW t \in Sessions PROVE WorkFits(desk'[t], today, count.requests)
  <2>1. WorkFits(desk[t], today, count.requests)
    BY DEF FitInv, DeskFits
  <2>2. CASE desk'[t] = Idle
    BY <2>2, IdleFits
  <2>3. CASE desk'[t] = desk[t]
    BY <2>1, <2>3
  <2>4. CASE /\ desk[t].pc = "scanned" /\ desk'[t].pc = "scanned"
             /\ desk'[t].scan = desk[t].scan /\ desk'[t].insert = desk[t].insert
             /\ desk'[t].refresh = desk[t].refresh
    BY <2>1, <2>4 DEF WorkFits
  <2>. QED  BY <2>2, <2>3, <2>4, ClosedWork
<1>2. QueueFits(queue', count.requests)
  BY DEF FitInv, QueueFits, EntryFits, RatingFits
<1>. QED  BY <1>1, <1>2 DEF FitInv, FactsFit, DeskFits

\* The row of an entry that is closed, and of one that is linked too.
Closed(row, status) == [row EXCEPT !.status = status]
ClosedWith(row, status, document) == [[row EXCEPT !.status = status] EXCEPT !.document = document]

LEMMA ClosedRate ==
    ASSUME NEW row, RowShaped(row), NEW status
    PROVE  /\ Closed(row, status).importance = row.importance
           /\ Closed(row, status).score = row.score
           /\ DOMAIN Closed(row, status) = {"status", "document", "importance", "score"}
<1>1. DOMAIN row = {"status", "document", "importance", "score"}
  BY DEF RowShaped
<1>. QED  BY <1>1 DEF Closed

LEMMA ClosedWithRate ==
    ASSUME NEW row, RowShaped(row), NEW status, NEW document
    PROVE  /\ ClosedWith(row, status, document).importance = row.importance
           /\ ClosedWith(row, status, document).score = row.score
<1>. DEFINE u == Closed(row, status)
<1>1. /\ DOMAIN u = {"status", "document", "importance", "score"}
      /\ u.importance = row.importance /\ u.score = row.score
  BY ClosedRate
<1>2. ClosedWith(row, status, document) = [u EXCEPT !.document = document]
  BY DEF Closed, ClosedWith
<1>. HIDE DEF u
<1>. QED  BY <1>1, <1>2

LEMMA SettledRating ==
    ASSUME Base, NEW entry, NEW status, NEW document,
           \/ queue' = [queue EXCEPT ![entry].status = status]
           \/ queue' = [queue EXCEPT ![entry].status = status, ![entry].document = document]
    PROVE  /\ DOMAIN queue' = DOMAIN queue
           /\ \A e \in DOMAIN queue : /\ queue'[e].importance = queue[e].importance
                                      /\ queue'[e].score = queue[e].score
<1>1. queue = [e \in DOMAIN queue |-> queue[e]] /\ \A e \in DOMAIN queue : RowShaped(queue[e])
  BY DEF Base
<1>2. /\ DOMAIN queue' = DOMAIN queue
      /\ \A e \in DOMAIN queue \ {entry} : queue'[e] = queue[e]
      /\ entry \in DOMAIN queue =>
           \/ queue'[entry] = [queue[entry] EXCEPT !.status = status]
           \/ queue'[entry] = [[queue[entry] EXCEPT !.status = status] EXCEPT !.document = document]
  BY <1>1
<1>3. ASSUME entry \in DOMAIN queue
      PROVE  /\ queue'[entry].importance = queue[entry].importance
             /\ queue'[entry].score = queue[entry].score
  <2>1. RowShaped(queue[entry])
    BY <1>1, <1>3
  <2>2. CASE queue'[entry] = [queue[entry] EXCEPT !.status = status]
    <3>1. queue'[entry] = Closed(queue[entry], status)
      BY <2>2 DEF Closed
    <3>. QED  BY <2>1, <3>1, ClosedRate
  <2>3. CASE queue'[entry] = [[queue[entry] EXCEPT !.status = status] EXCEPT !.document = document]
    <3>1. queue'[entry] = ClosedWith(queue[entry], status, document)
      BY <2>3 DEF ClosedWith
    <3>. QED  BY <2>1, <3>1, ClosedWithRate
  <2>. QED  BY <1>2, <1>3, <2>2, <2>3
<1>. QED  BY <1>2, <1>3

-----------------------------------------------------------------------------
\* Facts that grow: rows and notes.
LEMMA PathsGrow ==
    ASSUME NEW notes, DOMAIN notes \subseteq Paths, NEW path \in Paths, NEW E,
           NEW after, after = notes \/ after = With(notes, path, E)
    PROVE  DOMAIN after \subseteq Paths
BY DEF With

LEMMA AskedFits ==
    ASSUME Base, FitInv, NEW s \in Sessions, NEW a \in Assets, NEW entry, Start(s, Asked(a, entry)),
           UNCHANGED <<today, market, regimes, queue, documents, theses, vault>>
    PROVE  FitInv'
<1>1. Asked(a, entry).pc = "asked" /\ Asked(a, entry).asset = a /\ Asked(a, entry).began = today
  BY DEF Asked
<1>2. WorkFits(Asked(a, entry), today, count.requests + 1)
  <2>1. today \in 0..today
    BY DEF FitInv
  <2>. QED  BY <1>1, <2>1 DEF WorkFits
<1>. QED  BY <1>2, StartFits

LEMMA OpenedFits ==
    ASSUME Base, FitInv, NEW s \in Sessions,
           \/ \E entry \in DOMAIN queue : Process(s, entry) \/ OpenDismissal(s, entry)
           \/ \E a \in Assets : Research(s, a) \/ OpenReview(s, a)
    PROVE  FitInv'
<1>1. ASSUME NEW entry \in DOMAIN queue, Process(s, entry)  PROVE FitInv'
  <2>1. entry.asset \in Assets
    BY DEF FitInv, QueueFits, EntryFits
  <2>2. /\ Start(s, Asked(entry.asset, entry))
        /\ UNCHANGED <<today, market, regimes, queue, documents, theses, vault>>
    BY <1>1 DEF Process
  <2>. QED  BY <2>1, <2>2, AskedFits
<1>2. ASSUME NEW entry \in DOMAIN queue, OpenDismissal(s, entry)  PROVE FitInv'
  <2>. DEFINE w == [pc |-> "dismissing", entry |-> entry]
  <2>1. /\ Start(s, w)
        /\ UNCHANGED <<today, market, regimes, queue, documents, theses, vault>>
    BY <1>2 DEF OpenDismissal
  <2>2. WorkFits(w, today, count.requests + 1)
    BY DEF WorkFits
  <2>. HIDE DEF w
  <2>. QED  BY <2>1, <2>2, StartFits
<1>3. ASSUME NEW a \in Assets, Research(s, a)  PROVE FitInv'
  <2>1. /\ Start(s, Asked(a, NoEntry))
        /\ UNCHANGED <<today, market, regimes, queue, documents, theses, vault>>
    BY <1>3 DEF Research
  <2>. QED  BY <2>1, AskedFits
<1>4. ASSUME NEW a \in Assets, OpenReview(s, a)  PROVE FitInv'
  <2>. DEFINE w == [pc |-> "reviewing", asset |-> a, seen |-> Cardinality(ReviewsOf(a)),
                    loaded |-> theses[a].assessment]
  <2>1. /\ Start(s, w)
        /\ UNCHANGED <<today, market, regimes, queue, documents, theses, vault>>
    BY <1>4 DEF OpenReview
  <2>2. WorkFits(w, today, count.requests + 1)
    BY DEF WorkFits
  <2>. HIDE DEF w
  <2>. QED  BY <2>1, <2>2, StartFits
<1>. QED  BY <1>1, <1>2, <1>3, <1>4

LEMMA PublishFits ==
    ASSUME Base, ReviewInv, PubInv, FitInv, NEW s \in Sessions, Publish(s)
    PROVE  FitInv'
<1>. DEFINE path == NotePath(desk[s].asset, today)
            busy == [pc |-> "written", asset |-> desk[s].asset, entry |-> desk[s].entry,
                     began |-> desk[s].began, path |-> path, analysis |-> desk[s].analysis]
<1>1. UNCHANGED <<today, market, regimes, queue, documents, theses, count>>
      /\ desk[s].pc = "asked"
  BY DEF Publish
<1>2. /\ Turns(s, Idle) \/ Turns(s, busy)
      /\ vault' = vault \/ vault' = With(vault, path, {desk[s].analysis})
  BY PublishFacts DEF Wrote
<1>3. desk[s].asset \in Assets /\ desk[s].began \in 0..today
  <2>1. WorkFits(desk[s], today, count.requests)
    BY DEF FitInv, DeskFits
  <2>. QED  BY <1>1, <2>1 DEF WorkFits
<1>4. WorkFits(busy, today, count.requests)
  BY <1>3 DEF WorkFits
<1>5. path \in Paths
  <2>1. today \in Days
    BY DEF ReviewInv, ThesisTypes
  <2>. QED  BY <1>3, <2>1 DEF Paths
<1>. HIDE DEF path, busy
<1>6. DOMAIN vault' \subseteq Paths
  BY <1>2, <1>5, PathsGrow DEF FitInv, FactsFit
<1>7. FactsFit(market, regimes, theses', documents', vault', today)
  BY <1>1, <1>6 DEF FitInv, FactsFit
<1>. QED  BY <1>1, <1>2, <1>4, <1>7, IdleFits, TurnFits

LEMMA SaveFits ==
    ASSUME Base, FitInv, NEW s \in Sessions, Save(s)
    PROVE  FitInv'
<1>. DEFINE w == [pc |-> "saved", asset |-> desk[s].asset, entry |-> desk[s].entry,
          path |-> desk[s].path,
          row |-> [id |-> count.ids + 1, asset |-> desk[s].asset, path |-> desk[s].path,
                   created |-> desk[s].began, analysis |-> desk[s].analysis,
                   entry |-> desk[s].entry]]
<1>1. /\ desk[s].pc = "written" /\ Turns(s, w) /\ count' = [count EXCEPT !.ids = @ + 1]
      /\ UNCHANGED <<today, market, regimes, queue, documents, theses, vault>>
  BY DEF Save, Turns
<1>2. count'.requests = count.requests
  BY <1>1 DEF Base
<1>3. desk[s].began \in 0..today
  <2>1. WorkFits(desk[s], today, count.requests)
    BY DEF FitInv, DeskFits
  <2>. QED  BY <1>1, <2>1 DEF WorkFits
<1>4. WorkFits(w, today, count.requests)
  BY <1>3 DEF WorkFits
<1>. HIDE DEF w
<1>5. FactsFit(market, regimes, theses', documents', vault', today)
  BY <1>1 DEF FitInv
<1>. QED  BY <1>1, <1>2, <1>4, <1>5, TurnFits

LEMMA FinishFits ==
    ASSUME Base, FitInv, NEW s \in Sessions, Finish(s)
    PROVE  FitInv'
<1>1. /\ desk[s].pc = "saved" /\ documents' = documents \cup {desk[s].row}
      /\ UNCHANGED <<today, market, regimes, theses, vault, count>>
  BY Zenon DEF Finish
<1>2. \A d \in documents' : d.created \in 0..today
  <2>1. WorkFits(desk[s], today, count.requests)
    BY DEF FitInv, DeskFits
  <2>2. desk[s].row.created \in 0..today
    BY <1>1, <2>1 DEF WorkFits
  <2>. QED  BY <1>1, <2>2 DEF FitInv, FactsFit
<1>3. CASE desk[s].entry = NoEntry
  <2>1. Turns(s, Idle) /\ UNCHANGED queue
    BY <1>3 DEF Finish, Turns
  <2>2. FactsFit(market, regimes, theses', documents', vault', today)
    BY <1>1, <1>2 DEF FitInv, FactsFit
  <2>. QED  BY <1>1, <2>1, <2>2, IdleFits, TurnFits
<1>4. CASE desk[s].entry # NoEntry
  <2>1. /\ Closes(s, desk[s].entry)
        /\ queue' = [queue EXCEPT ![desk[s].entry].status = "done",
                                  ![desk[s].entry].document = Linked(s)]
    BY <1>4, Zenon DEF Finish, Closes
  <2>2. /\ DOMAIN queue' = DOMAIN queue
        /\ \A e \in DOMAIN queue : /\ queue'[e].importance = queue[e].importance
                                   /\ queue'[e].score = queue[e].score
    BY <2>1, SettledRating
  <2>. QED  BY <1>1, <1>2, <2>1, <2>2, CloseFits
<1>. QED  BY <1>3, <1>4

LEMMA DismissFits ==
    ASSUME Base, FitInv, NEW s \in Sessions, Dismiss(s)
    PROVE  FitInv'
<1>1. /\ queue' = [queue EXCEPT ![desk[s].entry].status = "dismissed"]
      /\ Closes(s, desk[s].entry)
      /\ UNCHANGED <<today, market, regimes, documents, theses, vault, count>>
  BY Zenon DEF Dismiss, Closes
<1>2. /\ DOMAIN queue' = DOMAIN queue
      /\ \A e \in DOMAIN queue : /\ queue'[e].importance = queue[e].importance
                                 /\ queue'[e].score = queue[e].score
  BY <1>1, SettledRating
<1>3. \A d \in documents' : d.created \in 0..today
  BY <1>1 DEF FitInv, FactsFit
<1>. QED  BY <1>1, <1>2, <1>3, CloseFits

LEMMA NoteFits ==
    ASSUME Base, ReviewInv, FitInv, NEW s \in Sessions, NoteReview(s)
    PROVE  FitInv'
<1>1. UNCHANGED <<today, market, regimes, queue, documents, theses, count>>
      /\ desk[s].pc = "reviewing"
  BY DEF NoteReview
<1>. DEFINE path == ThesisPath(desk[s].asset)
<1>2. PICK w, assessment, E :
        /\ Turns(s, w)
        /\ (w = Idle \/ w = Reviewed(s, assessment))
        /\ vault' = vault \/ (vault' = With(vault, path, E) /\ Note(vault, path) \subseteq E)
  BY Noting, Zenon
<1>3. WorkFits(w, today, count.requests)
  <2>1. today \in 0..today
    BY DEF FitInv
  <2>2. Reviewed(s, assessment).pc = "noted" /\ Reviewed(s, assessment).at = today
    BY DEF Reviewed
  <2>3. WorkFits(Reviewed(s, assessment), today, count.requests)
    BY <2>1, <2>2 DEF WorkFits
  <2>. QED  BY <1>2, <2>3, IdleFits
<1>4. path \in Paths
  <2>1. desk[s].asset \in Assets
    BY <1>1 DEF ReviewInv, ReviewOK, ReviewSound
  <2>. QED  BY <2>1 DEF Paths
<1>. HIDE DEF path
<1>5. DOMAIN vault' \subseteq Paths
  BY <1>2, <1>4, PathsGrow DEF FitInv, FactsFit
<1>6. FactsFit(market, regimes, theses', documents', vault', today)
  BY <1>1, <1>5 DEF FitInv, FactsFit
<1>. QED  BY <1>1, <1>2, <1>3, <1>6, TurnFits

LEMMA CommitReviewFits ==
    ASSUME Base, ReviewInv, FitInv, NEW s \in Sessions, CommitReview(s)
    PROVE  FitInv'
<1>. DEFINE a == desk[s].asset
            day == desk[s].at
<1>1. /\ desk[s].pc = "noted" /\ Turns(s, Idle)
      /\ theses' = [theses EXCEPT ![a].assessment = Assessed(s), ![a].reviewed = day]
      /\ UNCHANGED <<today, market, regimes, queue, documents, vault, count>>
  BY Zenon DEF CommitReview, Turns
<1>2. day \in 0..today
  <2>1. WorkFits(desk[s], today, count.requests)
    BY DEF FitInv, DeskFits
  <2>. QED  BY <1>1, <2>1 DEF WorkFits
<1>3. a \in Assets
  BY <1>1 DEF ReviewInv, ReviewOK, ReviewSound
<1>. HIDE DEF a, day
<1>4. ASSUME NEW b \in Assets PROVE theses'[b].reviewed \in {Never} \cup 0..today
  <2>0. /\ theses = [c \in Assets |-> theses[c]]
        /\ theses[a] = [assessment |-> theses[a].assessment, reviewed |-> theses[a].reviewed,
                        noted |-> theses[a].noted]
    BY <1>3 DEF ReviewInv, ThesisTypes
  <2>1. CASE b = a
    <3>1. theses'[a] = Reassessed(theses[a], Assessed(s), day)
      BY <1>1, <1>3, <2>0 DEF Reassessed
    <3>2. theses'[a] = [assessment |-> Assessed(s), reviewed |-> day, noted |-> theses[a].noted]
      BY <2>0, <3>1, ReassessedFacts
    <3>. QED  BY <1>2, <2>1, <3>2
  <2>2. CASE b # a
    <3>1. theses'[b] = theses[b]
      BY <1>1, <2>0, <2>2
    <3>. QED  BY <3>1 DEF FitInv, FactsFit
  <2>. QED  BY <2>1, <2>2
<1>5. FactsFit(market, regimes, theses', documents', vault', today)
  BY <1>1, <1>4 DEF FitInv, FactsFit
<1>. QED  BY <1>1, <1>5, IdleFits, TurnFits

LEMMA AbortFits ==
    ASSUME Base, FitInv, NEW s \in Sessions, Abort(s)
    PROVE  FitInv'
<1>1. /\ Turns(s, Idle) /\ count' = [count EXCEPT !.faults = @ + 1]
      /\ UNCHANGED <<today, market, regimes, queue, documents, theses, vault>>
  BY DEF Abort, Turns
<1>2. count'.requests = count.requests
  BY <1>1 DEF Base
<1>3. FactsFit(market, regimes, theses', documents', vault', today)
  BY <1>1 DEF FitInv
<1>. QED  BY <1>1, <1>2, <1>3, IdleFits, TurnFits

-----------------------------------------------------------------------------
\* A scan writes what fits.
LEMMA LatestResearch ==
    ASSUME FitInv, NEW a
    PROVE  Researched(a) \in {Never} \cup 0..today
<1>. DEFINE created == {d.created : d \in {d \in documents : d.asset = a}}
<1>1. created \subseteq 0..today /\ today \in Nat
  BY DEF FitInv, FactsFit
<1>2. Researched(a) = IF created = {} THEN Never
                      ELSE CHOOSE day \in created : \A other \in created : other <= day
  BY DEF Researched
<1>. HIDE DEF created
<1>3. CASE created # {}
  <2>1. created \subseteq Nat /\ \A day \in created : day <= today
    BY <1>1
  <2>2. \E day \in created : \A other \in created : other <= day
    BY <1>1, <1>3, <2>1, Greatest
  <2>3. Researched(a) \in created
    BY <1>2, <1>3, <2>2
  <2>. QED  BY <1>1, <2>3
<1>. QED  BY <1>2, <1>3

LEMMA FactsAreFacts ==
    ASSUME ThesisTypes, FitInv, NEW a \in Assets
    PROVE  Facts(a) \in FactsOn(today)
<1>1. PICK m \in Situations : m = market[a]
  BY DEF FitInv, FactsFit
<1>2. m \in [closes : Seq(Nat \ {0}), earnings : Seq(Int), stake : Nat, lists : Nat]
  BY DeskAssumption
<1>3. /\ m.closes \in Seq(Nat \ {0}) /\ m.earnings \in Seq(Int)
      /\ m.stake \in Nat /\ m.lists \in Nat
  BY <1>2
<1>4. theses[a] \in [assessment : Assessments \cup {None}, reviewed : {Never} \cup 0..today,
                     noted : BOOLEAN]
  <2>1. theses[a] \in [assessment : Assessments \cup {None}, reviewed : {Never} \cup Days,
                       noted : BOOLEAN]
    BY DEF ThesisTypes
  <2>2. theses[a].reviewed \in {Never} \cup 0..today
    BY DEF FitInv, FactsFit
  <2>. QED  BY <2>1, <2>2
<1>5. Researched(a) \in {Never} \cup 0..today
  BY LatestResearch
<1>6. Facts(a) = [closes |-> m.closes, earnings |-> m.earnings, stake |-> m.stake,
                  lists |-> m.lists, thesis |-> theses[a], researched |-> Researched(a)]
  BY <1>1 DEF Facts
<1>. QED  BY <1>3, <1>4, <1>5, <1>6 DEF FactsOn

LEMMA DetectedFits ==
    ASSUME ThesisTypes, FitInv, NEW c \in Detected
    PROVE  /\ c.asset \in Assets /\ c = [asset |-> c.asset, type |-> c.type, magnitude |-> c.magnitude]
           /\ RatingFits(c.type, Rated(c))
<1>1. PICK a \in Assets : c \in ChangesOf(a)
  BY DEF Detected
<1>2. Facts(a) \in FactsOn(today) /\ today \in Nat
  BY FactsAreFacts DEF FitInv
<1>3. c \in FittingChanges(a)
  <2>. DEFINE f == DetectForAsset(a, Facts(a), today) \o RegimeChanges(a, Facts(a), regimes)
  <2>1. \A i \in DOMAIN f : f[i] \in FittingChanges(a)
    BY <1>2, FoundFits, Zenon
  <2>2. c \in {f[i] : i \in DOMAIN f}
    BY <1>1, Zenon DEF ChangesOf
  <2>. HIDE DEF f
  <2>. QED  BY <2>1, <2>2
<1>4. /\ c.asset = a /\ c.type \in ChangeTypes /\ c.magnitude \in 1..Full
      /\ Fits(c.type, c.magnitude)
      /\ c = [asset |-> c.asset, type |-> c.type, magnitude |-> c.magnitude]
  BY <1>3 DEF FittingChanges
<1>5. c.magnitude \in Fractions
  <2>1. \A x \in 1..Full : x \in 0..Full
    BY FullType
  <2>. QED  BY <1>4, <2>1 DEF Fractions
<1>6. Score(c, Facts(c.asset), today) \in Fractions
  BY <1>2, <1>4, <1>5, ScoreFits
<1>7. Rated(c).importance = c.magnitude /\ Rated(c).score \in Fractions
  BY <1>6 DEF Rated
<1>. QED  BY <1>4, <1>7 DEF RatingFits

LEMMA ScanFits ==
    ASSUME Base, ReviewInv, FitInv, NEW s \in Sessions, Scan(s)
    PROVE  FitInv'
<1>. DEFINE known == {c \in Detected : OpenFor(c) # {}}
<1>. DEFINE i == [key \in {Key(c) : c \in Detected \ known} |->
                     Rated(CHOOSE c \in Detected : Key(c) = key)]
            candidates == UNION {OpenFor(c) : c \in known}
            refreshed(passed) ==
              [entry \in candidates \ passed |->
                 [loaded |-> [importance |-> queue[entry].importance, score |-> queue[entry].score],
                  rated |-> Rated(CHOOSE c \in known : Key(c) = Key(entry))]]
<1>0. PICK passed :
        /\ Start(s, [pc |-> "scanned", scan |-> count.requests, found |-> {Key(c) : c \in Detected},
                     refresh |-> refreshed(passed), insert |-> i, closed |-> {}])
        /\ UNCHANGED <<today, market, regimes, queue, documents, theses, vault>>
  BY Zenon DEF Scan
<1>. DEFINE r == refreshed(passed)
            w == [pc |-> "scanned", scan |-> count.requests, found |-> {Key(c) : c \in Detected},
                  refresh |-> r, insert |-> i, closed |-> {}]
<1>1. ThesisTypes
  BY DEF ReviewInv
<1>2. ASSUME NEW key \in DOMAIN i  PROVE key[1] \in Assets /\ RatingFits(key[2], i[key])
  <2>1. PICK c \in Detected : Key(c) = key
    OBVIOUS
  <2>2. PICK d \in Detected : Key(d) = key /\ i[key] = Rated(d)
    <3>. DEFINE d == CHOOSE e \in Detected : Key(e) = key
    <3>1. d \in Detected /\ Key(d) = key
      BY <2>1
    <3>2. i[key] = Rated(d)
      BY <1>2
    <3>. HIDE DEF d
    <3>. QED  BY <3>1, <3>2
  <2>3. d.asset = key[1] /\ d.type = key[2]
    BY <2>2 DEF Key
  <2>. HIDE DEF i
  <2>. QED  BY <1>1, <2>2, <2>3, DetectedFits
<1>3. ASSUME NEW e \in DOMAIN r  PROVE RatingFits(e.type, r[e].rated)
  <2>1. PICK c \in known : e \in OpenFor(c)
    OBVIOUS
  <2>2. c \in known /\ Key(c) = Key(e)
    BY <2>1 DEF OpenFor
  <2>3. PICK d \in Detected : Key(d) = Key(e) /\ r[e].rated = Rated(d)
    <3>. DEFINE d == CHOOSE f \in known : Key(f) = Key(e)
    <3>1. d \in known /\ Key(d) = Key(e)
      BY <2>2
    <3>2. r[e].rated = Rated(d)
      BY <1>3
    <3>. HIDE DEF d
    <3>. QED  BY <3>1, <3>2
  <2>4. d.type = e.type
    BY <2>3 DEF Key
  <2>. HIDE DEF r
  <2>. QED  BY <1>1, <2>3, <2>4, DetectedFits
<1>4. Start(s, w)
  BY <1>0
<1>5. w.pc = "scanned" /\ w.scan = count.requests /\ w.insert = i /\ w.refresh = r
  OBVIOUS
<1>. HIDE DEF r, i, w
<1>6. WorkFits(w, today, count.requests + 1)
  <2>1. count.requests \in Nat /\ count.requests < count.requests + 1
    BY DEF Base
  <2>. QED  BY <1>2, <1>3, <1>5, <2>1 DEF WorkFits
<1>. QED  BY <1>0, <1>4, <1>6, StartFits

\* The two latest observations.
LEMMA LastOfFits ==
    ASSUME NEW S, NEW q \in Seq(S)
    PROVE  LastOf(q, 2) \in Seq(S) /\ Len(LastOf(q, 2)) <= 2
<1>1. PICK n \in Nat : n = Len(q)
  OBVIOUS
<1>2. CASE n > 2
  <2>1. PICK k \in Nat \ {0} : k = n - 1 /\ n - k + 1 = 2
    BY <1>2
  <2>2. LastOf(q, 2) = SubSeq(q, k, n)
    BY <1>1, <1>2, <2>1 DEF LastOf
  <2>3. PICK r : r = SubSeq(q, k, n)
    OBVIOUS
  <2>4. \A i \in k..n : q[i] \in S
    BY <1>1, <1>2, <2>1
  <2>5. r \in Seq(S) /\ Len(r) = n - k + 1
    BY <1>2, <2>1, <2>3, <2>4, SubSeqProperties
  <2>6. Len(r) = 2 /\ LastOf(q, 2) = r
    BY <2>1, <2>2, <2>3, <2>5
  <2>7. Len(LastOf(q, 2)) = 2 /\ LastOf(q, 2) \in Seq(S)
    BY <2>5, <2>6, Zenon
  <2>8. 2 <= 2
    OBVIOUS
  <2>. QED  BY <2>7, <2>8, Zenon
<1>3. CASE ~(n > 2)
  <2>1. LastOf(q, 2) = SubSeq(q, 1, n)
    BY <1>1, <1>3 DEF LastOf
  <2>2. \A i \in 1..n : q[i] \in S
    BY <1>1
  <2>3. SubSeq(q, 1, n) \in Seq(S) /\ Len(SubSeq(q, 1, n)) = n
    BY <1>1, <1>3
  <2>. QED  BY <1>3, <2>1, <2>3
<1>. QED  BY <1>2, <1>3

LEMMA WrittenIsEither == ASSUME NEW h, NEW l, NEW v  PROVE Written(h, l, v) \in {h, v}
BY DEF Written

LEMMA CommitScanFits ==
    ASSUME Base, ScanInv, FitInv, NEW s \in Sessions, CommitScan(s)
    PROVE  FitInv'
<1>. DEFINE row(e) ==
           IF e \in Inserts(s)
           THEN [status |-> "pending", document |-> NoDocument,
                 importance |-> desk[s].insert[Key(e)].importance,
                 score |-> desk[s].insert[Key(e)].score]
           ELSE IF e \in DOMAIN desk[s].refresh
           THEN LET loaded == desk[s].refresh[e].loaded
                    rated == desk[s].refresh[e].rated
                IN  [queue[e] EXCEPT
                        !.importance = Written(@, loaded.importance, rated.importance),
                        !.score = Written(@, loaded.score, rated.score)]
           ELSE queue[e]
<1>1. /\ queue' = [e \in DOMAIN queue \cup Inserts(s) |-> row(e)]
      /\ desk[s].pc = "scanned" /\ Turns(s, Idle)
      /\ UNCHANGED <<today, market, regimes, documents, theses, vault, count>>
  BY Zenon DEF CommitScan, Inserts, Turns
<1>2. /\ desk[s].scan \in Nat /\ desk[s].scan < count.requests
      /\ \A key \in DOMAIN desk[s].insert :
           key[1] \in Assets /\ RatingFits(key[2], desk[s].insert[key])
      /\ \A e \in DOMAIN desk[s].refresh : RatingFits(e.type, desk[s].refresh[e].rated)
  <2>1. WorkFits(desk[s], today, count.requests)
    BY DEF FitInv, DeskFits
  <2>. QED  BY <1>1, <2>1 DEF WorkFits
<1>3. ASSUME NEW e \in Inserts(s)  PROVE EntryFits(e, row(e), count.requests)
  <2>1. PICK key \in DOMAIN desk[s].insert : e = EntryFor(s, key)
    BY DEF Inserts
  <2>2. key = <<key[1], key[2]>>
    BY <1>1 DEF ScanInv, ScanOK
  <2>3. Key(e) = key /\ e.asset = key[1] /\ e.type = key[2] /\ e.scan = desk[s].scan
    BY <2>1, <2>2 DEF EntryFor, Key
  <2>4. row(e).importance = desk[s].insert[key].importance /\ row(e).score = desk[s].insert[key].score
    BY <1>3, <2>3
  <2>. HIDE DEF row
  <2>. QED  BY <1>2, <2>3, <2>4 DEF EntryFits, RatingFits
<1>4. ASSUME NEW e \in DOMAIN queue \ Inserts(s)  PROVE EntryFits(e, row(e), count.requests)
  <2>1. RowShaped(queue[e]) /\ EntryFits(e, queue[e], count.requests)
    BY DEF Base, FitInv, QueueFits
  <2>2. CASE e \in DOMAIN desk[s].refresh
    <3>. DEFINE l == desk[s].refresh[e].loaded
                r == desk[s].refresh[e].rated
    <3>1. row(e) = Refresh(queue[e], l, r)
      BY <2>2 DEF Refresh
    <3>2. RatingFits(e.type, r)
      BY <1>2, <2>2
    <3>. HIDE DEF l, r, row
    <3>3. /\ row(e).importance = Written(queue[e].importance, l.importance, r.importance)
          /\ row(e).score = Written(queue[e].score, l.score, r.score)
      BY <2>1, <3>1, Refreshed
    <3>4. /\ row(e).importance \in {queue[e].importance, r.importance}
          /\ row(e).score \in {queue[e].score, r.score}
      BY <3>3, WrittenIsEither
    <3>5. Fits(e.type, row(e).importance) /\ row(e).score \in Fractions
      BY <2>1, <3>2, <3>4 DEF EntryFits, RatingFits
    <3>. QED  BY <2>1, <3>5 DEF EntryFits, RatingFits
  <2>3. CASE e \notin DOMAIN desk[s].refresh
    BY <2>1, <2>3
  <2>. QED  BY <2>2, <2>3
<1>. HIDE DEF row
<1>5. QueueFits(queue', count.requests)
  BY <1>1, <1>3, <1>4 DEF QueueFits
<1>6. count.requests \in Nat
  BY DEF Base
<1>7. DeskFits(desk', today, count.requests)
  BY <1>1, <1>6, IdleFits, DeskTurns
<1>. QED  BY <1>1, <1>5, <1>7 DEF FitInv

\* The world: any situation, any observation, any later day.
LEMMA WorldFits ==
    ASSUME Base, FitInv, UNCHANGED vars \/ ObserveRegime \/ DaysPass \/ \E a \in Assets : News(a)
    PROVE  FitInv'
<1>0. /\ count.requests \in Nat
      /\ count' = [count EXCEPT !.news = @ + 1] => count'.requests = count.requests
  BY DEF Base
<1>1. CASE UNCHANGED vars
  BY <1>1 DEF vars, FitInv
<1>2. CASE ObserveRegime
  <2>1. PICK seen \in Regimes : regimes' = LastOf(Append(regimes, seen), 2)
    BY <1>2 DEF ObserveRegime
  <2>2. /\ UNCHANGED <<today, market, queue, documents, theses, vault, desk>>
        /\ count' = [count EXCEPT !.news = @ + 1]
    BY <1>2 DEF ObserveRegime
  <2>3. regimes' \in Seq(Regimes) /\ Len(regimes') <= 2
    <3>1. regimes \in Seq(Regimes) /\ seen \in Regimes
      BY <2>1 DEF FitInv, FactsFit
    <3>2. PICK r \in Seq(Regimes) : r = Append(regimes, seen)
      BY <3>1, AppendProperties
    <3>. QED  BY <2>1, <3>2, LastOfFits
  <2>4. FactsFit(market, regimes', theses, documents, vault, today)
    BY <2>3 DEF FitInv, FactsFit
  <2>. QED  BY <1>0, <2>2, <2>4 DEF FitInv
<1>3. CASE DaysPass
  <2>1. /\ today' \in Days /\ today' > today
        /\ UNCHANGED <<market, regimes, queue, documents, theses, vault, desk, count>>
    BY <1>3 DEF DaysPass
  <2>2. today \in Nat /\ today' \in Nat /\ today <= today'
    BY <2>1, DeskAssumption DEF FitInv
  <2>3. FactsFit(market, regimes, theses, documents, vault, today')
    BY <2>2 DEF FitInv, FactsFit
  <2>4. DeskFits(desk, today', count.requests)
    BY <1>0, <2>2, LaterFits DEF FitInv, DeskFits
  <2>. QED  BY <2>1, <2>2, <2>3, <2>4 DEF FitInv
<1>4. ASSUME NEW a \in Assets, News(a)  PROVE FitInv'
  <2>1. /\ UNCHANGED <<today, regimes, queue, documents, theses, vault, desk>>
        /\ count' = [count EXCEPT !.news = @ + 1]
    BY <1>4 DEF News
  <2>2. market' \in [Assets -> Situations]
    BY <1>4 DEF News, FitInv, FactsFit
  <2>3. FactsFit(market', regimes, theses, documents, vault, today)
    BY <2>2 DEF FitInv, FactsFit
  <2>. QED  BY <1>0, <2>1, <2>3 DEF FitInv
<1>. QED  BY <1>1, <1>2, <1>3, <1>4

LEMMA FitNext ==
    ASSUME Base, ScanInv, ReviewInv, PubInv, FitInv, [Next]_vars
    PROVE  FitInv'
<1>1. CASE UNCHANGED vars \/ ObserveRegime \/ DaysPass \/ \E a \in Assets : News(a)
  BY <1>1, WorldFits
<1>2. ASSUME NEW s \in Sessions, Scan(s)  PROVE FitInv'
  BY <1>2, ScanFits
<1>3. ASSUME NEW s \in Sessions, CommitScan(s)  PROVE FitInv'
  BY <1>3, CommitScanFits
<1>4. ASSUME NEW s \in Sessions,
             \/ \E entry \in DOMAIN queue : Process(s, entry) \/ OpenDismissal(s, entry)
             \/ \E a \in Assets : Research(s, a) \/ OpenReview(s, a)
      PROVE  FitInv'
  BY <1>4, OpenedFits
<1>5. ASSUME NEW s \in Sessions, Publish(s)  PROVE FitInv'
  BY <1>5, PublishFits
<1>6. ASSUME NEW s \in Sessions, Save(s)  PROVE FitInv'
  BY <1>6, SaveFits
<1>7. ASSUME NEW s \in Sessions, Finish(s)  PROVE FitInv'
  BY <1>7, FinishFits
<1>8. ASSUME NEW s \in Sessions, Dismiss(s)  PROVE FitInv'
  BY <1>8, DismissFits
<1>9. ASSUME NEW s \in Sessions, NoteReview(s)  PROVE FitInv'
  BY <1>9, NoteFits
<1>10. ASSUME NEW s \in Sessions, CommitReview(s)  PROVE FitInv'
  BY <1>10, CommitReviewFits
<1>11. ASSUME NEW s \in Sessions, Abort(s)  PROVE FitInv'
  BY <1>11, AbortFits
<1>. QED  BY <1>1, <1>2, <1>3, <1>4, <1>5, <1>6, <1>7, <1>8, <1>9, <1>10, <1>11, Zenon DEF Next

-----------------------------------------------------------------------------
\* What the policy makes of a rating that fits.
LEMMA Judged ==
    ASSUME NEW p, NEW q, NEW x, NEW y, NEW z, NEW w
    PROVE  LET judged == CASE p -> x [] q -> y [] FALSE -> z [] OTHER -> w
           IN  /\ p /\ ~q => judged = x
               /\ ~p /\ q => judged = y
               /\ ~p /\ ~q => judged = w
BY Zenon

Advice(type, m) == Evaluate(type, m, FALSE)

LEMMA Evaluation ==
    ASSUME NEW type, NEW m, type \notin NonEscalating, type \in DOMAIN TriggerFor
    PROVE  LET kind == TriggerFor[type]
           IN  /\ m < Threshold(kind) /\ kind # "thesis_contradiction" =>
                    Advice(type, m) = Trigger(kind, "no_action", None, "medium")
               /\ ~(m < Threshold(kind)) /\ kind = "thesis_contradiction" =>
                    Advice(type, m) = Trigger(kind, "frontier_high", "thesis_review", "high")
               /\ ~(m < Threshold(kind)) /\ kind # "thesis_contradiction" =>
                    Advice(type, m)
                      = Trigger(kind, "frontier", "research_synthesis", "medium")
<1>. DEFINE kind == TriggerFor[type]
            low == m < Threshold(kind)
            judged == CASE low -> Trigger(kind, "no_action", None, "medium")
                        [] kind = "thesis_contradiction" ->
                             Trigger(kind, "frontier_high", "thesis_review", "high")
                        [] FALSE -> Trigger(kind, "frontier_high", "research_synthesis", "high")
                        [] OTHER -> Trigger(kind, "frontier", "research_synthesis", "medium")
<1>1. Advice(type, m) = judged
  BY Zenon DEF Advice, Evaluate
<1>2. /\ low /\ kind # "thesis_contradiction" => judged = Trigger(kind, "no_action", None, "medium")
      /\ ~low /\ kind = "thesis_contradiction" =>
           judged = Trigger(kind, "frontier_high", "thesis_review", "high")
      /\ ~low /\ kind # "thesis_contradiction" =>
           judged = Trigger(kind, "frontier", "research_synthesis", "medium")
  BY Judged, Zenon
<1>. QED  BY <1>1, <1>2, Zenon

LEMMA FitAdvice ==
    ASSUME NEW type \in ChangeTypes, NEW m \in Nat, Fits(type, m)
    PROVE  /\ type = "thesis_violation" => Advice(type, m).outcome = "frontier_high"
           /\ type = "earnings_release" => Advice(type, m).outcome = "frontier"
           /\ type = "regime_change" => (Escalates(Advice(type, m)) <=> m = Full)
           /\ type \in NonEscalating => ~Escalates(Advice(type, m))
<1>. DEFINE kind == TriggerFor[type]
            advice == Advice(type, m)
<1>1. CASE type \in NonEscalating
  <2>1. advice.outcome = "deterministic_only"
    BY <1>1 DEF Advice, Evaluate, Trigger
  <2>2. ~Escalates(advice)
    BY <2>1 DEF Escalates
  <2>. QED  BY <1>1, <2>2 DEF NonEscalating
<1>2. CASE type = "thesis_violation"
  <2>1. kind = "thesis_contradiction" /\ type \notin NonEscalating /\ type \in DOMAIN TriggerFor
    BY <1>2 DEF TriggerFor, NonEscalating
  <2>2. ~(m < Threshold(kind))
    BY <1>2, <2>1, Constants DEF Fits, Threshold
  <2>3. advice = Trigger(kind, "frontier_high", "thesis_review", "high")
    BY <2>1, <2>2, Evaluation, Zenon
  <2>. QED  BY <1>2, <2>1, <2>3 DEF Trigger
<1>3. CASE type = "earnings_release"
  <2>1. kind = "earnings_release" /\ type \notin NonEscalating /\ type \in DOMAIN TriggerFor
        /\ kind # "thesis_contradiction"
    BY <1>3 DEF TriggerFor, NonEscalating
  <2>2. ~(m < Threshold(kind))
    BY <1>3, <2>1, Constants DEF Fits, Threshold, Full
  <2>3. advice = Trigger(kind, "frontier", "research_synthesis", "medium")
    BY <2>1, <2>2, Evaluation, Zenon
  <2>. QED  BY <1>3, <2>1, <2>3 DEF Trigger
<1>4. CASE type = "regime_change"
  <2>1. kind = "regime_shift" /\ type \notin NonEscalating /\ type \in DOMAIN TriggerFor
        /\ kind # "thesis_contradiction"
    BY <1>4 DEF TriggerFor, NonEscalating
  <2>2. (m = Full \/ m = 5000) /\ Threshold(kind) = 6000
    BY <1>4, <2>1, Constants DEF Fits, Threshold
  <2>3. CASE m = Full
    <3>1. ~(m < Threshold(kind))
      BY <2>2, <2>3 DEF Full
    <3>2. advice = Trigger(kind, "frontier", "research_synthesis", "medium")
      BY <2>1, <3>1, Evaluation, Zenon
    <3>3. Escalates(advice)
      BY <3>2 DEF Trigger, Escalates
    <3>. QED  BY <1>4, <2>1, <2>3, <3>3
  <2>4. CASE m # Full
    <3>1. m < Threshold(kind)
      BY <2>2, <2>4
    <3>2. advice = Trigger(kind, "no_action", None, "medium")
      BY <2>1, <3>1, Evaluation, Zenon
    <3>3. ~Escalates(advice)
      BY <3>2 DEF Trigger, Escalates
    <3>. QED  BY <1>4, <2>1, <2>4, <3>3
  <2>. QED  BY <2>3, <2>4
<1>. QED  BY <1>1, <1>2, <1>3, <1>4 DEF ChangeTypes, NonEscalating

LEMMA FitInvAdvises == FitInv => RecommendationsFitTheEvent
<1>. SUFFICES ASSUME FitInv, NEW entry \in DOMAIN queue
              PROVE  LET advice == Recommendation([type |-> entry.type,
                                                   importance |-> queue[entry].importance])
                     IN  CASE entry.type = "thesis_violation" -> advice.outcome = "frontier_high"
                           [] entry.type = "earnings_release" -> advice.outcome = "frontier"
                           [] entry.type = "regime_change" ->
                                 Escalates(advice) <=> queue[entry].importance = Full
                           [] OTHER -> ~Escalates(advice)
  BY DEF RecommendationsFitTheEvent
<1>. DEFINE type == entry.type
            m == queue[entry].importance
            advice == Advice(type, m)
<1>1. type \in ChangeTypes /\ Fits(type, m) /\ m \in 1..Full
  <2>1. RatingFits(type, queue[entry])
    BY DEF FitInv, QueueFits, EntryFits
  <2>2. type \in ChangeTypes /\ Fits(type, m)
    BY <2>1 DEF RatingFits
  <2>. QED  BY <2>2 DEF Fits
<1>2. m \in Nat
  <2>1. \A x \in 1..Full : x \in Nat
    BY FullType
  <2>. HIDE DEF m
  <2>. QED  BY <1>1, <2>1
<1>3. Recommendation([type |-> type, importance |-> m]) = advice
  BY DEF Advice, Recommendation
<1>4. /\ type = "thesis_violation" => advice.outcome = "frontier_high"
      /\ type = "earnings_release" => advice.outcome = "frontier"
      /\ type = "regime_change" => (Escalates(advice) <=> m = Full)
      /\ type \in NonEscalating => ~Escalates(advice)
  <2>. HIDE DEF type, m
  <2>. QED  BY <1>1, <1>2, FitAdvice
<1>5. \/ type = "thesis_violation" \/ type = "earnings_release" \/ type = "regime_change"
      \/ /\ type \in NonEscalating
         /\ type # "thesis_violation" /\ type # "earnings_release" /\ type # "regime_change"
  BY <1>1 DEF ChangeTypes, NonEscalating
<1>6. type = "earnings_release" => type # "thesis_violation"
  OBVIOUS
<1>7. type = "regime_change" => type # "thesis_violation" /\ type # "earnings_release"
  OBVIOUS
<1>. HIDE DEF type, m, advice
<1>. QED  BY <1>3, <1>4, <1>5, <1>6, <1>7, Zenon DEF type, m

-----------------------------------------------------------------------------
DeskInv == Base /\ ScanInv /\ ReviewInv /\ PubInv /\ FitInv

LEMMA DeskInvInit == Init => DeskInv
BY ScanInit, ReviewInit, PubInit, FitInit DEF DeskInv

LEMMA DeskInvNext == DeskInv /\ [Next]_vars => DeskInv'
<1>. SUFFICES ASSUME DeskInv, [Next]_vars  PROVE DeskInv'
  OBVIOUS
<1>0. Base /\ ScanInv /\ ReviewInv /\ PubInv /\ FitInv
  BY DEF DeskInv
<1>1. Base' /\ ScanInv'
  BY <1>0, ScanNext
<1>2. ReviewInv'
  BY <1>0, ReviewNext
<1>3. PubInv'
  BY <1>0, PubNext
<1>4. FitInv'
  BY <1>0, FitNext
<1>. QED  BY <1>1, <1>2, <1>3, <1>4 DEF DeskInv

LEMMA DeskInvTypes == DeskInv => TypeOK
<1>. SUFFICES ASSUME DeskInv  PROVE TypeOK
  OBVIOUS
<1>0. Base /\ ReviewInv /\ PubInv /\ FitInv
  BY DEF DeskInv
<1>1. /\ market \in [Assets -> Situations] /\ DOMAIN vault \subseteq Paths
      /\ Len(regimes) <= 2 /\ \A i \in DOMAIN regimes : regimes[i] \in Regimes
  BY <1>0 DEF FitInv, FactsFit
<1>2. /\ today \in Days
      /\ theses \in [Assets -> [assessment : Assessments \cup {None},
                                reviewed : {Never} \cup Days, noted : BOOLEAN]]
  BY <1>0 DEF ReviewInv, ThesisTypes
<1>3. ASSUME NEW entry \in DOMAIN queue
      PROVE  /\ entry.asset \in Assets /\ entry.type \in ChangeTypes /\ entry.scan < count.requests
             /\ queue[entry].status \in {"pending", "done", "dismissed"}
             /\ queue[entry].importance \in 1..Full /\ queue[entry].score \in 0..Full
  <2>1. EntryFits(entry, queue[entry], count.requests)
    BY <1>0 DEF FitInv, QueueFits
  <2>2. RowShaped(queue[entry])
    BY <1>0 DEF Base
  <2>3. Fits(entry.type, queue[entry].importance)
    BY <2>1 DEF EntryFits, RatingFits
  <2>4. queue[entry].importance \in 1..Full
    BY <2>3 DEF Fits
  <2>5. queue[entry].score \in 0..Full
    BY <2>1 DEF EntryFits, RatingFits, Fractions
  <2>6. entry.asset \in Assets /\ entry.type \in ChangeTypes /\ entry.scan < count.requests
    BY <2>1 DEF EntryFits, RatingFits
  <2>7. queue[entry].status \in {"pending", "done", "dismissed"}
    BY <2>2 DEF RowShaped
  <2>. QED  BY <2>4, <2>5, <2>6, <2>7
<1>4. \A d \in documents : d.id \in 1..count.ids /\ d.path = NotePath(d.asset, d.path[3])
  BY <1>0 DEF PubInv, Filed
<1>5. \A s \in Sessions : desk[s].pc \in {"idle", "scanned", "asked", "written", "saved",
                                        "dismissing", "reviewing", "noted"}
  BY <1>0 DEF Base, Shaped, Idle
<1>. QED  BY <1>1, <1>2, <1>3, <1>4, <1>5, Zenon DEF TypeOK

\* The state is well typed: an entry was inserted by a scan that began, what it was rated
\* is a fraction whatever the detector and the scorer were fed, and notes are where the
\* renderer puts them (change_detection.py, priority.py, research_queue_repository.py).
THEOREM DeskTypes == Spec => []TypeOK
BY DeskInvInit, DeskInvNext, DeskInvTypes, PTL DEF Spec

\* The tier recommended for an entry of the queue is the one its kind of event deserves,
\* however the entry was inserted, refreshed and refreshed again: the thresholds of
\* ai/escalation.py fit the magnitudes of change_detection.py.
THEOREM RecommendationsFit == Spec => []RecommendationsFitTheEvent
<1>1. DeskInv => RecommendationsFitTheEvent
  BY FitInvAdvises DEF DeskInv
<1>. QED  BY <1>1, DeskInvInit, DeskInvNext, PTL DEF Spec
===============================================================================
