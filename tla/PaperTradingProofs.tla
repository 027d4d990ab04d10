-------------------------- MODULE PaperTradingProofs --------------------------
(***************************************************************************)
(* Paper trading, proved for every number of sessions, portfolios, assets, *)
(* prices and quantities.                                                  *)
(*                                                                         *)
(* Base is what holds whatever the sessions do to each other: types, no    *)
(* overdraft of what is stored or was read, and that a session's task      *)
(* names rows that exist.  Exact adds what a fresh session knows: what it  *)
(* read is still what is stored, and the status it was admitted on too.    *)
(***************************************************************************)
EXTENDS PaperTrading, SequenceTheorems, FiniteSetTheorems, TLAPS

USE PaperAssumption

-----------------------------------------------------------------------------
(***************************************************************************)
(* Arithmetic of fills.                                                    *)
(***************************************************************************)
LEMMA DivInt ==
    ASSUME NEW x \in Int, NEW y \in Nat \ {0}
    PROVE  x \div y \in Int /\ (x >= 0 => x \div y >= 0)
OBVIOUS

LEMMA Times ==
    ASSUME NEW x \in Nat, NEW y \in Nat
    PROVE  x * y \in Nat
OBVIOUS

LEMMA RoundedInt ==
    ASSUME NEW a \in Int, NEW b \in Nat \ {0}
    PROVE  Rounded(a, b) \in Int /\ (a >= 0 => Rounded(a, b) >= 0)
<1>. DEFINE x == 2 * a + b  y == 2 * b
<1>1. x \in Int /\ y \in Nat \ {0} /\ (a >= 0 => x >= 0)
  OBVIOUS
<1>2. Rounded(a, b) = x \div y
  BY DEF Rounded
<1>. HIDE DEF x, y
<1>3. x \div y \in Int /\ (x >= 0 => x \div y >= 0)
  BY <1>1, DivInt, Zenon
<1>. QED  BY <1>1, <1>2, <1>3

(***************************************************************************)
(* A fill moves the quantity by what the ledger row says, and the realized *)
(* profit by what the ledger row says.                                     *)
(***************************************************************************)
LEMMA FillFacts ==
    ASSUME NEW st \in PositionState, NEW side \in Sides, NEW q \in Nat, NEW price \in Nat,
           st.quantity >= 0, q > 0, side = "sell" => q <= st.quantity
    PROVE  /\ Fill(st, side, q, price) \in PositionState
           /\ Fill(st, side, q, price).quantity >= 0
           /\ Fill(st, side, q, price).quantity # st.quantity
           /\ Fill(st, side, q, price).quantity = st.quantity + Signed(side, q)
           /\ Fill(st, side, q, price).realized = st.realized + RealizedPnl(st, side, q, price)
           /\ CashDelta(side, q, price) \in Int
           /\ Signed(side, q) \in Int
           /\ RealizedPnl(st, side, q, price) \in Int
           /\ side = "buy" => CashDelta(side, q, price) = -BuyCost(q, price)
           /\ side = "sell" => CashDelta(side, q, price) >= 0
           /\ BuyCost(q, price) \in Nat
<1>1. q * price \in Nat
  BY Times, Zenon
<1>2. st.quantity \in Int /\ st.cost \in Int /\ st.realized \in Int
  BY DEF PositionState
<1>3. q * (price - st.cost) \in Int /\ st.quantity * st.cost \in Int
  BY <1>2
<1>4. CASE side = "buy"
  <2>. DEFINE n == st.quantity * st.cost + q * price  d == st.quantity + q
  <2>1. n \in Int /\ d \in Nat \ {0}
    BY <1>1, <1>2, <1>3
  <2>2. Fill(st, side, q, price) = [quantity |-> d, cost |-> Rounded(n, d), realized |-> st.realized]
    BY <1>4 DEF Fill, ApplyBuy, BuyCost
  <2>. HIDE DEF n
  <2>3. Rounded(n, d) \in Int
    <3>. HIDE DEF d
    <3>. QED  BY <2>1, RoundedInt, Zenon
  <2>. QED  BY <1>1, <1>2, <1>4, <2>1, <2>2, <2>3
            DEF PositionState, CashDelta, Signed, RealizedPnl, BuyCost
<1>5. CASE side = "sell"
  BY <1>1, <1>2, <1>3, <1>5
     DEF Fill, ApplySell, Gain, PositionState, CashDelta, Signed, RealizedPnl, BuyCost
<1>. QED  BY <1>4, <1>5 DEF Sides

LEMMA OverwriteTypes ==
    ASSUME NEW new \in PositionState, NEW read \in PositionState, NEW current \in PositionState
    PROVE  /\ Overwrite(new, read, current) \in PositionState
           /\ read = Absent => Overwrite(new, read, current) = new
           /\ new.quantity # read.quantity => Overwrite(new, read, current).quantity = new.quantity
           /\ current = read => Overwrite(new, read, current) = new
BY DEF Overwrite, PositionState

-----------------------------------------------------------------------------
(***************************************************************************)
(* Sequences of rows: one updated, one appended.                           *)
(***************************************************************************)
LEMMA SeqUpdated ==
    ASSUME NEW S, NEW s \in Seq(S), NEW j \in DOMAIN s, NEW e \in S
    PROVE  /\ [s EXCEPT ![j] = e] \in Seq(S)
           /\ Len([s EXCEPT ![j] = e]) = Len(s)
           /\ DOMAIN [s EXCEPT ![j] = e] = DOMAIN s
           /\ \A i \in DOMAIN s : [s EXCEPT ![j] = e][i] = IF i = j THEN e ELSE s[i]
OBVIOUS

LEMMA SeqAppended ==
    ASSUME NEW S, NEW s \in Seq(S), NEW e \in S
    PROVE  /\ Append(s, e) \in Seq(S)
           /\ Len(Append(s, e)) = Len(s) + 1
           /\ DOMAIN Append(s, e) = DOMAIN s \cup {Len(s) + 1}
           /\ Len(s) + 1 \notin DOMAIN s
           /\ Append(s, e)[Len(s) + 1] = e
           /\ \A i \in DOMAIN s : Append(s, e)[i] = s[i]
OBVIOUS

-----------------------------------------------------------------------------
(***************************************************************************)
(* Base: what every interleaving keeps.                                    *)
(***************************************************************************)
Sound(st) == st = Absent \/ st.quantity >= 0

Stored == \A p \in Portfolios : cash[p] >= 0 /\ \A a \in Assets : Sound(position[p][a])

SeenSound == \A s \in Sessions : seen[s].cash >= 0 /\ \A a \in Assets : Sound(seen[s].position[a])

\* A task names rows that exist; what is being executed was approved once.
TaskOK(t) ==
    /\ t.op = "close" => t.item \in DOMAIN trades
    /\ t.op \in {"execute", "decide"} => t.item \in DOMAIN proposals
    /\ t.op = "execute" => t.item \in approvals
    /\ t.op = "decide" => t.verdict \in {"approved", "rejected", "expired"}

TasksOK == \A s \in Sessions : TaskOK(task[s])

Vetted == \A i \in DOMAIN proposals : proposals[i].status \in {"approved", "executed"} => i \in approvals

Base == TypeOK /\ Stored /\ SeenSound /\ TasksOK /\ Vetted

LEMMA IdleIsTask == Idle \in Tasks
BY DEF Idle, Tasks, Sides

\* The steps that touch no row.
LEMMA StartKeepsBase ==
    ASSUME Base, NEW s \in Sessions, NEW t \in Tasks, NEW at \in Phases, Start(s, t, at),
           TaskOK(t),
           \/ seen' = seen
           \/ \E p \in Portfolios : SawCash(s, p)
    PROVE  Base'
<1>1. /\ task' \in [Sessions -> Tasks] /\ phase' \in [Sessions -> Phases]
      /\ fresh' \in [Sessions -> BOOLEAN]
      /\ \A u \in Sessions : task'[u] = IF u = s THEN t ELSE task[u]
  BY DEF Base, TypeOK, Start
<1>2. /\ seen' \in [Sessions -> [cash : Int, position : [Assets -> PositionState]]]
      /\ SeenSound'
  <2>1. CASE seen' = seen
    BY <2>1 DEF Base, TypeOK, SeenSound, Sound
  <2>2. CASE \E p \in Portfolios : SawCash(s, p)
    <3>1. PICK p \in Portfolios : seen' = [seen EXCEPT ![s].cash = cash[p]]
      BY <2>2 DEF SawCash
    <3>2. cash[p] \in Int /\ cash[p] >= 0
      BY DEF Base, TypeOK, Stored
    <3>3. seen' \in [Sessions -> [cash : Int, position : [Assets -> PositionState]]]
      BY <3>1, <3>2 DEF Base, TypeOK
    <3>4. \A u \in Sessions : /\ seen'[u].position = seen[u].position
                              /\ seen'[u].cash = IF u = s THEN cash[p] ELSE seen[u].cash
      BY <3>1 DEF Base, TypeOK
    <3>. QED  BY <3>2, <3>3, <3>4 DEF Base, SeenSound, Sound
  <2>. QED  BY <2>1, <2>2
<1>3. UNCHANGED <<rows, stale, approvals, fills, sales>>
  BY DEF Start
<1>4. TypeOK'
  BY <1>1, <1>2, <1>3 DEF Base, TypeOK, rows
<1>5. Stored' /\ Vetted'
  BY <1>3 DEF Base, Stored, Vetted, Sound, rows
<1>6. TasksOK'
  BY <1>1, <1>3, Zenon DEF Base, TasksOK, TaskOK, rows
<1>. QED  BY <1>2, <1>4, <1>5, <1>6 DEF Base

LEMMA EndTypes ==
    ASSUME Base, NEW s \in Sessions, End(s)
    PROVE  /\ task' \in [Sessions -> Tasks] /\ phase' \in [Sessions -> Phases]
           /\ \A u \in Sessions : task'[u] = IF u = s THEN Idle ELSE task[u]
           /\ seen' \in [Sessions -> [cash : Int, position : [Assets -> PositionState]]]
           /\ SeenSound'
<1>1. task' \in [Sessions -> Tasks] /\ \A u \in Sessions : task'[u] = IF u = s THEN Idle ELSE task[u]
  BY IdleIsTask, Zenon DEF Base, TypeOK, End
<1>2. phase' \in [Sessions -> Phases]
  BY DEF Base, TypeOK, End, Phases
<1>3. NothingSeen \in [cash : Int, position : [Assets -> PositionState]]
  BY DEF NothingSeen, Absent, Flat, PositionState
<1>4. /\ seen' \in [Sessions -> [cash : Int, position : [Assets -> PositionState]]]
      /\ \A u \in Sessions : seen'[u] = IF u = s THEN NothingSeen ELSE seen[u]
  BY <1>3, Zenon DEF Base, TypeOK, End
<1>5. SeenSound'
  <2>1. NothingSeen.cash >= 0 /\ \A a \in Assets : Sound(NothingSeen.position[a])
    BY DEF NothingSeen, Sound
  <2>. QED  BY <1>4, <2>1 DEF Base, SeenSound, Sound
<1>. QED  BY <1>1, <1>2, <1>4, <1>5

LEMMA TasksKept ==
    ASSUME Base, NEW s \in Sessions, \A u \in Sessions : task'[u] = IF u = s THEN Idle ELSE task[u],
           DOMAIN trades \subseteq DOMAIN trades', DOMAIN proposals \subseteq DOMAIN proposals',
           approvals \subseteq approvals'
    PROVE  TasksOK'
<1>1. SUFFICES ASSUME NEW u \in Sessions PROVE TaskOK(task[u])'
  BY Zenon DEF TasksOK
<1>2. CASE u = s
  <2>1. task'[u] = Idle /\ Idle.op = "idle"
    BY <1>2 DEF Idle
  <2>. QED  BY <2>1, Zenon DEF TaskOK
<1>3. CASE u # s
  <2>1. task'[u] = task[u] /\ TaskOK(task[u])
    BY <1>3, Zenon DEF Base, TasksOK
  <2>. QED  BY <2>1, Zenon DEF TaskOK
<1>. QED  BY <1>2, <1>3

LEMMA RefuseKeepsBase ==
    ASSUME Base, NEW s \in Sessions, Refuse(s)
    PROVE  Base'
<1>1. End(s) /\ UNCHANGED <<rows, fresh, stale, approvals, fills, sales>>
  BY DEF Refuse
<1>2. /\ task' \in [Sessions -> Tasks] /\ phase' \in [Sessions -> Phases]
      /\ \A u \in Sessions : task'[u] = IF u = s THEN Idle ELSE task[u]
      /\ seen' \in [Sessions -> [cash : Int, position : [Assets -> PositionState]]]
      /\ SeenSound'
  BY <1>1, EndTypes, Zenon
<1>3. TypeOK'
  BY <1>1, <1>2 DEF Base, TypeOK, rows
<1>4. Stored' /\ Vetted'
  BY <1>1 DEF Base, Stored, Vetted, Sound, rows
<1>5. TasksOK'
  BY <1>1, <1>2, TasksKept, Zenon DEF rows
<1>. QED  BY <1>2, <1>3, <1>4, <1>5 DEF Base

-----------------------------------------------------------------------------
(***************************************************************************)
(* The steps that start a task keep Base.                                  *)
(***************************************************************************)
LEMMA OpenKeepsBase ==
    ASSUME Base, NEW s \in Sessions, NEW p \in Portfolios, NEW a \in Assets,
           NEW q \in Quantities, NEW price \in Prices, BeginOpen(s, p, a, q, price)
    PROVE  Base'
<1>. DEFINE t == [Idle EXCEPT !.op = "open", !.portfolio = p, !.asset = a, !.side = "buy",
                              !.quantity = q, !.price = price]
<1>1. t \in Tasks /\ t.op = "open"
  BY IdleIsTask DEF Tasks, Sides
<1>2. Start(s, t, "position") /\ SawCash(s, p)
  BY Zenon DEF BeginOpen
<1>3. TaskOK(t) /\ "position" \in Phases
  BY <1>1 DEF TaskOK, Phases
<1>. QED
  <2>. HIDE DEF t
  <2>. QED  BY <1>1, <1>2, <1>3, StartKeepsBase, Zenon

LEMMA CloseKeepsBase ==
    ASSUME Base, NEW s \in Sessions, NEW i \in DOMAIN trades, NEW price \in Prices,
           BeginClose(s, i, price)
    PROVE  Base'
<1>. DEFINE t == [Idle EXCEPT !.op = "close", !.item = i, !.asset = trades[i].asset,
                              !.side = "sell", !.quantity = trades[i].quantity, !.price = price]
<1>1. trades[i] \in Trades /\ i \in Nat
  BY DEF Base, TypeOK
<1>2. t \in Tasks /\ t.op = "close" /\ t.item = i
  BY <1>1, IdleIsTask DEF Tasks, Trades, Sides
<1>3. Start(s, t, "portfolio") /\ seen' = seen
  BY Zenon DEF BeginClose
<1>4. TaskOK(t) /\ "portfolio" \in Phases
  BY <1>2 DEF TaskOK, Phases
<1>. QED
  <2>. HIDE DEF t
  <2>. QED  BY <1>2, <1>3, <1>4, StartKeepsBase, Zenon

LEMMA ExecuteKeepsBase ==
    ASSUME Base, NEW s \in Sessions, NEW i \in DOMAIN proposals, NEW price \in Prices,
           BeginExecute(s, i, price)
    PROVE  Base'
<1>. DEFINE t == [Idle EXCEPT !.op = "execute", !.item = i, !.portfolio = proposals[i].portfolio,
                              !.asset = proposals[i].asset, !.side = proposals[i].side,
                              !.quantity = proposals[i].quantity, !.price = price]
<1>1. proposals[i] \in Proposals /\ i \in Nat
  BY DEF Base, TypeOK
<1>2. t \in Tasks /\ t.op = "execute" /\ t.item = i
  BY <1>1, IdleIsTask DEF Tasks, Proposals, Sides
<1>3. Start(s, t, "portfolio") /\ seen' = seen /\ proposals[i].status = "approved"
  BY Zenon DEF BeginExecute
<1>4. TaskOK(t) /\ "portfolio" \in Phases
  BY <1>2, <1>3 DEF TaskOK, Phases, Base, Vetted
<1>. QED
  <2>. HIDE DEF t
  <2>. QED  BY <1>2, <1>3, <1>4, StartKeepsBase, Zenon

LEMMA DecideKeepsBase ==
    ASSUME Base, NEW s \in Sessions, NEW i \in DOMAIN proposals,
           NEW verdict \in {"approved", "rejected", "expired"}, BeginDecide(s, i, verdict)
    PROVE  Base'
<1>. DEFINE t == [Idle EXCEPT !.op = "decide", !.item = i, !.verdict = verdict]
<1>1. i \in Nat
  BY DEF Base, TypeOK
<1>2. t \in Tasks /\ t.op = "decide" /\ t.item = i /\ t.verdict = verdict
  BY <1>1, IdleIsTask DEF Tasks, Statuses
<1>3. Start(s, t, "commit") /\ seen' = seen
  BY Zenon DEF BeginDecide
<1>4. TaskOK(t) /\ "commit" \in Phases
  BY <1>2 DEF TaskOK, Phases
<1>. QED
  <2>. HIDE DEF t
  <2>. QED  BY <1>2, <1>3, <1>4, StartKeepsBase, Zenon

LEMMA SnapshotKeepsBase ==
    ASSUME Base, NEW s \in Sessions, NEW p \in Portfolios, BeginSnapshot(s, p)
    PROVE  Base'
<1>. DEFINE t == [Idle EXCEPT !.op = "snapshot", !.portfolio = p]
<1>1. t \in Tasks /\ t.op = "snapshot"
  BY IdleIsTask DEF Tasks
<1>2. Start(s, t, "position") /\ SawCash(s, p)
  BY Zenon DEF BeginSnapshot
<1>3. TaskOK(t) /\ "position" \in Phases
  BY <1>1 DEF TaskOK, Phases
<1>. QED
  <2>. HIDE DEF t
  <2>. QED  BY <1>1, <1>2, <1>3, StartKeepsBase, Zenon

(***************************************************************************)
(* A proposal is written with a quantity, never negative, and unapproved.  *)
(***************************************************************************)
LEMMA DraftTypes ==
    ASSUME NEW p \in Portfolios, NEW a \in Assets, NEW category \in Categories,
           NEW price \in Prices, NEW held \in Int, NEW balance \in Int,
           NEW draft \in Drafts(p, a, category, price, held, balance)
    PROVE  draft \in Proposals /\ draft.status = "pending_approval"
<1>. DEFINE budget == IF InitialCash <= 20 * balance THEN InitialCash ELSE 20 * balance
<1>1. budget \in Int /\ 20 * price \in Nat \ {0}
  OBVIOUS
<1>2. /\ Rounded(budget, 20 * price) \in Int
      /\ budget >= 0 => Rounded(budget, 20 * price) >= 0
  <2>. HIDE DEF budget
  <2>. DEFINE b == 20 * price
  <2>1. b \in Nat \ {0}
    BY <1>1
  <2>. HIDE DEF b
  <2>2. Rounded(budget, b) \in Int /\ (budget >= 0 => Rounded(budget, b) >= 0)
    BY <1>1, <2>1, RoundedInt, Zenon
  <2>. QED  BY <2>2 DEF b
<1>3. Rounded(held, 4) \in Int /\ (held >= 0 => Rounded(held, 4) >= 0)
  <2>1. 4 \in Nat \ {0}
    OBVIOUS
  <2>. QED  BY <2>1, RoundedInt, Zenon
<1>4. \E side \in Sides, n \in Nat : draft = Suggestion(p, a, side, n)
  <2>1. CASE category = "ACCUMULATE"
    <3>1. budget > 0 /\ draft = Suggestion(p, a, "buy", Rounded(budget, 20 * price))
      BY <2>1 DEF Drafts
    <3>. QED  BY <1>1, <1>2, <3>1 DEF Sides
  <2>2. CASE category = "REDUCE"
    <3>1. held > 0 /\ draft = Suggestion(p, a, "sell", Rounded(held, 4))
      BY <2>2 DEF Drafts
    <3>. QED  BY <1>3, <3>1 DEF Sides
  <2>3. CASE category = "EXIT_REVIEW"
    <3>1. held > 0 /\ draft = Suggestion(p, a, "sell", held)
      BY <2>3 DEF Drafts
    <3>. QED  BY <3>1 DEF Sides
  <2>. QED  BY <2>1, <2>2, <2>3 DEF Categories
<1>. QED  BY <1>4 DEF Suggestion, Proposals, Statuses

LEMMA ProposeKeepsBase ==
    ASSUME Base, NEW s \in Sessions, NEW p \in Portfolios, NEW a \in Assets,
           NEW category \in Categories, NEW price \in Prices, Propose(s, p, a, category, price)
    PROVE  Base'
<1>1. StateOf(position[p][a]).quantity \in Int /\ cash[p] \in Int
  BY DEF Base, TypeOK, StateOf, Flat, PositionState
<1>2. PICK draft \in Proposals :
        proposals' = Append(proposals, draft) /\ draft.status = "pending_approval"
  <2>1. PICK draft \in Drafts(p, a, category, price, StateOf(position[p][a]).quantity, cash[p]) :
          proposals' = Append(proposals, draft)
    BY Zenon DEF Propose
  <2>. QED  BY <1>1, <2>1, DraftTypes, Zenon
<1>3. /\ fills' = Append(fills, 0)
      /\ UNCHANGED <<portfolios, cash, position, ledger, trades, snapshot,
                     task, phase, seen, fresh, stale, approvals, sales>>
  BY Zenon DEF Propose
<1>4. proposals \in Seq(Proposals) /\ fills \in Seq(Nat) /\ Len(fills) = Len(proposals) /\ 0 \in Nat
  BY DEF Base, TypeOK
<1>5. /\ proposals' \in Seq(Proposals)
      /\ Len(proposals') = Len(proposals) + 1
      /\ DOMAIN proposals' = DOMAIN proposals \cup {Len(proposals) + 1}
      /\ Len(proposals) + 1 \notin DOMAIN proposals
      /\ proposals'[Len(proposals) + 1] = draft
      /\ \A i \in DOMAIN proposals : proposals'[i] = proposals[i]
  <2>1. /\ Append(proposals, draft) \in Seq(Proposals)
        /\ Len(Append(proposals, draft)) = Len(proposals) + 1
        /\ DOMAIN Append(proposals, draft) = DOMAIN proposals \cup {Len(proposals) + 1}
        /\ Len(proposals) + 1 \notin DOMAIN proposals
        /\ Append(proposals, draft)[Len(proposals) + 1] = draft
        /\ \A i \in DOMAIN proposals : Append(proposals, draft)[i] = proposals[i]
    BY <1>4, SeqAppended
  <2>. QED  BY <1>2, <2>1, Zenon
<1>6. fills' \in Seq(Nat) /\ Len(fills') = Len(fills) + 1
  BY <1>3, <1>4, SeqAppended, Zenon
<1>7. TypeOK'
  BY <1>3, <1>4, <1>5, <1>6, Zenon DEF Base, TypeOK
<1>8. Stored' /\ SeenSound'
  BY <1>3 DEF Base, Stored, SeenSound, Sound
<1>9. TasksOK'
  BY <1>3, <1>5, Zenon DEF Base, TasksOK, TaskOK
<1>10. Vetted'
  BY <1>2, <1>3, <1>5 DEF Base, Vetted
<1>. QED  BY <1>7, <1>8, <1>9, <1>10 DEF Base

(***************************************************************************)
(* Reads keep Base.                                                        *)
(***************************************************************************)
LEMMA ReadPortfolioKeepsBase ==
    ASSUME Base, NEW s \in Sessions, NEW p \in Portfolios, ReadPortfolio(s, p)
    PROVE  Base'
<1>1. /\ task' = [task EXCEPT ![s].portfolio = p]
      /\ seen' = [seen EXCEPT ![s].cash = cash[p]]
      /\ phase' = [phase EXCEPT ![s] = "position"]
      /\ UNCHANGED <<rows, fresh, stale, approvals, fills, sales>>
  BY Zenon DEF ReadPortfolio, SawCash
<1>2. cash[p] \in Int /\ cash[p] >= 0
  BY DEF Base, TypeOK, Stored
<1>3. seen' \in [Sessions -> [cash : Int, position : [Assets -> PositionState]]]
  BY <1>1, <1>2 DEF Base, TypeOK
<1>4. \A u \in Sessions : /\ seen'[u].position = seen[u].position
                          /\ seen'[u].cash = IF u = s THEN cash[p] ELSE seen[u].cash
  BY <1>1 DEF Base, TypeOK
<1>5. SeenSound'
  BY <1>2, <1>4 DEF Base, SeenSound, Sound
<1>6. /\ task' \in [Sessions -> Tasks]
      /\ \A u \in Sessions : /\ task'[u].op = task[u].op /\ task'[u].item = task[u].item
                            /\ task'[u].verdict = task[u].verdict
  <2>. DEFINE t == [task[s] EXCEPT !.portfolio = p]
  <2>1. task \in [Sessions -> Tasks] /\ task[s] \in Tasks
    BY DEF Base, TypeOK
  <2>2. t \in Tasks /\ t.op = task[s].op /\ t.item = task[s].item /\ t.verdict = task[s].verdict
    BY <2>1 DEF Tasks
  <2>3. task' = [task EXCEPT ![s] = t]
    BY <1>1, Zenon
  <2>. HIDE DEF t
  <2>4. task' \in [Sessions -> Tasks] /\ \A u \in Sessions : task'[u] = IF u = s THEN t ELSE task[u]
    BY <2>1, <2>2, <2>3, Zenon
  <2>. QED  BY <2>2, <2>4
<1>7. phase' \in [Sessions -> Phases]
  BY <1>1 DEF Base, TypeOK, Phases
<1>8. TypeOK'
  BY <1>1, <1>3, <1>6, <1>7 DEF Base, TypeOK, rows
<1>9. Stored' /\ Vetted'
  BY <1>1 DEF Base, Stored, Vetted, Sound, rows
<1>10. TasksOK'
  BY <1>1, <1>6 DEF Base, TasksOK, TaskOK, rows
<1>. QED  BY <1>5, <1>8, <1>9, <1>10 DEF Base

LEMMA ReadPositionKeepsBase ==
    ASSUME Base, NEW s \in Sessions, ReadPosition(s)
    PROVE  Base'
<1>. DEFINE p == task[s].portfolio
<1>1. /\ seen' = [seen EXCEPT ![s].position = position[p]]
      /\ phase' = [phase EXCEPT ![s] = "commit"]
      /\ UNCHANGED <<rows, task, fresh, stale, approvals, fills, sales>>
  BY DEF ReadPosition
<1>2. p \in Portfolios
  BY DEF Base, TypeOK, Tasks
<1>. HIDE DEF p
<1>3. position[p] \in [Assets -> PositionState] /\ \A a \in Assets : Sound(position[p][a])
  BY <1>2 DEF Base, TypeOK, Stored
<1>4. seen' \in [Sessions -> [cash : Int, position : [Assets -> PositionState]]]
  BY <1>1, <1>3 DEF Base, TypeOK
<1>5. \A u \in Sessions : /\ seen'[u].cash = seen[u].cash
                          /\ seen'[u].position = IF u = s THEN position[p] ELSE seen[u].position
  BY <1>1 DEF Base, TypeOK
<1>6. SeenSound'
  BY <1>3, <1>5 DEF Base, SeenSound, Sound
<1>7. phase' \in [Sessions -> Phases]
  BY <1>1 DEF Base, TypeOK, Phases
<1>8. TypeOK'
  BY <1>1, <1>4, <1>7 DEF Base, TypeOK, rows
<1>9. Stored' /\ Vetted' /\ TasksOK'
  BY <1>1 DEF Base, Stored, Vetted, Sound, TasksOK, TaskOK, rows
<1>. QED  BY <1>6, <1>8, <1>9 DEF Base

-----------------------------------------------------------------------------
(***************************************************************************)
(* What a session fills, as read and as written.                           *)
(***************************************************************************)
Delta(s) == CashDelta(task[s].side, task[s].quantity, task[s].price)

Profit(s) == RealizedPnl(StateOf(Read(s)), task[s].side, task[s].quantity, task[s].price)

NewState(s) == Fill(StateOf(Read(s)), task[s].side, task[s].quantity, task[s].price)

LEMMA TaskTypes ==
    ASSUME Base, NEW s \in Sessions
    PROVE  /\ task[s] \in Tasks
           /\ task[s].portfolio \in Portfolios /\ task[s].asset \in Assets
           /\ task[s].side \in Sides /\ task[s].quantity \in Nat /\ task[s].price \in Nat
           /\ task[s].verdict \in Statuses \cup {None} /\ task[s].item \in Nat
<1>1. task[s] \in Tasks
  BY DEF Base, TypeOK
<1>. QED  BY <1>1 DEF Tasks

LEMMA ReadTypes ==
    ASSUME Base, NEW s \in Sessions
    PROVE  /\ seen[s].cash \in Int /\ seen[s].cash >= 0
           /\ Read(s) \in PositionState
           /\ StateOf(Read(s)) \in PositionState /\ StateOf(Read(s)).quantity >= 0
           /\ Read(s) # Absent => StateOf(Read(s)) = Read(s)
           /\ Read(s) = Absent => StateOf(Read(s)) = Flat
<1>1. task[s].asset \in Assets
  BY TaskTypes
<1>2. seen[s] \in [cash : Int, position : [Assets -> PositionState]]
  BY DEF Base, TypeOK
<1>3. Read(s) \in PositionState /\ seen[s].cash \in Int
  BY <1>1, <1>2 DEF Read
<1>4. seen[s].cash >= 0 /\ Sound(Read(s))
  BY <1>1 DEF Base, SeenSound, Read
<1>5. Flat \in PositionState /\ Flat.quantity = 0
  BY DEF Flat, PositionState
<1>. QED  BY <1>3, <1>4, <1>5 DEF Sound, StateOf

LEMMA FillEffect ==
    ASSUME Base, NEW s \in Sessions, Fillable(s)
    PROVE  /\ NewState(s) \in PositionState /\ NewState(s).quantity >= 0
           /\ NewState(s).quantity # Read(s).quantity
           /\ NewState(s).quantity = StateOf(Read(s)).quantity + Signed(task[s].side, task[s].quantity)
           /\ NewState(s).realized = StateOf(Read(s)).realized + Profit(s)
           /\ Delta(s) \in Int /\ seen[s].cash + Delta(s) >= 0
           /\ Profit(s) \in Int /\ Signed(task[s].side, task[s].quantity) \in Int
<1>1. /\ task[s].side \in Sides /\ task[s].quantity \in Nat /\ task[s].price \in Nat
  BY TaskTypes
<1>2. /\ StateOf(Read(s)) \in PositionState /\ StateOf(Read(s)).quantity >= 0
      /\ seen[s].cash \in Int /\ seen[s].cash >= 0
      /\ Read(s) # Absent => StateOf(Read(s)) = Read(s)
  BY ReadTypes
<1>3. /\ task[s].quantity > 0
      /\ task[s].side = "buy" => BuyCost(task[s].quantity, task[s].price) <= seen[s].cash
      /\ task[s].side = "sell" => task[s].quantity <= StateOf(Read(s)).quantity
  BY DEF Fillable
<1>4. /\ NewState(s) \in PositionState
      /\ NewState(s).quantity >= 0
      /\ NewState(s).quantity # StateOf(Read(s)).quantity
      /\ NewState(s).quantity = StateOf(Read(s)).quantity + Signed(task[s].side, task[s].quantity)
      /\ NewState(s).realized = StateOf(Read(s)).realized + Profit(s)
      /\ Delta(s) \in Int
      /\ Signed(task[s].side, task[s].quantity) \in Int
      /\ Profit(s) \in Int
      /\ task[s].side = "buy" => Delta(s) = -BuyCost(task[s].quantity, task[s].price)
      /\ task[s].side = "sell" => Delta(s) >= 0
      /\ BuyCost(task[s].quantity, task[s].price) \in Nat
  BY <1>1, <1>2, <1>3, FillFacts, Zenon DEF NewState, Delta, Profit
<1>5. NewState(s).quantity # Read(s).quantity
  BY <1>2, <1>4 DEF Absent, Flat
<1>. QED  BY <1>1, <1>2, <1>3, <1>4, <1>5 DEF Sides

(***************************************************************************)
(* The rows after a fill.                                                  *)
(***************************************************************************)
LEMMA FilledRows ==
    ASSUME Base, NEW s \in Sessions, Fillable(s), RecordFill(s),
           NEW p \in Portfolios, p = task[s].portfolio, NEW a \in Assets, a = task[s].asset,
           NEW row \in PositionState, row = Overwrite(NewState(s), Read(s), position[p][a])
    PROVE  /\ cash' \in [Portfolios -> Int]
           /\ position' \in [Portfolios -> [Assets -> PositionState]]
           /\ ledger' \in [Portfolios -> [cash : Int, quantity : [Assets -> Int],
                                          realized : [Assets -> Int]]]
           /\ \A r \in Portfolios : cash'[r] = IF r = p THEN seen[s].cash + Delta(s) ELSE cash[r]
           /\ \A r \in Portfolios, b \in Assets :
                position'[r][b] = IF r = p /\ b = a THEN row ELSE position[r][b]
           /\ \A r \in Portfolios :
                ledger'[r].cash = IF r = p THEN ledger[p].cash + Delta(s) ELSE ledger[r].cash
           /\ \A r \in Portfolios, b \in Assets :
                /\ ledger'[r].quantity[b] =
                     IF r = p /\ b = a
                     THEN ledger[p].quantity[a] + Signed(task[s].side, task[s].quantity)
                     ELSE ledger[r].quantity[b]
                /\ ledger'[r].realized[b] =
                     IF r = p /\ b = a THEN ledger[p].realized[a] + Profit(s)
                                     ELSE ledger[r].realized[b]
<1>. DEFINE q == Signed(task[s].side, task[s].quantity)  d == Delta(s)  gain == Profit(s)
<1>1. q \in Int /\ d \in Int /\ gain \in Int /\ seen[s].cash + d \in Int
  BY FillEffect, ReadTypes
<1>2. /\ cash' = [cash EXCEPT ![p] = seen[s].cash + d]
      /\ position' = [position EXCEPT ![p][a] = row]
      /\ ledger' = [ledger EXCEPT ![p] = Entered(ledger[p], a, d, q, gain)]
  BY DEF RecordFill, Delta, Profit, NewState
<1>3. /\ cash \in [Portfolios -> Int]
      /\ position \in [Portfolios -> [Assets -> PositionState]]
      /\ ledger \in [Portfolios -> [cash : Int, quantity : [Assets -> Int],
                                    realized : [Assets -> Int]]]
  BY DEF Base, TypeOK
<1>. HIDE DEF q, d, gain
<1>4. /\ cash' \in [Portfolios -> Int]
      /\ \A r \in Portfolios : cash'[r] = IF r = p THEN seen[s].cash + d ELSE cash[r]
  BY <1>1, <1>2, <1>3
<1>5. /\ position' \in [Portfolios -> [Assets -> PositionState]]
      /\ \A r \in Portfolios, b \in Assets :
                position'[r][b] = IF r = p /\ b = a THEN row ELSE position[r][b]
  BY <1>2, <1>3
<1>6. /\ ledger' \in [Portfolios -> [cash : Int, quantity : [Assets -> Int],
                                     realized : [Assets -> Int]]]
      /\ \A r \in Portfolios :
           ledger'[r].cash = IF r = p THEN ledger[p].cash + d ELSE ledger[r].cash
      /\ \A r \in Portfolios, b \in Assets :
           /\ ledger'[r].quantity[b] = IF r = p /\ b = a THEN ledger[p].quantity[a] + q
                                                        ELSE ledger[r].quantity[b]
           /\ ledger'[r].realized[b] = IF r = p /\ b = a THEN ledger[p].realized[a] + gain
                                                        ELSE ledger[r].realized[b]
  <2>. DEFINE L == ledger[p]
              Sums == [cash : Int, quantity : [Assets -> Int], realized : [Assets -> Int]]
              entry == Entered(L, a, d, q, gain)
  <2>1. L \in Sums
    BY <1>3
  <2>2. /\ entry \in Sums /\ entry.cash = L.cash + d
        /\ \A b \in Assets :
             /\ entry.quantity[b] = IF b = a THEN L.quantity[a] + q ELSE L.quantity[b]
             /\ entry.realized[b] = IF b = a THEN L.realized[a] + gain ELSE L.realized[b]
    <3>. DEFINE newCash == L.cash + d
                newQuantity == [L.quantity EXCEPT ![a] = @ + q]
                newRealized == [L.realized EXCEPT ![a] = @ + gain]
    <3>1. L.cash \in Int /\ L.quantity \in [Assets -> Int] /\ L.realized \in [Assets -> Int]
      BY <2>1
    <3>. HIDE DEF L
    <3>2. newCash \in Int
      BY <1>1, <3>1
    <3>3. /\ newQuantity \in [Assets -> Int]
          /\ \A b \in Assets : newQuantity[b] = IF b = a THEN L.quantity[a] + q ELSE L.quantity[b]
      BY <1>1, <3>1
    <3>4. /\ newRealized \in [Assets -> Int]
          /\ \A b \in Assets :
               newRealized[b] = IF b = a THEN L.realized[a] + gain ELSE L.realized[b]
      BY <1>1, <3>1
    <3>5. entry = [cash |-> newCash, quantity |-> newQuantity, realized |-> newRealized]
      BY DEF Entered
    <3>6. newCash = L.cash + d
      OBVIOUS
    <3>. HIDE DEF newCash, newQuantity, newRealized, entry
    <3>. QED  BY <3>2, <3>3, <3>4, <3>5, <3>6
  <2>3. ledger' = [ledger EXCEPT ![p] = entry]
    BY <1>2
  <2>. HIDE DEF entry
  <2>4. ledger' \in [Portfolios -> Sums]
    <3>. HIDE DEF Sums
    <3>1. ledger \in [Portfolios -> Sums]
      BY <1>3 DEF Sums
    <3>. QED  BY <2>2, <2>3, <3>1, Zenon
  <2>5. \A r \in Portfolios : ledger'[r] = IF r = p THEN entry ELSE ledger[r]
    BY <1>3, <2>3, Zenon
  <2>. QED  BY <2>2, <2>4, <2>5, ZenonT(30)
<1>. QED  BY <1>4, <1>5, <1>6 DEF q, d, gain

LEMMA RowWritten ==
    ASSUME Base, NEW s \in Sessions, Fillable(s),
           NEW p \in Portfolios, NEW a \in Assets
    PROVE  /\ Overwrite(NewState(s), Read(s), position[p][a]) \in PositionState
           /\ Overwrite(NewState(s), Read(s), position[p][a]).quantity = NewState(s).quantity
           /\ position[p][a] = Read(s) =>
                Overwrite(NewState(s), Read(s), position[p][a]) = NewState(s)
<1>1. position[p][a] \in PositionState
  BY DEF Base, TypeOK
<1>2. Read(s) \in PositionState
  BY ReadTypes
<1>3. NewState(s) \in PositionState /\ NewState(s).quantity # Read(s).quantity
  BY FillEffect
<1>. QED  BY <1>1, <1>2, <1>3, OverwriteTypes

LEMMA FillKeepsStored ==
    ASSUME Base, NEW s \in Sessions, Fillable(s), RecordFill(s)
    PROVE  /\ cash' \in [Portfolios -> Int]
           /\ position' \in [Portfolios -> [Assets -> PositionState]]
           /\ ledger' \in [Portfolios -> [cash : Int, quantity : [Assets -> Int],
                                          realized : [Assets -> Int]]]
           /\ Stored'
<1>. DEFINE p == task[s].portfolio  a == task[s].asset
            row == Overwrite(NewState(s), Read(s), position[p][a])
<1>1. p \in Portfolios /\ a \in Assets
  BY TaskTypes
<1>2. row \in PositionState /\ row.quantity = NewState(s).quantity
  BY <1>1, RowWritten
<1>3. row.quantity >= 0 /\ seen[s].cash + Delta(s) >= 0
  BY <1>2, FillEffect
<1>4. /\ cash' \in [Portfolios -> Int]
      /\ position' \in [Portfolios -> [Assets -> PositionState]]
      /\ ledger' \in [Portfolios -> [cash : Int, quantity : [Assets -> Int],
                                     realized : [Assets -> Int]]]
      /\ \A r \in Portfolios : cash'[r] = IF r = p THEN seen[s].cash + Delta(s) ELSE cash[r]
      /\ \A r \in Portfolios, b \in Assets :
           position'[r][b] = IF r = p /\ b = a THEN row ELSE position[r][b]
  BY <1>1, <1>2, FilledRows
<1>. HIDE DEF p, a, row
<1>5. Stored'
  <2>1. \A r \in Portfolios : cash[r] >= 0 /\ \A b \in Assets : Sound(position[r][b])
    BY DEF Base, Stored
  <2>2. Sound(row)
    BY <1>3 DEF Sound
  <2>3. ASSUME NEW r \in Portfolios
        PROVE  cash'[r] >= 0 /\ \A b \in Assets : Sound(position'[r][b])
    BY <1>3, <1>4, <2>1, <2>2
  <2>. QED  BY <2>3 DEF Stored, Sound
<1>. QED  BY <1>4, <1>5

-----------------------------------------------------------------------------
(***************************************************************************)
(* Commits keep Base.                                                      *)
(***************************************************************************)
LEMMA CommittedTypes ==
    ASSUME Base, NEW s \in Sessions, Committed(s)
    PROVE  /\ task' \in [Sessions -> Tasks] /\ phase' \in [Sessions -> Phases]
           /\ \A u \in Sessions : task'[u] = IF u = s THEN Idle ELSE task[u]
           /\ seen' \in [Sessions -> [cash : Int, position : [Assets -> PositionState]]]
           /\ SeenSound'
           /\ fresh' \in [Sessions -> BOOLEAN] /\ stale' \in BOOLEAN
<1>1. End(s) /\ fresh' = [t \in Sessions |-> t = s] /\ stale' = (stale \/ ~fresh[s])
  BY DEF Committed
<1>2. fresh' \in [Sessions -> BOOLEAN] /\ stale' \in BOOLEAN
  BY <1>1, Zenon
<1>. QED  BY <1>1, <1>2, EndTypes, Zenon

LEMMA OpenCommitKeepsBase ==
    ASSUME Base, NEW s \in Sessions, CommitOpen(s)
    PROVE  Base'
<1>. DEFINE trade == [asset |-> task[s].asset, quantity |-> task[s].quantity, status |-> "open"]
<1>0. /\ Fillable(s) /\ RecordFill(s) /\ trades' = Append(trades, trade)
      /\ sales' = Append(sales, 0) /\ Committed(s)
      /\ UNCHANGED <<portfolios, proposals, snapshot, approvals, fills>>
  BY Zenon DEF CommitOpen, Committing
<1>1. trade \in Trades
  BY TaskTypes DEF Trades
<1>. HIDE DEF trade
<1>2. /\ trades \in Seq(Trades) /\ sales \in Seq(Nat) /\ Len(sales) = Len(trades) /\ 0 \in Nat
  BY DEF Base, TypeOK
<1>3. /\ Append(trades, trade) \in Seq(Trades)
      /\ Len(Append(trades, trade)) = Len(trades) + 1
      /\ DOMAIN trades \subseteq DOMAIN Append(trades, trade)
  BY <1>1, <1>2, SeqAppended
<1>4. Append(sales, 0) \in Seq(Nat) /\ Len(Append(sales, 0)) = Len(sales) + 1
  BY <1>2, SeqAppended, Zenon
<1>5. TypeOK' /\ Stored' /\ SeenSound'
  BY <1>0, <1>2, <1>3, <1>4, CommittedTypes, FillKeepsStored, Zenon DEF Base, TypeOK
<1>6. TasksOK'
  BY <1>0, <1>3, CommittedTypes, TasksKept, Zenon
<1>7. Vetted'
  BY <1>0, Zenon DEF Base, Vetted
<1>. QED  BY <1>5, <1>6, <1>7 DEF Base

LEMMA CloseCommitKeepsBase ==
    ASSUME Base, NEW s \in Sessions, CommitClose(s)
    PROVE  Base'
<1>. DEFINE i == task[s].item
<1>0. /\ Fillable(s) /\ RecordFill(s)
      /\ trades' = [trades EXCEPT ![i].status = "closed"]
      /\ sales' = [sales EXCEPT ![i] = @ + 1] /\ Committed(s)
      /\ UNCHANGED <<portfolios, proposals, snapshot, approvals, fills>>
  BY Zenon DEF CommitClose, Committing
<1>. DEFINE trade == [trades[i] EXCEPT !.status = "closed"]
<1>1. i \in DOMAIN trades
  BY Zenon DEF Base, TasksOK, TaskOK, CommitClose, Committing
<1>2. trades \in Seq(Trades) /\ sales \in Seq(Nat) /\ Len(sales) = Len(trades)
  BY DEF Base, TypeOK
<1>3. i \in DOMAIN sales /\ trades[i] \in Trades /\ sales[i] \in Nat
  <2>. DEFINE S == Trades
  <2>1. trades \in Seq(S)
    BY <1>2
  <2>. HIDE DEF S, i
  <2>2. i \in DOMAIN sales /\ trades[i] \in S /\ sales[i] \in Nat
    BY <1>1, <1>2, <2>1
  <2>. QED  BY <2>2 DEF S
<1>4. trade \in Trades /\ sales[i] + 1 \in Nat
  BY <1>3 DEF Trades
<1>5. trades' = [trades EXCEPT ![i] = trade] /\ sales' = [sales EXCEPT ![i] = sales[i] + 1]
  BY <1>0, Zenon
<1>. HIDE DEF trade, i
<1>6. /\ trades' \in Seq(Trades) /\ Len(trades') = Len(trades) /\ DOMAIN trades' = DOMAIN trades
  BY <1>1, <1>2, <1>4, <1>5, SeqUpdated, Zenon
<1>7. sales' \in Seq(Nat) /\ Len(sales') = Len(sales)
  <2>. DEFINE n == sales[i] + 1
  <2>1. n \in Nat /\ sales' = [sales EXCEPT ![i] = n]
    BY <1>4, <1>5
  <2>. HIDE DEF n
  <2>. QED  BY <1>2, <1>3, <2>1, SeqUpdated
<1>8. TypeOK' /\ Stored' /\ SeenSound'
  BY <1>0, <1>2, <1>6, <1>7, CommittedTypes, FillKeepsStored, Zenon DEF Base, TypeOK
<1>9. TasksOK'
  BY <1>0, <1>6, CommittedTypes, TasksKept, Zenon
<1>10. Vetted'
  BY <1>0, Zenon DEF Base, Vetted
<1>. QED  BY <1>8, <1>9, <1>10 DEF Base

\* A proposal's status is updated.
LEMMA StatusUpdated ==
    ASSUME Base, NEW i \in DOMAIN proposals, NEW status \in Statuses,
           proposals' = [proposals EXCEPT ![i].status = status]
    PROVE  /\ proposals' \in Seq(Proposals) /\ Len(proposals') = Len(proposals)
           /\ DOMAIN proposals' = DOMAIN proposals
           /\ \A j \in DOMAIN proposals :
                proposals'[j].status = IF j = i THEN status ELSE proposals[j].status
<1>. DEFINE new == [proposals[i] EXCEPT !.status = status]
<1>1. proposals \in Seq(Proposals)
  BY DEF Base, TypeOK
<1>2. proposals[i] \in Proposals
  <2>. DEFINE S == Proposals
  <2>1. proposals \in Seq(S)
    BY <1>1
  <2>. HIDE DEF S
  <2>2. proposals[i] \in S
    BY <2>1
  <2>. QED  BY <2>2 DEF S
<1>3. new \in Proposals /\ new.status = status
  BY <1>2 DEF Proposals
<1>4. proposals' = [proposals EXCEPT ![i] = new]
  BY Zenon
<1>. HIDE DEF new
<1>5. /\ proposals' \in Seq(Proposals) /\ Len(proposals') = Len(proposals)
      /\ DOMAIN proposals' = DOMAIN proposals
      /\ \A j \in DOMAIN proposals : proposals'[j] = IF j = i THEN new ELSE proposals[j]
  BY <1>1, <1>3, <1>4, SeqUpdated
<1>6. ASSUME NEW j \in DOMAIN proposals
      PROVE  proposals'[j].status = IF j = i THEN status ELSE proposals[j].status
  <2>1. proposals'[j] = IF j = i THEN new ELSE proposals[j]
    BY <1>5
  <2>2. CASE j = i
    BY <2>1, <2>2, <1>3
  <2>3. CASE j # i
    BY <2>1, <2>3
  <2>. QED  BY <2>2, <2>3
<1>. QED  BY <1>5, <1>6

LEMMA ExecuteCommitKeepsBase ==
    ASSUME Base, NEW s \in Sessions, CommitExecute(s)
    PROVE  Base'
<1>. DEFINE i == task[s].item
<1>0. /\ Fillable(s) /\ RecordFill(s)
      /\ proposals' = [proposals EXCEPT ![i].status = "executed"]
      /\ fills' = [fills EXCEPT ![i] = @ + 1] /\ Committed(s)
      /\ UNCHANGED <<portfolios, trades, snapshot, approvals, sales>>
  BY Zenon DEF CommitExecute, Committing
<1>1. i \in DOMAIN proposals /\ i \in approvals
  BY Zenon DEF Base, TasksOK, TaskOK, CommitExecute, Committing
<1>. HIDE DEF i
<1>2. /\ proposals' \in Seq(Proposals) /\ Len(proposals') = Len(proposals)
      /\ DOMAIN proposals' = DOMAIN proposals
      /\ \A j \in DOMAIN proposals :
           proposals'[j].status = IF j = i THEN "executed" ELSE proposals[j].status
  <2>1. "executed" \in Statuses
    BY DEF Statuses
  <2>. QED  BY <1>0, <1>1, <2>1, StatusUpdated, Zenon
<1>3. /\ fills \in Seq(Nat) /\ Len(fills) = Len(proposals)
      /\ proposals \in Seq(Proposals) /\ approvals \subseteq DOMAIN proposals
  BY DEF Base, TypeOK
<1>4. i \in DOMAIN fills /\ fills[i] \in Nat
  <2>. DEFINE S == Proposals
  <2>1. proposals \in Seq(S)
    BY <1>3
  <2>. HIDE DEF S
  <2>. QED  BY <1>1, <1>3, <2>1
<1>5. fills[i] + 1 \in Nat /\ fills' = [fills EXCEPT ![i] = fills[i] + 1]
  BY <1>0, <1>4
<1>6. fills' \in Seq(Nat) /\ Len(fills') = Len(fills)
  <2>. DEFINE n == fills[i] + 1
  <2>1. n \in Nat /\ fills' = [fills EXCEPT ![i] = n]
    BY <1>5
  <2>. HIDE DEF n
  <2>. QED  BY <1>3, <1>4, <2>1, SeqUpdated
<1>7. TypeOK' /\ Stored' /\ SeenSound'
  BY <1>0, <1>2, <1>3, <1>6, CommittedTypes, FillKeepsStored, Zenon DEF Base, TypeOK
<1>8. TasksOK'
  BY <1>0, <1>2, CommittedTypes, TasksKept, Zenon
<1>9. Vetted'
  BY <1>0, <1>1, <1>2 DEF Base, Vetted
<1>. QED  BY <1>7, <1>8, <1>9 DEF Base

LEMMA DecisionKeepsBase ==
    ASSUME Base, NEW s \in Sessions, CommitDecision(s)
    PROVE  Base'
<1>. DEFINE i == task[s].item  verdict == task[s].verdict
<1>1. /\ proposals' = [proposals EXCEPT ![i].status = verdict]
      /\ approvals' = IF verdict = "approved" THEN approvals \cup {i} ELSE approvals
      /\ Committed(s)
      /\ UNCHANGED <<portfolios, cash, position, ledger, trades, snapshot, fills, sales>>
  BY DEF CommitDecision
<1>2. i \in DOMAIN proposals /\ verdict \in {"approved", "rejected", "expired"}
  BY Zenon DEF Base, TasksOK, TaskOK, CommitDecision, Committing
<1>. HIDE DEF i, verdict
<1>3. verdict \in Statuses
  BY <1>2 DEF Statuses
<1>4. /\ proposals' \in Seq(Proposals) /\ Len(proposals') = Len(proposals)
      /\ DOMAIN proposals' = DOMAIN proposals
      /\ \A j \in DOMAIN proposals :
           proposals'[j].status = IF j = i THEN verdict ELSE proposals[j].status
  BY <1>1, <1>2, <1>3, StatusUpdated, Zenon
<1>5. approvals' \subseteq DOMAIN proposals' /\ approvals \subseteq approvals'
  BY <1>1, <1>2, <1>4 DEF Base, TypeOK
<1>6. TypeOK' /\ SeenSound'
  BY <1>1, <1>4, <1>5, CommittedTypes, Zenon DEF Base, TypeOK
<1>7. Stored'
  BY <1>1 DEF Base, Stored, Sound
<1>8. TasksOK'
  BY <1>1, <1>4, <1>5, CommittedTypes, TasksKept, Zenon
<1>9. Vetted'
  BY <1>1, <1>2, <1>4 DEF Base, Vetted
<1>. QED  BY <1>6, <1>7, <1>8, <1>9 DEF Base

LEMMA SnapshotCommitKeepsBase ==
    ASSUME Base, NEW s \in Sessions, CommitSnapshot(s)
    PROVE  Base'
<1>. DEFINE p == task[s].portfolio  v == Valued(seen[s].cash, seen[s].position)
<1>0. /\ snapshot' = [snapshot EXCEPT ![p] = v]
      /\ Committed(s)
      /\ UNCHANGED <<portfolios, cash, position, ledger, trades, proposals,
                approvals, fills, sales>>
  BY Zenon DEF CommitSnapshot, Committing
<1>1. v \in Snapshots
  <2>1. seen[s].cash \in Int /\ seen[s].position \in [Assets -> PositionState]
    BY DEF Base, TypeOK
  <2>2. \A a \in Assets : StateOf(seen[s].position[a]).quantity \in Int
    BY <2>1 DEF StateOf, Flat, PositionState
  <2>. QED  BY <2>1, <2>2 DEF Valued, Snapshots
<1>. HIDE DEF p, v
<1>2. snapshot' \in [Portfolios -> Snapshots]
  BY <1>0, <1>1, Zenon DEF Base, TypeOK
<1>3. TypeOK' /\ SeenSound'
  BY <1>0, <1>2, CommittedTypes, Zenon DEF Base, TypeOK
<1>4. Stored' /\ Vetted'
  BY <1>0 DEF Base, Stored, Sound, Vetted
<1>5. TasksOK'
  BY <1>0, CommittedTypes, TasksKept, Zenon
<1>. QED  BY <1>3, <1>4, <1>5 DEF Base

LEMMA CreateKeepsBase ==
    ASSUME Base, NEW p \in Portfolios, CreatePortfolio(p)
    PROVE  Base'
<1>1. /\ portfolios' = portfolios \cup {p}
      /\ UNCHANGED <<cash, position, ledger, trades, proposals, snapshot,
                     task, phase, seen, fresh, stale, approvals, fills, sales>>
  BY DEF CreatePortfolio
<1>2. TypeOK'
  BY <1>1, Zenon DEF Base, TypeOK
<1>3. Stored' /\ SeenSound' /\ TasksOK' /\ Vetted'
  BY <1>1 DEF Base, Stored, SeenSound, Sound, TasksOK, TaskOK, Vetted
<1>. QED  BY <1>2, <1>3 DEF Base

LEMMA InitBase == Init => Base
<1>. SUFFICES ASSUME Init PROVE Base
  OBVIOUS
<1>1. /\ task \in [Sessions -> Tasks]
      /\ \A s \in Sessions : task[s] = Idle
  BY IdleIsTask, Zenon DEF Init
<1>2. Idle.op = "idle"
  BY DEF Idle
<1>3. Absent \in PositionState /\ Absent = Absent
  BY DEF Absent, Flat, PositionState
<1>4. /\ seen \in [Sessions -> [cash : Int, position : [Assets -> PositionState]]]
      /\ SeenSound
  <2>1. NothingSeen.cash = 0 /\ \A a \in Assets : NothingSeen.position[a] = Absent
    BY DEF NothingSeen
  <2>2. NothingSeen \in [cash : Int, position : [Assets -> PositionState]]
    BY <1>3 DEF NothingSeen
  <2>3. /\ seen \in [Sessions -> [cash : Int, position : [Assets -> PositionState]]]
        /\ \A s \in Sessions : seen[s] = NothingSeen
    BY <2>2, Zenon DEF Init
  <2>. QED  BY <2>1, <2>3 DEF SeenSound, Sound
<1>5. /\ cash \in [Portfolios -> Int]
      /\ position \in [Portfolios -> [Assets -> PositionState]]
      /\ Stored
  BY <1>3 DEF Init, Stored, Sound
<1>6. /\ ledger \in [Portfolios -> [cash : Int, quantity : [Assets -> Int],
                                     realized : [Assets -> Int]]]
      /\ snapshot \in [Portfolios -> Snapshots]
      /\ phase \in [Sessions -> Phases]
      /\ fresh \in [Sessions -> BOOLEAN] /\ stale \in BOOLEAN
  <2>1. fresh \in [Sessions -> BOOLEAN] /\ stale \in BOOLEAN
    BY Zenon DEF Init
  <2>2. phase \in [Sessions -> Phases]
    BY DEF Init, Phases
  <2>3. NoSnapshot \in Snapshots
    BY DEF NoSnapshot, Snapshots
  <2>4. snapshot \in [Portfolios -> Snapshots]
    BY <2>3, Zenon DEF Init
  <2>5. ledger \in [Portfolios -> [cash : Int, quantity : [Assets -> Int],
                                  realized : [Assets -> Int]]]
    BY DEF Init
  <2>. QED  BY <2>1, <2>2, <2>4, <2>5
<1>7. /\ trades = <<>> /\ proposals = <<>> /\ fills = <<>> /\ sales = <<>>
      /\ portfolios = {} /\ approvals = {}
  BY DEF Init
<1>8. /\ trades \in Seq(Trades) /\ proposals \in Seq(Proposals)
      /\ fills \in Seq(Nat) /\ sales \in Seq(Nat)
      /\ Len(fills) = Len(proposals) /\ Len(sales) = Len(trades)
      /\ DOMAIN proposals = {}
  BY <1>7
<1>9. TypeOK
  BY <1>1, <1>4, <1>5, <1>6, <1>7, <1>8, Zenon DEF TypeOK
<1>10. TasksOK
  BY <1>1, <1>2, Zenon DEF TasksOK, TaskOK
<1>11. Vetted
  BY <1>8 DEF Vetted
<1>. QED  BY <1>4, <1>5, <1>9, <1>10, <1>11 DEF Base

LEMMA NextKeepsBase == Base /\ [Next]_vars => Base'
<1>. SUFFICES ASSUME Base, [Next]_vars PROVE Base'
  OBVIOUS
<1>1. ASSUME NEW p \in Portfolios, CreatePortfolio(p) PROVE Base'
  BY <1>1, CreateKeepsBase
<1>2. ASSUME NEW s \in Sessions, Begin(s) PROVE Base'
  <2>1. ASSUME NEW p \in Portfolios, NEW a \in Assets, NEW price \in Prices, NEW q \in Quantities,
               BeginOpen(s, p, a, q, price)
        PROVE  Base'
    BY <2>1, OpenKeepsBase, Zenon
  <2>2. ASSUME NEW p \in Portfolios, NEW a \in Assets, NEW price \in Prices, NEW c \in Categories,
               Propose(s, p, a, c, price)
        PROVE  Base'
    BY <2>2, ProposeKeepsBase, Zenon
  <2>3. ASSUME NEW i \in DOMAIN trades, NEW price \in Prices, BeginClose(s, i, price) PROVE Base'
    BY <2>3, CloseKeepsBase, Zenon
  <2>4. ASSUME NEW i \in DOMAIN proposals, NEW price \in Prices, BeginExecute(s, i, price) PROVE Base'
    BY <2>4, ExecuteKeepsBase, Zenon
  <2>5. ASSUME NEW i \in DOMAIN proposals, NEW v \in {"approved", "rejected", "expired"},
               BeginDecide(s, i, v)
        PROVE  Base'
    BY <2>5, DecideKeepsBase, Zenon
  <2>6. ASSUME NEW p \in Portfolios, BeginSnapshot(s, p) PROVE Base'
    BY <2>6, SnapshotKeepsBase, Zenon
  <2>. QED  BY <1>2, <2>1, <2>2, <2>3, <2>4, <2>5, <2>6, Zenon DEF Begin
<1>3. ASSUME NEW s \in Sessions, Step(s) PROVE Base'
  <2>1. ASSUME NEW p \in Portfolios, ReadPortfolio(s, p) PROVE Base'
    BY <2>1, ReadPortfolioKeepsBase
  <2>2. CASE Ambiguous(s) \/ FillRefused(s) \/ SnapshotCollides(s)
    <3>1. Refuse(s)
      BY <2>2, Zenon DEF Ambiguous, FillRefused, SnapshotCollides
    <3>. QED  BY <3>1, RefuseKeepsBase
  <2>3. CASE ReadPosition(s)
    BY <2>3, ReadPositionKeepsBase
  <2>4. CASE CommitOpen(s)
    BY <2>4, OpenCommitKeepsBase
  <2>5. CASE CommitClose(s)
    BY <2>5, CloseCommitKeepsBase
  <2>6. CASE CommitExecute(s)
    BY <2>6, ExecuteCommitKeepsBase
  <2>7. CASE CommitDecision(s)
    BY <2>7, DecisionKeepsBase
  <2>8. CASE CommitSnapshot(s)
    BY <2>8, SnapshotCommitKeepsBase
  <2>. QED  BY <1>3, <2>1, <2>2, <2>3, <2>4, <2>5, <2>6, <2>7, <2>8, Zenon DEF Step
<1>4. CASE UNCHANGED vars
  <2>1. TypeOK'
    BY <1>4, Zenon DEF vars, rows, Base, TypeOK
  <2>2. Stored' /\ SeenSound' /\ TasksOK' /\ Vetted'
    BY <1>4 DEF vars, rows, Base, Stored, SeenSound, Sound, TasksOK, TaskOK, Vetted
  <2>. QED  BY <2>1, <2>2 DEF Base
<1>. QED  BY <1>1, <1>2, <1>3, <1>4, Zenon DEF Next

(***************************************************************************)
(* Every reachable state is well-typed.                                    *)
(***************************************************************************)
THEOREM PaperTypes == Spec => []TypeOK
<1>1. Base => TypeOK
  BY DEF Base
<1>. QED  BY InitBase, NextKeepsBase, <1>1, PTL DEF Spec

-----------------------------------------------------------------------------
(***************************************************************************)
(* Exact: what a fresh session knows is still true.                        *)
(***************************************************************************)
FreshOK(s) ==
    fresh[s] =>
        /\ phase[s] \in {"position", "commit"} /\ task[s].op # "decide" =>
              seen[s].cash = cash[task[s].portfolio]
        /\ phase[s] = "commit" /\ task[s].op # "decide" =>
              seen[s].position = position[task[s].portfolio]
        /\ task[s].op = "close" => trades[task[s].item].status = "open"
        /\ task[s].op = "execute" => proposals[task[s].item].status = "approved"
        /\ task[s].op = "decide" => proposals[task[s].item].status # "executed"

\* A trade is closed by the commit that sells it.
SoldOnce ==
    \A i \in DOMAIN trades :
        /\ trades[i].status = "closed" <=> sales[i] > 0
        /\ ~stale => sales[i] <= 1

Exact == /\ \A s \in Sessions : FreshOK(s)
         /\ LedgerReplaysUnlessStale /\ ApprovalGate /\ SoldOnce

LEMMA FreshKept ==
    ASSUME NEW u \in Sessions, FreshOK(u), TaskOK(task[u]),
           task'[u] = task[u], phase'[u] = phase[u], seen'[u] = seen[u], fresh'[u] = fresh[u],
           cash' = cash, position' = position, trades' = trades,
           \A i \in DOMAIN proposals : proposals'[i].status = proposals[i].status
    PROVE  FreshOK(u)'
BY Zenon DEF FreshOK, TaskOK

\* Everybody but s is as before.
OthersKept(s) ==
    \A u \in Sessions \ {s} : /\ task'[u] = task[u] /\ phase'[u] = phase[u]
                             /\ seen'[u] = seen[u] /\ fresh'[u] = fresh[u]

LEMMA FreshQuietly ==
    ASSUME Base, \A u \in Sessions : FreshOK(u), NEW s \in Sessions, OthersKept(s), FreshOK(s)',
           UNCHANGED rows
    PROVE  \A u \in Sessions : FreshOK(u)'
<1>1. cash' = cash /\ position' = position /\ trades' = trades /\ proposals' = proposals
  BY DEF rows
<1>2. ASSUME NEW u \in Sessions \ {s} PROVE FreshOK(u)'
  <2>1. FreshOK(u) /\ TaskOK(task[u])
    BY Zenon DEF Base, TasksOK
  <2>2. task'[u] = task[u] /\ phase'[u] = phase[u] /\ seen'[u] = seen[u] /\ fresh'[u] = fresh[u]
    BY Zenon DEF OthersKept
  <2>3. \A i \in DOMAIN proposals : proposals'[i].status = proposals[i].status
    BY <1>1, Zenon
  <2>. QED  BY <1>1, <2>1, <2>2, <2>3, FreshKept
<1>. QED  BY <1>2, Zenon

LEMMA EndedFresh ==
    ASSUME Base, NEW s \in Sessions, End(s)
    PROVE  /\ FreshOK(s)'
           /\ \A u \in Sessions \ {s} : /\ task'[u] = task[u] /\ phase'[u] = phase[u]
                                       /\ seen'[u] = seen[u]
<1>1. task'[s] = Idle /\ phase'[s] = "idle"
  BY DEF End, Base, TypeOK
<1>2. Idle.op = "idle"
  BY DEF Idle
<1>3. FreshOK(s)'
  BY <1>1, <1>2 DEF FreshOK
<1>. QED  BY <1>3 DEF End, Base, TypeOK

LEMMA FreshAfterCommit ==
    ASSUME Base, NEW s \in Sessions, Committed(s)
    PROVE  \A u \in Sessions : FreshOK(u)'
<1>1. End(s) /\ fresh' = [t \in Sessions |-> t = s]
  BY DEF Committed
<1>2. FreshOK(s)'
  BY <1>1, EndedFresh
<1>3. ASSUME NEW u \in Sessions \ {s} PROVE FreshOK(u)'
  <2>1. ~fresh'[u]
    BY <1>1, Zenon
  <2>. QED  BY <2>1, Zenon DEF FreshOK
<1>. QED  BY <1>2, <1>3, Zenon

(***************************************************************************)
(* The histories, when the rows they speak of do not change.               *)
(***************************************************************************)
LEMMA LedgerKept ==
    ASSUME LedgerReplaysUnlessStale, UNCHANGED <<cash, position, ledger>>, stale => stale'
    PROVE  LedgerReplaysUnlessStale'
BY DEF LedgerReplaysUnlessStale, Reconciled, StateOf

LEMMA GateKept ==
    ASSUME ApprovalGate, UNCHANGED <<proposals, fills>>, approvals \subseteq approvals',
           stale => stale'
    PROVE  ApprovalGate'
BY DEF ApprovalGate

LEMMA ClosedKept ==
    ASSUME SoldOnce, UNCHANGED <<trades, sales>>, stale => stale'
    PROVE  SoldOnce'
BY DEF SoldOnce

Quiet == UNCHANGED <<rows, stale, approvals, fills, sales>>

LEMMA QuietKeepsExact ==
    ASSUME Exact, Quiet, \A u \in Sessions : FreshOK(u)'
    PROVE  Exact'
<1>1. /\ UNCHANGED <<cash, position, ledger>> /\ UNCHANGED <<proposals, fills>>
      /\ UNCHANGED <<trades, sales>> /\ approvals \subseteq approvals' /\ stale' = stale
  BY DEF Quiet, rows
<1>2. LedgerReplaysUnlessStale' /\ ApprovalGate' /\ SoldOnce'
  BY <1>1, LedgerKept, GateKept, ClosedKept, Zenon DEF Exact
<1>. QED  BY <1>2, Zenon DEF Exact

LEMMA RefuseKeepsExact ==
    ASSUME Base, Exact, NEW s \in Sessions, Refuse(s)
    PROVE  Exact'
<1>1. End(s) /\ Quiet /\ fresh' = fresh /\ UNCHANGED rows
  BY Zenon DEF Refuse, Quiet
<1>2. FreshOK(s)' /\ OthersKept(s)
  BY <1>1, EndedFresh, Zenon DEF OthersKept
<1>3. \A u \in Sessions : FreshOK(u)'
  BY <1>1, <1>2, FreshQuietly, Zenon DEF Exact
<1>. QED  BY <1>1, <1>3, QuietKeepsExact

LEMMA StartKeepsExact ==
    ASSUME Base, Exact, NEW s \in Sessions, NEW t \in Tasks, NEW at \in Phases, Start(s, t, at),
           \/ seen' = seen /\ at = "portfolio"
           \/ seen' = seen /\ t.op = "decide"
           \/ SawCash(s, t.portfolio) /\ at = "position",
           t.op = "close" => trades[t.item].status = "open",
           t.op = "execute" => proposals[t.item].status = "approved",
           t.op = "decide" => proposals[t.item].status # "executed"
    PROVE  Exact'
<1>1. /\ task' = [task EXCEPT ![s] = t] /\ phase' = [phase EXCEPT ![s] = at]
      /\ fresh' = [fresh EXCEPT ![s] = TRUE] /\ Quiet /\ UNCHANGED rows
  BY Zenon DEF Start, Quiet
<1>2. /\ task \in [Sessions -> Tasks] /\ phase \in [Sessions -> Phases]
      /\ fresh \in [Sessions -> BOOLEAN]
      /\ seen \in [Sessions -> [cash : Int, position : [Assets -> PositionState]]]
  BY DEF Base, TypeOK
<1>3. \A u \in Sessions \ {s} : seen'[u] = seen[u]
  BY <1>2, Zenon DEF SawCash
<1>4. OthersKept(s)
  BY <1>1, <1>2, <1>3, Zenon DEF OthersKept
<1>5. task'[s] = t /\ phase'[s] = at
  BY <1>1, <1>2, Zenon
<1>6. cash' = cash /\ position' = position /\ trades' = trades /\ proposals' = proposals
  BY <1>1 DEF rows
<1>7. SawCash(s, t.portfolio) => seen'[s].cash = cash[t.portfolio]
  BY <1>2 DEF SawCash
<1>8. FreshOK(s)'
  BY <1>5, <1>6, <1>7 DEF FreshOK
<1>9. \A u \in Sessions : FreshOK(u)'
  BY <1>1, <1>4, <1>8, FreshQuietly, Zenon DEF Exact
<1>. QED  BY <1>1, <1>9, QuietKeepsExact

LEMMA OpenKeepsExact ==
    ASSUME Base, Exact, NEW s \in Sessions, NEW p \in Portfolios, NEW a \in Assets,
           NEW q \in Quantities, NEW price \in Prices, BeginOpen(s, p, a, q, price)
    PROVE  Exact'
<1>. DEFINE t == [Idle EXCEPT !.op = "open", !.portfolio = p, !.asset = a, !.side = "buy",
                              !.quantity = q, !.price = price]
<1>1. t \in Tasks /\ t.op = "open" /\ t.portfolio = p
  BY IdleIsTask DEF Tasks, Sides
<1>2. Start(s, t, "position") /\ SawCash(s, p) /\ "position" \in Phases
  BY Zenon DEF BeginOpen, Phases
<1>. HIDE DEF t
<1>. QED  BY <1>1, <1>2, StartKeepsExact

LEMMA CloseKeepsExact ==
    ASSUME Base, Exact, NEW s \in Sessions, NEW i \in DOMAIN trades, NEW price \in Prices,
           BeginClose(s, i, price)
    PROVE  Exact'
<1>. DEFINE t == [Idle EXCEPT !.op = "close", !.item = i, !.asset = trades[i].asset,
                              !.side = "sell", !.quantity = trades[i].quantity, !.price = price]
<1>1. trades[i] \in Trades /\ i \in Nat
  BY DEF Base, TypeOK
<1>2. t \in Tasks /\ t.op = "close" /\ t.item = i
  BY <1>1, IdleIsTask DEF Tasks, Trades, Sides
<1>3. /\ Start(s, t, "portfolio") /\ seen' = seen /\ trades[i].status = "open"
      /\ "portfolio" \in Phases
  BY Zenon DEF BeginClose, Phases
<1>. HIDE DEF t
<1>. QED  BY <1>2, <1>3, StartKeepsExact

LEMMA ExecuteKeepsExact ==
    ASSUME Base, Exact, NEW s \in Sessions, NEW i \in DOMAIN proposals, NEW price \in Prices,
           BeginExecute(s, i, price)
    PROVE  Exact'
<1>. DEFINE t == [Idle EXCEPT !.op = "execute", !.item = i, !.portfolio = proposals[i].portfolio,
                              !.asset = proposals[i].asset, !.side = proposals[i].side,
                              !.quantity = proposals[i].quantity, !.price = price]
<1>1. proposals[i] \in Proposals /\ i \in Nat
  BY DEF Base, TypeOK
<1>2. t \in Tasks /\ t.op = "execute" /\ t.item = i
  BY <1>1, IdleIsTask DEF Tasks, Proposals, Sides
<1>3. /\ Start(s, t, "portfolio") /\ seen' = seen /\ proposals[i].status = "approved"
      /\ "portfolio" \in Phases
  BY Zenon DEF BeginExecute, Phases
<1>. HIDE DEF t
<1>. QED  BY <1>2, <1>3, StartKeepsExact

LEMMA DecideKeepsExact ==
    ASSUME Base, Exact, NEW s \in Sessions, NEW i \in DOMAIN proposals,
           NEW verdict \in {"approved", "rejected", "expired"}, BeginDecide(s, i, verdict)
    PROVE  Exact'
<1>. DEFINE t == [Idle EXCEPT !.op = "decide", !.item = i, !.verdict = verdict]
<1>1. i \in Nat
  BY DEF Base, TypeOK
<1>2. t \in Tasks /\ t.op = "decide" /\ t.item = i
  BY <1>1, IdleIsTask DEF Tasks, Statuses
<1>3. /\ Start(s, t, "commit") /\ seen' = seen /\ proposals[i].status # "executed"
      /\ "commit" \in Phases
  BY DEF BeginDecide, Phases
<1>. HIDE DEF t
<1>. QED  BY <1>2, <1>3, StartKeepsExact

LEMMA SnapshotKeepsExact ==
    ASSUME Base, Exact, NEW s \in Sessions, NEW p \in Portfolios, BeginSnapshot(s, p)
    PROVE  Exact'
<1>. DEFINE t == [Idle EXCEPT !.op = "snapshot", !.portfolio = p]
<1>1. t \in Tasks /\ t.op = "snapshot" /\ t.portfolio = p
  BY IdleIsTask DEF Tasks
<1>2. Start(s, t, "position") /\ SawCash(s, p) /\ "position" \in Phases
  BY Zenon DEF BeginSnapshot, Phases
<1>. HIDE DEF t
<1>. QED  BY <1>1, <1>2, StartKeepsExact

LEMMA ReadPortfolioKeepsExact ==
    ASSUME Base, Exact, NEW s \in Sessions, NEW p \in Portfolios, ReadPortfolio(s, p)
    PROVE  Exact'
<1>1. /\ task' = [task EXCEPT ![s].portfolio = p] /\ phase' = [phase EXCEPT ![s] = "position"]
      /\ seen' = [seen EXCEPT ![s].cash = cash[p]]
      /\ Quiet /\ fresh' = fresh /\ UNCHANGED rows
  BY Zenon DEF ReadPortfolio, SawCash, Quiet
<1>2. /\ task \in [Sessions -> Tasks] /\ phase \in [Sessions -> Phases]
      /\ seen \in [Sessions -> [cash : Int, position : [Assets -> PositionState]]]
  BY DEF Base, TypeOK
<1>3. OthersKept(s)
  BY <1>1, <1>2, Zenon DEF OthersKept
<1>4. /\ task'[s].portfolio = p /\ task'[s].op = task[s].op /\ task'[s].item = task[s].item
      /\ phase'[s] = "position" /\ seen'[s].cash = cash[p] /\ fresh'[s] = fresh[s]
  <2>1. task[s] \in Tasks
    BY TaskTypes
  <2>2. task'[s] = [task[s] EXCEPT !.portfolio = p]
    BY <1>1, <1>2, Zenon
  <2>3. task'[s].portfolio = p /\ task'[s].op = task[s].op /\ task'[s].item = task[s].item
    BY <2>1, <2>2 DEF Tasks
  <2>. QED  BY <1>1, <1>2, <2>3
<1>5. cash' = cash /\ position' = position /\ trades' = trades /\ proposals' = proposals
  BY <1>1 DEF rows
<1>6. FreshOK(s)
  BY Zenon DEF Exact
<1>7. FreshOK(s)'
  BY <1>4, <1>5, <1>6 DEF FreshOK
<1>8. \A u \in Sessions : FreshOK(u)'
  BY <1>1, <1>3, <1>7, FreshQuietly, Zenon DEF Exact
<1>. QED  BY <1>1, <1>8, QuietKeepsExact

LEMMA ReadPositionKeepsExact ==
    ASSUME Base, Exact, NEW s \in Sessions, ReadPosition(s)
    PROVE  Exact'
<1>1. /\ phase[s] = "position" /\ phase' = [phase EXCEPT ![s] = "commit"]
      /\ seen' = [seen EXCEPT ![s].position = position[task[s].portfolio]]
      /\ Quiet /\ fresh' = fresh /\ task' = task /\ UNCHANGED rows
  BY Zenon DEF ReadPosition, Quiet
<1>2. /\ phase \in [Sessions -> Phases]
      /\ seen \in [Sessions -> [cash : Int, position : [Assets -> PositionState]]]
  BY DEF Base, TypeOK
<1>3. OthersKept(s)
  BY <1>1, <1>2, Zenon DEF OthersKept
<1>4. /\ phase'[s] = "commit" /\ seen'[s].position = position[task[s].portfolio]
      /\ seen'[s].cash = seen[s].cash
  BY <1>1, <1>2
<1>5. cash' = cash /\ position' = position /\ trades' = trades /\ proposals' = proposals
  BY <1>1 DEF rows
<1>6. FreshOK(s)
  BY Zenon DEF Exact
<1>7. FreshOK(s)'
  BY <1>1, <1>4, <1>5, <1>6 DEF FreshOK
<1>8. \A u \in Sessions : FreshOK(u)'
  BY <1>1, <1>3, <1>7, FreshQuietly, Zenon DEF Exact
<1>. QED  BY <1>1, <1>8, QuietKeepsExact

LEMMA CreateKeepsExact ==
    ASSUME Base, Exact, NEW p \in Portfolios, CreatePortfolio(p)
    PROVE  Exact'
<1>1. UNCHANGED <<cash, position, ledger, trades, proposals, snapshot,
                 task, phase, seen, fresh, stale, approvals, fills, sales>>
  BY DEF CreatePortfolio
<1>2. ASSUME NEW u \in Sessions PROVE FreshOK(u)'
  <2>1. FreshOK(u) /\ TaskOK(task[u])
    BY Zenon DEF Exact, Base, TasksOK
  <2>. QED  BY <1>1, <2>1, FreshKept
<1>3. LedgerReplaysUnlessStale' /\ ApprovalGate' /\ SoldOnce'
  BY <1>1, LedgerKept, GateKept, ClosedKept DEF Exact
<1>. QED  BY <1>2, <1>3, Zenon DEF Exact

LEMMA ProposeKeepsExact ==
    ASSUME Base, Exact, NEW s \in Sessions, NEW p \in Portfolios, NEW a \in Assets,
           NEW category \in Categories, NEW price \in Prices, Propose(s, p, a, category, price)
    PROVE  Exact'
<1>1. StateOf(position[p][a]).quantity \in Int /\ cash[p] \in Int
  BY DEF Base, TypeOK, StateOf, Flat, PositionState
<1>2. PICK draft \in Proposals :
        proposals' = Append(proposals, draft) /\ draft.status = "pending_approval"
  <2>1. PICK draft \in Drafts(p, a, category, price, StateOf(position[p][a]).quantity, cash[p]) :
          proposals' = Append(proposals, draft)
    BY Zenon DEF Propose
  <2>. QED  BY <1>1, <2>1, DraftTypes, Zenon
<1>3. /\ fills' = Append(fills, 0)
      /\ UNCHANGED <<portfolios, cash, position, ledger, trades, snapshot,
                     task, phase, seen, fresh, stale, approvals, sales>>
  BY Zenon DEF Propose
<1>4. proposals \in Seq(Proposals) /\ fills \in Seq(Nat) /\ Len(fills) = Len(proposals) /\ 0 \in Nat
  BY DEF Base, TypeOK
<1>5. /\ DOMAIN proposals' = DOMAIN proposals \cup {Len(proposals) + 1}
      /\ proposals'[Len(proposals) + 1] = draft
      /\ \A i \in DOMAIN proposals : proposals'[i] = proposals[i]
  <2>1. /\ DOMAIN Append(proposals, draft) = DOMAIN proposals \cup {Len(proposals) + 1}
        /\ Append(proposals, draft)[Len(proposals) + 1] = draft
        /\ \A i \in DOMAIN proposals : Append(proposals, draft)[i] = proposals[i]
    BY <1>4, SeqAppended
  <2>. QED  BY <1>2, <2>1, Zenon
<1>6. /\ fills'[Len(proposals) + 1] = 0
      /\ \A i \in DOMAIN proposals : fills'[i] = fills[i]
  <2>1. DOMAIN fills = DOMAIN proposals
    <3>. DEFINE S == Proposals
    <3>1. proposals \in Seq(S)
      BY <1>4
    <3>. HIDE DEF S
    <3>. QED  BY <1>4, <3>1
  <2>2. /\ Append(fills, 0)[Len(fills) + 1] = 0
        /\ \A i \in DOMAIN fills : Append(fills, 0)[i] = fills[i]
    BY <1>4, SeqAppended
  <2>. QED  BY <1>3, <1>4, <2>1, <2>2, Zenon
<1>7. ASSUME NEW u \in Sessions PROVE FreshOK(u)'
  <2>1. FreshOK(u) /\ TaskOK(task[u])
    BY Zenon DEF Exact, Base, TasksOK
  <2>2. \A i \in DOMAIN proposals : proposals'[i].status = proposals[i].status
    BY <1>5, Zenon
  <2>. QED  BY <1>3, <2>1, <2>2, FreshKept
<1>8. ApprovalGate'
  <2>. SUFFICES ASSUME NEW i \in DOMAIN proposals'
                PROVE  /\ fills'[i] > 0 => i \in approvals'
                       /\ ~stale' => fills'[i] = IF proposals'[i].status = "executed" THEN 1 ELSE 0
    BY Zenon DEF ApprovalGate
  <2>1. CASE i \in DOMAIN proposals
    BY <1>3, <1>5, <1>6, <2>1 DEF Exact, ApprovalGate
  <2>2. CASE i = Len(proposals) + 1
    BY <1>2, <1>5, <1>6, <2>2
  <2>. QED  BY <1>5, <2>1, <2>2
<1>9. LedgerReplaysUnlessStale' /\ SoldOnce'
  BY <1>3, LedgerKept, ClosedKept DEF Exact
<1>. QED  BY <1>7, <1>8, <1>9, Zenon DEF Exact

(***************************************************************************)
(* A fill by a fresh session on top of an exact state: what it writes is   *)
(* what the ledger adds up to.                                             *)
(***************************************************************************)
LEMMA FillKeepsLedger ==
    ASSUME Base, Exact, NEW s \in Sessions, phase[s] = "commit", task[s].op # "decide",
           Fillable(s), RecordFill(s), stale' = (stale \/ ~fresh[s])
    PROVE  LedgerReplaysUnlessStale'
<1>. DEFINE p == task[s].portfolio  a == task[s].asset
            row == Overwrite(NewState(s), Read(s), position[p][a])
            q == Signed(task[s].side, task[s].quantity)
<1>. SUFFICES ASSUME ~stale, fresh[s] PROVE Reconciled'
  BY Zenon DEF LedgerReplaysUnlessStale
<1>1. p \in Portfolios /\ a \in Assets
  BY TaskTypes
<1>2. FreshOK(s) /\ Reconciled
  BY Zenon DEF Exact, LedgerReplaysUnlessStale
<1>3. seen[s].cash = cash[p] /\ Read(s) = position[p][a]
  BY <1>2 DEF FreshOK, Read
<1>4. row \in PositionState /\ row = NewState(s)
  BY <1>1, <1>3, RowWritten
<1>5. StateOf(row) = row
  <2>1. row.quantity >= 0 /\ row.quantity \in Int
    BY <1>4, FillEffect DEF PositionState
  <2>. QED  BY <2>1 DEF StateOf, Absent, Flat
<1>6. /\ row.quantity = StateOf(position[p][a]).quantity + q
      /\ row.realized = StateOf(position[p][a]).realized + Profit(s)
  BY <1>3, <1>4, FillEffect
<1>7. /\ \A r \in Portfolios : cash'[r] = IF r = p THEN seen[s].cash + Delta(s) ELSE cash[r]
      /\ \A r \in Portfolios, b \in Assets :
           position'[r][b] = IF r = p /\ b = a THEN row ELSE position[r][b]
      /\ \A r \in Portfolios :
           ledger'[r].cash = IF r = p THEN ledger[p].cash + Delta(s) ELSE ledger[r].cash
      /\ \A r \in Portfolios, b \in Assets :
           /\ ledger'[r].quantity[b] = IF r = p /\ b = a THEN ledger[p].quantity[a] + q
                                                        ELSE ledger[r].quantity[b]
           /\ ledger'[r].realized[b] = IF r = p /\ b = a THEN ledger[p].realized[a] + Profit(s)
                                                        ELSE ledger[r].realized[b]
  BY <1>1, <1>4, FilledRows
<1>8. Delta(s) \in Int /\ \A r \in Portfolios : ledger[r].cash \in Int
  BY FillEffect DEF Base, TypeOK
<1>. HIDE DEF p, a, row, q
<1>9. ASSUME NEW r \in Portfolios PROVE cash'[r] = InitialCash + ledger'[r].cash
  <2>1. cash[r] = InitialCash + ledger[r].cash
    BY <1>2 DEF Reconciled
  <2>. QED  BY <1>3, <1>7, <1>8, <2>1
<1>10. ASSUME NEW r \in Portfolios, NEW b \in Assets
       PROVE  /\ StateOf(position'[r][b]).quantity = ledger'[r].quantity[b]
              /\ StateOf(position'[r][b]).realized = ledger'[r].realized[b]
  <2>1. /\ StateOf(position[r][b]).quantity = ledger[r].quantity[b]
        /\ StateOf(position[r][b]).realized = ledger[r].realized[b]
    BY <1>2 DEF Reconciled
  <2>2. CASE r = p /\ b = a
    BY <1>5, <1>6, <1>7, <2>1, <2>2
  <2>3. CASE ~(r = p /\ b = a)
    BY <1>7, <2>1, <2>3
  <2>. QED  BY <2>2, <2>3
<1>. QED  BY <1>9, <1>10 DEF Reconciled, StateOf

LEMMA OpenCommitKeepsExact ==
    ASSUME Base, Exact, NEW s \in Sessions, CommitOpen(s)
    PROVE  Exact'
<1>. DEFINE trade == [asset |-> task[s].asset, quantity |-> task[s].quantity, status |-> "open"]
<1>1. /\ phase[s] = "commit" /\ task[s].op = "open" /\ Fillable(s) /\ RecordFill(s) /\ Committed(s)
      /\ trades' = Append(trades, trade) /\ sales' = Append(sales, 0)
      /\ UNCHANGED <<portfolios, proposals, snapshot, approvals, fills>>
  BY Zenon DEF CommitOpen, Committing
<1>2. stale' = (stale \/ ~fresh[s]) /\ (stale => stale')
  BY <1>1, Zenon DEF Committed
<1>3. LedgerReplaysUnlessStale'
  BY <1>1, <1>2, FillKeepsLedger
<1>4. ApprovalGate'
  BY <1>1, <1>2, GateKept, Zenon DEF Exact
<1>5. trade \in Trades /\ trade.status = "open"
  BY TaskTypes DEF Trades
<1>. HIDE DEF trade
<1>6. trades \in Seq(Trades) /\ sales \in Seq(Nat) /\ Len(sales) = Len(trades) /\ 0 \in Nat
  BY DEF Base, TypeOK
<1>7. /\ DOMAIN trades' = DOMAIN trades \cup {Len(trades) + 1}
      /\ trades'[Len(trades) + 1] = trade
      /\ \A i \in DOMAIN trades : trades'[i] = trades[i]
  <2>1. /\ DOMAIN Append(trades, trade) = DOMAIN trades \cup {Len(trades) + 1}
        /\ Append(trades, trade)[Len(trades) + 1] = trade
        /\ \A i \in DOMAIN trades : Append(trades, trade)[i] = trades[i]
    BY <1>5, <1>6, SeqAppended
  <2>. QED  BY <1>1, <2>1, Zenon
<1>8. sales'[Len(trades) + 1] = 0 /\ \A i \in DOMAIN trades : sales'[i] = sales[i]
  <2>1. DOMAIN sales = DOMAIN trades
    <3>. DEFINE S == Trades
    <3>1. trades \in Seq(S)
      BY <1>6
    <3>. HIDE DEF S
    <3>. QED  BY <1>6, <3>1
  <2>2. Append(sales, 0)[Len(sales) + 1] = 0 /\ \A i \in DOMAIN sales : Append(sales, 0)[i] = sales[i]
    BY <1>6, SeqAppended
  <2>. QED  BY <1>1, <1>6, <2>1, <2>2, Zenon
<1>9. SoldOnce'
  <2>. SUFFICES ASSUME NEW i \in DOMAIN trades'
                PROVE  /\ trades'[i].status = "closed" <=> sales'[i] > 0
                       /\ ~stale' => sales'[i] <= 1
    BY Zenon DEF SoldOnce
  <2>1. CASE i \in DOMAIN trades
    BY <1>2, <1>7, <1>8, <2>1 DEF Exact, SoldOnce
  <2>2. CASE i = Len(trades) + 1
    BY <1>5, <1>7, <1>8, <2>2
  <2>. QED  BY <1>7, <2>1, <2>2
<1>10. \A u \in Sessions : FreshOK(u)'
  BY <1>1, FreshAfterCommit
<1>. QED  BY <1>3, <1>4, <1>9, <1>10, Zenon DEF Exact

LEMMA CloseCommitKeepsExact ==
    ASSUME Base, Exact, NEW s \in Sessions, CommitClose(s)
    PROVE  Exact'
<1>. DEFINE i == task[s].item  trade == [trades[i] EXCEPT !.status = "closed"]  n == sales[i] + 1
<1>1. /\ phase[s] = "commit" /\ task[s].op = "close" /\ Fillable(s) /\ RecordFill(s) /\ Committed(s)
      /\ trades' = [trades EXCEPT ![i] = trade] /\ sales' = [sales EXCEPT ![i] = n]
      /\ UNCHANGED <<portfolios, proposals, snapshot, approvals, fills>>
  BY Zenon DEF CommitClose, Committing
<1>2. stale' = (stale \/ ~fresh[s]) /\ (stale => stale')
  BY <1>1, Zenon DEF Committed
<1>3. LedgerReplaysUnlessStale'
  BY <1>1, <1>2, FillKeepsLedger
<1>4. ApprovalGate'
  BY <1>1, <1>2, GateKept, Zenon DEF Exact
<1>5. i \in DOMAIN trades
  BY <1>1, Zenon DEF Base, TasksOK, TaskOK
<1>6. trades \in Seq(Trades) /\ sales \in Seq(Nat) /\ Len(sales) = Len(trades)
  BY DEF Base, TypeOK
<1>7. fresh[s] => trades[i].status = "open"
  <2>1. FreshOK(s)
    BY Zenon DEF Exact
  <2>. QED  BY <1>1, <2>1, Zenon DEF FreshOK
<1>8. DOMAIN sales = DOMAIN trades /\ trades[i] \in Trades
  <2>. DEFINE S == Trades
  <2>1. trades \in Seq(S)
    BY <1>6
  <2>. HIDE DEF S, i
  <2>2. DOMAIN sales = DOMAIN trades /\ trades[i] \in S
    BY <1>5, <1>6, <2>1
  <2>. QED  BY <2>2 DEF S
<1>9. trade \in Trades /\ trade.status = "closed"
  BY <1>8 DEF Trades
<1>10. sales[i] \in Nat /\ n \in Nat
  BY <1>5, <1>6, <1>8
<1>11. ASSUME NEW j \in DOMAIN trades PROVE sales[j] \in Nat
  BY <1>6, <1>8
<1>. HIDE DEF trade, i
<1>12. /\ DOMAIN trades' = DOMAIN trades
       /\ \A j \in DOMAIN trades : trades'[j] = IF j = i THEN trade ELSE trades[j]
  BY <1>1, <1>5, <1>6, <1>9, SeqUpdated
<1>13. \A j \in DOMAIN trades : sales'[j] = IF j = i THEN sales[i] + 1 ELSE sales[j]
  BY <1>1, <1>5, <1>6, <1>8, <1>10
<1>14. SoldOnce'
  <2>. SUFFICES ASSUME NEW j \in DOMAIN trades
                PROVE  /\ trades'[j].status = "closed" <=> sales'[j] > 0
                       /\ ~stale' => sales'[j] <= 1
    BY <1>12, Zenon DEF SoldOnce
  <2>1. CASE j = i
    <3>1. trades[i].status = "open" => sales[i] = 0
      BY <1>5, <1>10 DEF Exact, SoldOnce
    <3>2. sales'[i] = sales[i] + 1 /\ trades'[i].status = "closed"
      BY <1>5, <1>9, <1>12, <1>13
    <3>3. ~stale' => trades[i].status = "open"
      BY <1>2, <1>7, Zenon
    <3>. QED  BY <1>10, <2>1, <3>1, <3>2, <3>3
  <2>2. CASE j # i
    BY <1>2, <1>12, <1>13, <2>2 DEF Exact, SoldOnce
  <2>. QED  BY <2>1, <2>2
<1>15. \A u \in Sessions : FreshOK(u)'
  BY <1>1, FreshAfterCommit
<1>. QED  BY <1>3, <1>4, <1>14, <1>15, Zenon DEF Exact

LEMMA ExecuteCommitKeepsExact ==
    ASSUME Base, Exact, NEW s \in Sessions, CommitExecute(s)
    PROVE  Exact'
<1>. DEFINE i == task[s].item
<1>1. /\ phase[s] = "commit" /\ task[s].op = "execute" /\ Fillable(s) /\ RecordFill(s) /\ Committed(s)
      /\ proposals' = [proposals EXCEPT ![i].status = "executed"]
      /\ fills' = [fills EXCEPT ![i] = @ + 1]
      /\ UNCHANGED <<portfolios, trades, snapshot, approvals, sales>>
  BY Zenon DEF CommitExecute, Committing
<1>2. stale' = (stale \/ ~fresh[s]) /\ (stale => stale')
  BY <1>1, Zenon DEF Committed
<1>3. LedgerReplaysUnlessStale'
  BY <1>1, <1>2, FillKeepsLedger
<1>4. SoldOnce'
  BY <1>1, <1>2, ClosedKept, Zenon DEF Exact
<1>5. i \in DOMAIN proposals /\ i \in approvals
  BY <1>1, Zenon DEF Base, TasksOK, TaskOK
<1>6. fresh[s] => proposals[i].status = "approved"
  <2>1. FreshOK(s)
    BY Zenon DEF Exact
  <2>. QED  BY <1>1, <2>1, Zenon DEF FreshOK
<1>. HIDE DEF i
<1>7. /\ DOMAIN proposals' = DOMAIN proposals
      /\ \A j \in DOMAIN proposals :
           proposals'[j].status = IF j = i THEN "executed" ELSE proposals[j].status
  <2>1. "executed" \in Statuses
    BY DEF Statuses
  <2>. QED  BY <1>1, <1>5, <2>1, StatusUpdated, Zenon
<1>8. /\ \A j \in DOMAIN proposals : fills[j] \in Nat
      /\ \A j \in DOMAIN proposals : fills'[j] = IF j = i THEN fills[i] + 1 ELSE fills[j]
  <2>1. /\ proposals \in Seq(Proposals) /\ fills \in Seq(Nat) /\ Len(fills) = Len(proposals)
    BY DEF Base, TypeOK
  <2>. DEFINE S == Proposals
  <2>2. proposals \in Seq(S)
    BY <2>1
  <2>. HIDE DEF S
  <2>3. DOMAIN fills = DOMAIN proposals
    BY <2>1, <2>2
  <2>. QED  BY <1>1, <1>5, <2>1, <2>3
<1>9. ApprovalGate'
  <2>. SUFFICES ASSUME NEW j \in DOMAIN proposals
                PROVE  /\ fills'[j] > 0 => j \in approvals'
                       /\ ~stale' => fills'[j] = IF proposals'[j].status = "executed" THEN 1 ELSE 0
    BY <1>7, Zenon DEF ApprovalGate
  <2>1. CASE j = i
    <3>1. ~stale /\ proposals[i].status = "approved" => fills[i] = 0
      BY <1>5 DEF Exact, ApprovalGate
    <3>2. fills[i] \in Nat /\ fills'[i] = fills[i] + 1 /\ proposals'[i].status = "executed"
      BY <1>5, <1>7, <1>8
    <3>3. i \in approvals'
      BY <1>1, <1>5
    <3>4. ~stale' => ~stale /\ proposals[i].status = "approved"
      BY <1>2, <1>6, Zenon
    <3>. QED  BY <2>1, <3>1, <3>2, <3>3, <3>4
  <2>2. CASE j # i
    BY <1>1, <1>2, <1>7, <1>8, <2>2 DEF Exact, ApprovalGate
  <2>. QED  BY <2>1, <2>2
<1>10. \A u \in Sessions : FreshOK(u)'
  BY <1>1, FreshAfterCommit
<1>. QED  BY <1>3, <1>4, <1>9, <1>10, Zenon DEF Exact

LEMMA DecisionKeepsExact ==
    ASSUME Base, Exact, NEW s \in Sessions, CommitDecision(s)
    PROVE  Exact'
<1>. DEFINE i == task[s].item  verdict == task[s].verdict
<1>1. /\ phase[s] = "commit" /\ task[s].op = "decide" /\ Committed(s)
      /\ proposals' = [proposals EXCEPT ![i].status = verdict]
      /\ approvals' = IF verdict = "approved" THEN approvals \cup {i} ELSE approvals
      /\ UNCHANGED <<portfolios, cash, position, ledger, trades, snapshot, fills, sales>>
  BY Zenon DEF CommitDecision, Committing
<1>2. stale' = (stale \/ ~fresh[s]) /\ (stale => stale')
  BY <1>1, Zenon DEF Committed
<1>3. LedgerReplaysUnlessStale' /\ SoldOnce'
  BY <1>1, <1>2, LedgerKept, ClosedKept, Zenon DEF Exact
<1>4. i \in DOMAIN proposals /\ verdict \in {"approved", "rejected", "expired"}
  BY <1>1, Zenon DEF Base, TasksOK, TaskOK
<1>5. fresh[s] => proposals[i].status # "executed"
  <2>1. FreshOK(s)
    BY Zenon DEF Exact
  <2>. QED  BY <1>1, <2>1, Zenon DEF FreshOK
<1>. HIDE DEF i, verdict
<1>6. /\ DOMAIN proposals' = DOMAIN proposals
      /\ \A j \in DOMAIN proposals :
           proposals'[j].status = IF j = i THEN verdict ELSE proposals[j].status
  <2>1. verdict \in Statuses
    BY <1>4 DEF Statuses
  <2>. QED  BY <1>1, <1>4, <2>1, StatusUpdated, Zenon
<1>7. approvals \subseteq approvals' /\ fills' = fills
  BY <1>1
<1>8. ApprovalGate'
  <2>. SUFFICES ASSUME NEW j \in DOMAIN proposals
                PROVE  /\ fills[j] > 0 => j \in approvals'
                       /\ ~stale' => fills[j] = IF proposals'[j].status = "executed" THEN 1 ELSE 0
    BY <1>6, <1>7, Zenon DEF ApprovalGate
  <2>1. /\ fills[j] > 0 => j \in approvals
        /\ ~stale => fills[j] = IF proposals[j].status = "executed" THEN 1 ELSE 0
    BY Zenon DEF Exact, ApprovalGate
  <2>2. ~stale' => ~stale /\ proposals[i].status # "executed"
    BY <1>2, <1>5, Zenon
  <2>3. proposals'[j].status = IF j = i THEN verdict ELSE proposals[j].status
    BY <1>6
  <2>4. ~stale' => (proposals'[j].status = "executed" <=> proposals[j].status = "executed")
    BY <1>4, <2>2, <2>3
  <2>. QED  BY <1>7, <2>1, <2>2, <2>4
<1>9. \A u \in Sessions : FreshOK(u)'
  BY <1>1, FreshAfterCommit
<1>. QED  BY <1>3, <1>8, <1>9, Zenon DEF Exact

LEMMA SnapshotCommitKeepsExact ==
    ASSUME Base, Exact, NEW s \in Sessions, CommitSnapshot(s)
    PROVE  Exact'
<1>1. /\ Committed(s)
      /\ UNCHANGED <<portfolios, cash, position, ledger, trades, proposals, approvals, fills, sales>>
  BY Zenon DEF CommitSnapshot
<1>2. stale => stale'
  BY <1>1, Zenon DEF Committed
<1>3. LedgerReplaysUnlessStale' /\ SoldOnce' /\ ApprovalGate'
  BY <1>1, <1>2, LedgerKept, ClosedKept, GateKept DEF Exact
<1>4. \A u \in Sessions : FreshOK(u)'
  BY <1>1, FreshAfterCommit
<1>. QED  BY <1>3, <1>4, Zenon DEF Exact

LEMMA InitExact == Init => Exact
<1>. SUFFICES ASSUME Init PROVE Exact
  OBVIOUS
<1>1. ASSUME NEW s \in Sessions PROVE FreshOK(s)
  <2>1. task[s] = Idle /\ phase[s] = "idle" /\ Idle.op = "idle"
    BY DEF Init, Idle
  <2>. QED  BY <2>1 DEF FreshOK
<1>2. /\ \A p \in Portfolios : cash[p] = InitialCash /\ ledger[p].cash = 0
      /\ \A p \in Portfolios, a \in Assets :
           /\ position[p][a] = Absent
           /\ ledger[p].quantity[a] = 0 /\ ledger[p].realized[a] = 0
  BY DEF Init
<1>3. LedgerReplaysUnlessStale
  BY <1>2 DEF LedgerReplaysUnlessStale, Reconciled, StateOf, Flat
<1>4. proposals = <<>> /\ trades = <<>>
  BY DEF Init
<1>5. ApprovalGate /\ SoldOnce
  BY <1>4 DEF ApprovalGate, SoldOnce
<1>. QED  BY <1>1, <1>3, <1>5 DEF Exact

LEMMA NextKeepsExact == Base /\ Exact /\ [Next]_vars => Exact'
<1>. SUFFICES ASSUME Base, Exact, [Next]_vars PROVE Exact'
  OBVIOUS
<1>1. ASSUME NEW p \in Portfolios, CreatePortfolio(p) PROVE Exact'
  BY <1>1, CreateKeepsExact
<1>2. ASSUME NEW s \in Sessions, Begin(s) PROVE Exact'
  <2>1. ASSUME NEW p \in Portfolios, NEW a \in Assets, NEW price \in Prices, NEW q \in Quantities,
               BeginOpen(s, p, a, q, price)
        PROVE  Exact'
    BY <2>1, OpenKeepsExact, Zenon
  <2>2. ASSUME NEW p \in Portfolios, NEW a \in Assets, NEW price \in Prices, NEW c \in Categories,
               Propose(s, p, a, c, price)
        PROVE  Exact'
    BY <2>2, ProposeKeepsExact, Zenon
  <2>3. ASSUME NEW i \in DOMAIN trades, NEW price \in Prices, BeginClose(s, i, price) PROVE Exact'
    BY <2>3, CloseKeepsExact, Zenon
  <2>4. ASSUME NEW i \in DOMAIN proposals, NEW price \in Prices, BeginExecute(s, i, price) PROVE Exact'
    BY <2>4, ExecuteKeepsExact, Zenon
  <2>5. ASSUME NEW i \in DOMAIN proposals, NEW v \in {"approved", "rejected", "expired"},
               BeginDecide(s, i, v)
        PROVE  Exact'
    BY <2>5, DecideKeepsExact, Zenon
  <2>6. ASSUME NEW p \in Portfolios, BeginSnapshot(s, p) PROVE Exact'
    BY <2>6, SnapshotKeepsExact, Zenon
  <2>. QED  BY <1>2, <2>1, <2>2, <2>3, <2>4, <2>5, <2>6, Zenon DEF Begin
<1>3. ASSUME NEW s \in Sessions, Step(s) PROVE Exact'
  <2>1. ASSUME NEW p \in Portfolios, ReadPortfolio(s, p) PROVE Exact'
    BY <2>1, ReadPortfolioKeepsExact
  <2>2. CASE Ambiguous(s) \/ FillRefused(s) \/ SnapshotCollides(s)
    <3>1. Refuse(s)
      BY <2>2, Zenon DEF Ambiguous, FillRefused, SnapshotCollides
    <3>. QED  BY <3>1, RefuseKeepsExact
  <2>3. CASE ReadPosition(s)
    BY <2>3, ReadPositionKeepsExact
  <2>4. CASE CommitOpen(s)
    BY <2>4, OpenCommitKeepsExact
  <2>5. CASE CommitClose(s)
    BY <2>5, CloseCommitKeepsExact
  <2>6. CASE CommitExecute(s)
    BY <2>6, ExecuteCommitKeepsExact
  <2>7. CASE CommitDecision(s)
    BY <2>7, DecisionKeepsExact
  <2>8. CASE CommitSnapshot(s)
    BY <2>8, SnapshotCommitKeepsExact
  <2>. QED  BY <1>3, <2>1, <2>2, <2>3, <2>4, <2>5, <2>6, <2>7, <2>8, Zenon DEF Step
<1>4. CASE UNCHANGED vars
  <2>1. Quiet /\ UNCHANGED <<cash, position, trades, proposals, task, phase, seen, fresh>>
    BY <1>4, Zenon DEF vars, rows, Quiet
  <2>2. ASSUME NEW u \in Sessions PROVE FreshOK(u)'
    <3>1. FreshOK(u) /\ TaskOK(task[u])
      BY Zenon DEF Exact, Base, TasksOK
    <3>. QED  BY <2>1, <3>1, FreshKept
  <2>. QED  BY <2>1, <2>2, QuietKeepsExact
<1>. QED  BY <1>1, <1>2, <1>3, <1>4, Zenon DEF Next

(***************************************************************************)
(* Unless some session committed on top of another's commit, replaying the *)
(* ledger gives the stored cash, quantities and realized profits.          *)
(***************************************************************************)
THEOREM LedgerReplays == Spec => []LedgerReplaysUnlessStale
<1>1. Exact => LedgerReplaysUnlessStale
  BY DEF Exact
<1>. QED  BY InitBase, InitExact, NextKeepsBase, NextKeepsExact, <1>1, PTL DEF Spec

(***************************************************************************)
(* No proposal is filled that was never approved, and without a stale      *)
(* commit an executed one is filled exactly once.                          *)
(***************************************************************************)
THEOREM GateHolds == Spec => []ApprovalGate
<1>1. Exact => ApprovalGate
  BY DEF Exact
<1>. QED  BY InitBase, InitExact, NextKeepsBase, NextKeepsExact, <1>1, PTL DEF Spec

(***************************************************************************)
(* No portfolio's stored cash or quantity is ever negative, and unless     *)
(* some session committed on top of another's commit, none has traded for  *)
(* more cash, or sold more, than it had.                                   *)
(***************************************************************************)
THEOREM NeverOverdrawn == Spec => []NoOverdraft
<1>1. Base /\ Exact => NoOverdraft
  <2>. SUFFICES ASSUME Base, Exact, NEW p \in Portfolios
                PROVE  /\ cash[p] >= 0
                       /\ ~stale => InitialCash + ledger[p].cash >= 0
                       /\ \A a \in Assets :
                            /\ StateOf(position[p][a]).quantity >= 0
                            /\ ~stale => ledger[p].quantity[a] >= 0
    BY DEF NoOverdraft
  <2>1. Flat.quantity >= 0
    BY DEF Flat
  <2>2. cash[p] >= 0 /\ \A a \in Assets : StateOf(position[p][a]).quantity >= 0
    BY <2>1 DEF Base, Stored, Sound, StateOf
  <2>3. ~stale => /\ cash[p] = InitialCash + ledger[p].cash
                  /\ \A a \in Assets : StateOf(position[p][a]).quantity = ledger[p].quantity[a]
    BY Zenon DEF Exact, LedgerReplaysUnlessStale, Reconciled
  <2>. QED  BY <2>2, <2>3
<1>. QED  BY InitBase, InitExact, NextKeepsBase, NextKeepsExact, <1>1, PTL DEF Spec

-----------------------------------------------------------------------------
(***************************************************************************)
(* Claimed: a trade has been sold, or is about to be, at most once for     *)
(* each session, because a session that sells it is done with it and, the  *)
(* trade being closed, no other starts.                                    *)
(***************************************************************************)
Closing(u, i) == task[u].op = "close" /\ task[u].item = i

Closers(i) == {u \in Sessions : Closing(u, i)}

Claim(i) == sales[i] + Cardinality(Closers(i)) <= Cardinality(Sessions)

Claimed == \A i \in DOMAIN trades : Claim(i)

\* Nobody starts to close a trade.
NoNewCloser == \A u \in Sessions, i \in Nat : Closing(u, i)' => Closing(u, i)

LEMMA ClosersCounted ==
    ASSUME NEW i
    PROVE  /\ IsFiniteSet(Closers(i)) /\ Cardinality(Closers(i)) \in Nat
           /\ Cardinality(Closers(i)) <= Cardinality(Sessions) /\ Cardinality(Sessions) \in Nat
           /\ IsFiniteSet(Closers(i)') /\ Cardinality(Closers(i)') \in Nat
           /\ Cardinality(Closers(i)') <= Cardinality(Sessions)
<1>1. Closers(i) \in SUBSET Sessions /\ Closers(i)' \in SUBSET Sessions
  BY DEF Closers
<1>. QED  BY <1>1, FS_Subset, FS_CardinalityType

LEMMA SalesTypes ==
    ASSUME Base, NEW i \in DOMAIN trades
    PROVE  i \in Nat /\ i \in DOMAIN sales /\ sales[i] \in Nat
<1>. DEFINE S == Trades
<1>1. trades \in Seq(S) /\ sales \in Seq(Nat) /\ Len(sales) = Len(trades)
  BY DEF Base, TypeOK
<1>. HIDE DEF S
<1>. QED  BY <1>1

LEMMA Unclaimed ==
    ASSUME NEW i, sales'[i] = 0
    PROVE  Claim(i)'
<1>1. Cardinality(Closers(i)') \in Nat /\ Cardinality(Closers(i)') <= Cardinality(Sessions)
  BY ClosersCounted
<1>2. sales'[i] + Cardinality(Closers(i)') <= Cardinality(Sessions)
  BY <1>1
<1>. QED  BY <1>2, Zenon DEF Claim

LEMMA ClaimKept ==
    ASSUME Base, NEW i \in DOMAIN trades, Claim(i), sales'[i] = sales[i],
           \A u \in Sessions : Closing(u, i)' => Closing(u, i)
    PROVE  Claim(i)'
<1>1. Closers(i)' \in SUBSET Closers(i)
  BY Zenon DEF Closers
<1>2. Cardinality(Closers(i)') <= Cardinality(Closers(i))
  BY <1>1, ClosersCounted, FS_Subset
<1>3. /\ Cardinality(Closers(i)) \in Nat /\ Cardinality(Closers(i)') \in Nat
      /\ Cardinality(Sessions) \in Nat /\ sales[i] \in Nat
  BY ClosersCounted, SalesTypes
<1>4. sales[i] + Cardinality(Closers(i)) <= Cardinality(Sessions)
  BY Zenon DEF Claim
<1>5. sales[i] + Cardinality(Closers(i)') <= Cardinality(Sessions)
  BY <1>2, <1>3, <1>4
<1>. QED  BY <1>5, Zenon DEF Claim

LEMMA QuietKeepsClaimed ==
    ASSUME Base, Claimed, UNCHANGED <<trades, sales>>, NoNewCloser
    PROVE  Claimed'
<1>. SUFFICES ASSUME NEW i \in DOMAIN trades PROVE Claim(i)'
  BY Zenon DEF Claimed
<1>1. i \in Nat /\ Claim(i)
  BY SalesTypes, Zenon DEF Claimed
<1>. QED  BY <1>1, ClaimKept, Zenon DEF NoNewCloser

\* A task that starts or ends.
LEMMA StartedTask ==
    ASSUME Base, NEW s \in Sessions, NEW t, NEW at, Start(s, t, at), t.op # "close"
    PROVE  UNCHANGED <<trades, sales>> /\ NoNewCloser
<1>1. UNCHANGED <<trades, sales>>
  BY DEF Start, rows
<1>2. \A u \in Sessions : task'[u] = IF u = s THEN t ELSE task[u]
  BY Zenon DEF Base, TypeOK, Start
<1>. QED  BY <1>1, <1>2, Zenon DEF NoNewCloser, Closing

LEMMA EndedTask ==
    ASSUME Base, NEW s \in Sessions, End(s)
    PROVE  NoNewCloser /\ \A i : ~Closing(s, i)'
<1>1. \A u \in Sessions : task'[u] = IF u = s THEN Idle ELSE task[u]
  BY EndTypes, Zenon
<1>2. Idle.op # "close"
  BY DEF Idle
<1>. QED  BY <1>1, <1>2, Zenon DEF NoNewCloser, Closing

LEMMA CloseKeepsClaimed ==
    ASSUME Base, Exact, Claimed, NEW s \in Sessions, NEW j \in DOMAIN trades, NEW price \in Prices,
           BeginClose(s, j, price)
    PROVE  Claimed'
<1>. DEFINE t == [Idle EXCEPT !.op = "close", !.item = j, !.asset = trades[j].asset,
                              !.side = "sell", !.quantity = trades[j].quantity, !.price = price]
<1>1. t.item = j
  BY DEF Idle
<1>2. Start(s, t, "portfolio") /\ trades[j].status = "open"
  BY Zenon DEF BeginClose
<1>. HIDE DEF t
<1>3. UNCHANGED <<trades, sales>>
  BY <1>2 DEF Start, rows
<1>4. \A u \in Sessions : task'[u] = IF u = s THEN t ELSE task[u]
  BY <1>2, Zenon DEF Base, TypeOK, Start
<1>. SUFFICES ASSUME NEW i \in DOMAIN trades PROVE Claim(i)'
  BY <1>3, Zenon DEF Claimed
<1>5. CASE i = j
  <2>1. sales[i] = 0
    BY <1>2, <1>5, SalesTypes DEF Exact, SoldOnce
  <2>. QED  BY <1>3, <2>1, Unclaimed
<1>6. CASE i # j
  <2>1. Claim(i) /\ sales'[i] = sales[i]
    BY <1>3, Zenon DEF Claimed
  <2>2. \A u \in Sessions : Closing(u, i)' => Closing(u, i)
    BY <1>1, <1>4, <1>6, Zenon DEF Closing
  <2>. QED  BY <2>1, <2>2, ClaimKept
<1>. QED  BY <1>5, <1>6

LEMMA OpenCommitKeepsClaimed ==
    ASSUME Base, Claimed, NEW s \in Sessions, CommitOpen(s)
    PROVE  Claimed'
<1>. DEFINE trade == [asset |-> task[s].asset, quantity |-> task[s].quantity, status |-> "open"]
            new == Len(trades) + 1  S == Trades
<1>1. End(s) /\ trades' = Append(trades, trade) /\ sales' = Append(sales, 0)
  BY Zenon DEF CommitOpen, Committed
<1>2. trades \in Seq(S) /\ sales \in Seq(Nat) /\ Len(sales) = Len(trades)
  BY DEF Base, TypeOK
<1>3. trade \in S
  BY TaskTypes DEF Trades
<1>. HIDE DEF trade, S
<1>4. /\ DOMAIN trades' = DOMAIN trades \cup {new} /\ sales'[new] = 0
      /\ \A i \in DOMAIN trades : sales'[i] = sales[i]
  BY <1>1, <1>2, <1>3
<1>. HIDE DEF new
<1>5. NoNewCloser
  BY <1>1, EndedTask
<1>. SUFFICES ASSUME NEW i \in DOMAIN trades' PROVE Claim(i)'
  BY Zenon DEF Claimed
<1>6. CASE i = new
  BY <1>4, <1>6, Unclaimed
<1>7. CASE i \in DOMAIN trades
  <2>1. i \in Nat /\ Claim(i) /\ sales'[i] = sales[i]
    BY <1>4, <1>7, SalesTypes, Zenon DEF Claimed
  <2>. QED  BY <1>5, <1>7, <2>1, ClaimKept, Zenon DEF NoNewCloser
<1>. QED  BY <1>4, <1>6, <1>7

LEMMA CloseCommitKeepsClaimed ==
    ASSUME Base, Claimed, NEW s \in Sessions, CommitClose(s)
    PROVE  Claimed'
<1>. DEFINE j == task[s].item  n == sales[j] + 1
<1>1. /\ End(s) /\ task[s].op = "close"
      /\ trades' = [trades EXCEPT ![j].status = "closed"]
      /\ sales' = [sales EXCEPT ![j] = n]
  BY Zenon DEF CommitClose, Committed, Committing
<1>2. j \in DOMAIN trades
  BY <1>1, Zenon DEF Base, TasksOK, TaskOK
<1>3. j \in Nat /\ j \in DOMAIN sales /\ sales[j] \in Nat
  BY <1>2, SalesTypes, Zenon
<1>4. DOMAIN trades' = DOMAIN trades
  BY <1>1, Zenon
<1>5. NoNewCloser /\ Closing(s, j) /\ \A k : ~Closing(s, k)'
  BY <1>1, EndedTask, Zenon DEF Closing
<1>. HIDE DEF j
<1>. SUFFICES ASSUME NEW i \in DOMAIN trades PROVE Claim(i)'
  BY <1>4, Zenon DEF Claimed
<1>6. i \in Nat /\ i \in DOMAIN sales /\ Claim(i)
  BY SalesTypes, Zenon DEF Claimed
<1>7. CASE i = j
  <2>1. sales'[i] = sales[i] + 1
    BY <1>1, <1>3, <1>7, Zenon
  <2>a. /\ Closing(s, i) /\ ~Closing(s, i)'
        /\ \A u \in Sessions : Closing(u, i)' => Closing(u, i)
    BY <1>5, <1>6, <1>7, Zenon DEF NoNewCloser
  <2>2. Closers(i)' \in SUBSET (Closers(i) \ {s}) /\ s \in Closers(i)
    BY <2>a, Zenon DEF Closers
  <2>3. IsFiniteSet(Closers(i))
    BY ClosersCounted
  <2>4. /\ IsFiniteSet(Closers(i) \ {s})
        /\ Cardinality(Closers(i) \ {s}) = Cardinality(Closers(i)) - 1
    BY <2>2, <2>3, FS_RemoveElement
  <2>5. Cardinality(Closers(i)') <= Cardinality(Closers(i) \ {s})
    BY <2>2, <2>4, FS_Subset
  <2>6. /\ Cardinality(Closers(i)) \in Nat /\ Cardinality(Closers(i)') \in Nat
        /\ Cardinality(Sessions) \in Nat
    BY ClosersCounted
  <2>7. sales[i] + Cardinality(Closers(i)) <= Cardinality(Sessions) /\ sales[i] \in Nat
    BY <1>3, <1>6, <1>7, Zenon DEF Claim
  <2>8. sales[i] + 1 + Cardinality(Closers(i)') <= Cardinality(Sessions)
    BY <2>4, <2>5, <2>6, <2>7
  <2>. QED  BY <2>1, <2>8, Zenon DEF Claim
<1>8. CASE i # j
  <2>1. sales'[i] = sales[i]
    BY <1>1, <1>6, <1>8, Zenon
  <2>. QED  BY <1>5, <1>6, <2>1, ClaimKept, Zenon DEF NoNewCloser
<1>. QED  BY <1>7, <1>8

LEMMA BeginKeepsClaimed ==
    ASSUME Base, Exact, Claimed, NEW s \in Sessions, Begin(s)
    PROVE  Claimed'
<1>1. ASSUME NEW t, NEW at, Start(s, t, at), t.op # "close" PROVE Claimed'
  BY <1>1, StartedTask, QuietKeepsClaimed, Zenon
<1>2. ASSUME NEW p \in Portfolios, NEW a \in Assets, NEW price \in Prices, NEW q \in Quantities,
             BeginOpen(s, p, a, q, price)
      PROVE  Claimed'
  <2>. DEFINE t == [Idle EXCEPT !.op = "open", !.portfolio = p, !.asset = a, !.side = "buy",
                                !.quantity = q, !.price = price]
  <2>1. t.op = "open" /\ Start(s, t, "position")
    BY <1>2 DEF BeginOpen, Idle
  <2>. HIDE DEF t
  <2>2. t.op # "close"
    BY <2>1
  <2>. QED  BY <1>1, <2>1, <2>2, Zenon
<1>3. ASSUME NEW j \in DOMAIN trades, NEW price \in Prices, BeginClose(s, j, price)
      PROVE  Claimed'
  BY <1>3, CloseKeepsClaimed
<1>4. ASSUME NEW j \in DOMAIN proposals, NEW price \in Prices, BeginExecute(s, j, price)
      PROVE  Claimed'
  <2>. DEFINE t == [Idle EXCEPT !.op = "execute", !.item = j, !.portfolio = proposals[j].portfolio,
                                !.asset = proposals[j].asset, !.side = proposals[j].side,
                                !.quantity = proposals[j].quantity, !.price = price]
  <2>1. t.op = "execute"
    BY DEF Idle
  <2>2. Start(s, t, "portfolio")
    BY <1>4, Zenon DEF BeginExecute
  <2>. HIDE DEF t
  <2>3. t.op # "close"
    BY <2>1
  <2>. QED  BY <1>1, <2>2, <2>3, Zenon
<1>5. ASSUME NEW j \in DOMAIN proposals, NEW v \in {"approved", "rejected", "expired"},
             BeginDecide(s, j, v)
      PROVE  Claimed'
  <2>. DEFINE t == [Idle EXCEPT !.op = "decide", !.item = j, !.verdict = v]
  <2>1. t.op = "decide" /\ Start(s, t, "commit")
    BY <1>5 DEF BeginDecide, Idle
  <2>. HIDE DEF t
  <2>2. t.op # "close"
    BY <2>1
  <2>. QED  BY <1>1, <2>1, <2>2, Zenon
<1>6. ASSUME NEW p \in Portfolios, BeginSnapshot(s, p) PROVE Claimed'
  <2>. DEFINE t == [Idle EXCEPT !.op = "snapshot", !.portfolio = p]
  <2>1. t.op = "snapshot" /\ Start(s, t, "position")
    BY <1>6 DEF BeginSnapshot, Idle
  <2>. HIDE DEF t
  <2>2. t.op # "close"
    BY <2>1
  <2>. QED  BY <1>1, <2>1, <2>2, Zenon
<1>7. ASSUME NEW p \in Portfolios, NEW a \in Assets, NEW price \in Prices, NEW c \in Categories,
             Propose(s, p, a, c, price)
      PROVE  Claimed'
  <2>1. UNCHANGED <<trades, sales, task>>
    BY <1>7, Zenon DEF Propose
  <2>2. NoNewCloser
    BY <2>1, Zenon DEF NoNewCloser, Closing
  <2>. QED  BY <2>1, <2>2, QuietKeepsClaimed, Zenon
<1>. QED  BY <1>2, <1>3, <1>4, <1>5, <1>6, <1>7, Zenon DEF Begin

LEMMA StepKeepsClaimed ==
    ASSUME Base, Claimed, NEW s \in Sessions, Step(s)
    PROVE  Claimed'
<1>1. ASSUME NEW p \in Portfolios, ReadPortfolio(s, p) PROVE Claimed'
  <2>1. task' = [task EXCEPT ![s].portfolio = p] /\ UNCHANGED <<rows, sales>>
    BY <1>1, Zenon DEF ReadPortfolio
  <2>2. task \in [Sessions -> Tasks]
    BY DEF Base, TypeOK
  <2>3. \A u \in Sessions : task'[u].op = task[u].op /\ task'[u].item = task[u].item
    <3>1. ASSUME NEW u \in Sessions PROVE task'[u].op = task[u].op /\ task'[u].item = task[u].item
      <4>1. CASE u = s
        <5>1. task'[u] = [task[u] EXCEPT !.portfolio = p] /\ task[u] \in Tasks
          BY <2>1, <2>2, <4>1, Zenon
        <5>. QED  BY <5>1 DEF Tasks
      <4>2. CASE u # s
        BY <2>1, <2>2, <4>2, Zenon
      <4>. QED  BY <4>1, <4>2
    <3>. QED  BY <3>1
  <2>4. NoNewCloser
    BY <2>3, Zenon DEF NoNewCloser, Closing
  <2>5. UNCHANGED <<trades, sales>>
    BY <2>1, Zenon DEF rows
  <2>. QED  BY <2>4, <2>5, QuietKeepsClaimed
<1>2. CASE ReadPosition(s)
  <2>1. UNCHANGED <<trades, sales, task>>
    BY <1>2, Zenon DEF ReadPosition, rows
  <2>2. NoNewCloser
    BY <2>1, Zenon DEF NoNewCloser, Closing
  <2>. QED  BY <2>1, <2>2, QuietKeepsClaimed, Zenon
<1>3. CASE CommitOpen(s)
  BY <1>3, OpenCommitKeepsClaimed
<1>4. CASE CommitClose(s)
  BY <1>4, CloseCommitKeepsClaimed
<1>5. ASSUME End(s), UNCHANGED <<trades, sales>> PROVE Claimed'
  BY <1>5, EndedTask, QuietKeepsClaimed
<1>6. CASE CommitExecute(s) \/ CommitDecision(s) \/ CommitSnapshot(s)
  BY <1>5, <1>6, Zenon DEF CommitExecute, CommitDecision, CommitSnapshot, Committed
<1>7. CASE Ambiguous(s) \/ FillRefused(s) \/ SnapshotCollides(s)
  BY <1>5, <1>7, Zenon DEF Ambiguous, FillRefused, SnapshotCollides, Refuse, rows
<1>. QED  BY <1>1, <1>2, <1>3, <1>4, <1>6, <1>7, Zenon DEF Step

LEMMA NextKeepsClaimed == Base /\ Exact /\ Claimed /\ [Next]_vars => Claimed'
<1>. SUFFICES ASSUME Base, Exact, Claimed, [Next]_vars PROVE Claimed'
  OBVIOUS
<1>1. ASSUME UNCHANGED <<trades, sales, task>> PROVE Claimed'
  <2>1. NoNewCloser
    BY <1>1, Zenon DEF NoNewCloser, Closing
  <2>. QED  BY <1>1, <2>1, QuietKeepsClaimed, Zenon
<1>2. ASSUME NEW p \in Portfolios, CreatePortfolio(p) PROVE Claimed'
  BY <1>1, <1>2, Zenon DEF CreatePortfolio
<1>3. CASE UNCHANGED vars
  BY <1>1, <1>3, Zenon DEF vars, rows
<1>. QED  BY <1>2, <1>3, BeginKeepsClaimed, StepKeepsClaimed, Zenon DEF Next

(***************************************************************************)
(* A trade is closed only by a sale, without a stale commit it is sold     *)
(* once, and with any number of them at most once for each session.        *)
(***************************************************************************)
THEOREM ClosedOnce == Spec => []ClosedMeansSold
<1>1. Init => Claimed
  <2>. SUFFICES ASSUME Init PROVE Claimed
    OBVIOUS
  <2>1. trades = <<>>
    BY DEF Init
  <2>. QED  BY <2>1 DEF Claimed
<1>2. Base /\ Exact /\ Claimed => ClosedMeansSold
  <2>. SUFFICES ASSUME Base, Exact, Claimed, NEW i \in DOMAIN trades
                PROVE  /\ trades[i].status = "closed" => sales[i] > 0
                       /\ ~stale => sales[i] <= 1
                       /\ sales[i] <= Cardinality(Sessions)
    BY DEF ClosedMeansSold
  <2>1. sales[i] + Cardinality(Closers(i)) <= Cardinality(Sessions)
    BY Zenon DEF Claimed, Claim
  <2>2. /\ Cardinality(Closers(i)) \in Nat /\ Cardinality(Sessions) \in Nat /\ sales[i] \in Nat
    BY ClosersCounted, SalesTypes
  <2>3. sales[i] <= Cardinality(Sessions)
    BY <2>1, <2>2
  <2>. QED  BY <2>3 DEF Exact, SoldOnce
<1>. QED  BY InitBase, InitExact, NextKeepsBase, NextKeepsExact, NextKeepsClaimed, <1>1, <1>2, PTL
          DEF Spec

(***************************************************************************)
(* A step that ends s's snapshot is s's own commit, or its refusal.        *)
(***************************************************************************)
LEMMA SnapshotEnds ==
    ASSUME Base, [Next]_vars, NEW s \in Sessions, phase[s] = "commit", task[s].op = "snapshot",
           phase'[s] = "idle"
    PROVE  CommitSnapshot(s) \/ SnapshotCollides(s)
<1>1. phase \in [Sessions -> Phases]
  BY DEF Base, TypeOK
<1>2. \E u \in Sessions : Begin(u) \/ Step(u)
  <2>1. CASE UNCHANGED vars
    BY <2>1, Zenon DEF vars
  <2>2. ASSUME NEW p \in Portfolios, CreatePortfolio(p) PROVE FALSE
    BY <2>2, Zenon DEF CreatePortfolio
  <2>. QED  BY <2>1, <2>2, Zenon DEF Next
<1>3. ASSUME NEW u \in Sessions, Begin(u) PROVE FALSE
  <2>1. \/ phase' = phase
        \/ \E at \in Phases : phase[u] = "idle" /\ phase' = [phase EXCEPT ![u] = at]
    <3>1. "position" \in Phases /\ "portfolio" \in Phases /\ "commit" \in Phases
      BY DEF Phases
    <3>. QED  BY <1>3, <3>1, Zenon
              DEF Begin, BeginOpen, Propose, BeginClose, BeginExecute, BeginDecide, BeginSnapshot, Start
  <2>. QED  BY <1>1, <2>1
<1>4. ASSUME NEW u \in Sessions, u # s, Step(u) PROVE FALSE
  <2>1. \E at \in Phases : phase' = [phase EXCEPT ![u] = at]
    <3>1. "position" \in Phases /\ "idle" \in Phases /\ "commit" \in Phases
      BY DEF Phases
    <3>. QED  BY <1>4, <3>1, Zenon
              DEF Step, ReadPortfolio, Ambiguous, ReadPosition, CommitOpen, CommitClose, CommitExecute,
                  CommitDecision, CommitSnapshot, FillRefused, SnapshotCollides, Refuse, Committed, End
  <2>. QED  BY <1>1, <1>4, <2>1
<1>5. Step(s)
  BY <1>2, <1>3, <1>4, Zenon
<1>. QED  BY <1>5, Zenon
          DEF Step, ReadPortfolio, Ambiguous, ReadPosition, CommitOpen, CommitClose, CommitExecute,
              CommitDecision, FillRefused, Committing

(***************************************************************************)
(* A snapshot no other commit interrupted combines cash and positions that *)
(* are true together.                                                      *)
(***************************************************************************)
THEOREM SnapshotsAreTrue == Spec => SnapshotIsPointInTime
<1>1. Base /\ Exact /\ [Next]_vars =>
        \A s \in Sessions :
          /\ task[s].op = "snapshot" /\ phase[s] = "commit"
          /\ phase'[s] = "idle" /\ fresh[s]
          => LET p == task[s].portfolio
             IN  /\ snapshot'[p].cash = cash[p]
                 /\ \A a \in Assets :
                      snapshot'[p].held[a] = StateOf(position[p][a]).quantity
  <2>. SUFFICES ASSUME Base, Exact, [Next]_vars, NEW s \in Sessions,
                       task[s].op = "snapshot", phase[s] = "commit", phase'[s] = "idle", fresh[s]
                PROVE  LET p == task[s].portfolio
                       IN  /\ snapshot'[p].cash = cash[p]
                           /\ \A a \in Assets :
                                snapshot'[p].held[a] = StateOf(position[p][a]).quantity
    BY Zenon
  <2>. DEFINE p == task[s].portfolio
  <2>1. CommitSnapshot(s)
    BY SnapshotEnds, Zenon DEF SnapshotCollides
  <2>2. task[s].portfolio \in Portfolios /\ snapshot \in [Portfolios -> Snapshots]
    BY TaskTypes DEF Base, TypeOK
  <2>3. seen[s].cash = cash[p] /\ seen[s].position = position[p]
    BY DEF Exact, FreshOK
  <2>4. snapshot'[p] = Valued(cash[p], position[p])
    BY <2>1, <2>2, <2>3, Zenon DEF CommitSnapshot
  <2>. QED  BY <2>4 DEF Valued
<1>. QED  BY <1>1, InitBase, InitExact, NextKeepsBase, NextKeepsExact, PTL
          DEF Spec, SnapshotIsPointInTime

-----------------------------------------------------------------------------
(***************************************************************************)
(* What is executed is what was proposed: a task keeps the terms of its    *)
(* proposal, and nothing changes a proposal's terms.                       *)
(***************************************************************************)
Terms(t) ==
    t.op = "execute" =>
      /\ t.item \in DOMAIN proposals
      /\ t.portfolio = proposals[t.item].portfolio /\ t.asset = proposals[t.item].asset
      /\ t.side = proposals[t.item].side /\ t.quantity = proposals[t.item].quantity

Faithful == \A s \in Sessions : Terms(task[s])

SameTerms(i) ==
    /\ i \in DOMAIN proposals'
    /\ proposals'[i].portfolio = proposals[i].portfolio /\ proposals'[i].asset = proposals[i].asset
    /\ proposals'[i].side = proposals[i].side /\ proposals'[i].quantity = proposals[i].quantity

StatusOnly == \E j \in DOMAIN proposals, status \in Statuses :
                proposals' = [proposals EXCEPT ![j].status = status]

NewProposal == \E draft \in Proposals : proposals' = Append(proposals, draft) /\ fills' = Append(fills, 0)

\* What a step may do to the proposals.
LEMMA ProposalSteps ==
    ASSUME Base, [Next]_vars
    PROVE  \/ proposals' = proposals /\ fills' = fills
           \/ NewProposal
           \/ StatusOnly /\ fills' = fills
           \/ StatusOnly /\ \E s \in Sessions : CommitExecute(s)
<1>1. CASE UNCHANGED vars
  BY <1>1, Zenon DEF vars, rows
<1>2. ASSUME NEW p \in Portfolios, CreatePortfolio(p) PROVE proposals' = proposals /\ fills' = fills
  BY <1>2, Zenon DEF CreatePortfolio
<1>3. ASSUME NEW s \in Sessions, Begin(s)
      PROVE  (proposals' = proposals /\ fills' = fills) \/ NewProposal
  <2>1. ASSUME NEW p \in Portfolios, NEW a \in Assets, NEW price \in Prices, NEW c \in Categories,
               Propose(s, p, a, c, price)
        PROVE  NewProposal
    <3>1. StateOf(position[p][a]).quantity \in Int /\ cash[p] \in Int
      BY DEF Base, TypeOK, StateOf, Flat, PositionState
    <3>2. PICK draft \in Drafts(p, a, c, price, StateOf(position[p][a]).quantity, cash[p]) :
            proposals' = Append(proposals, draft)
      BY <2>1, Zenon DEF Propose
    <3>3. draft \in Proposals
      BY <3>1, DraftTypes, Zenon
    <3>4. fills' = Append(fills, 0)
      BY <2>1, Zenon DEF Propose
    <3>. QED  BY <3>2, <3>3, <3>4, Zenon DEF NewProposal
  <2>2. (proposals' = proposals /\ fills' = fills)
          \/ \E p \in Portfolios, a \in Assets, price \in Prices, c \in Categories :
               Propose(s, p, a, c, price)
    BY <1>3, Zenon DEF Begin, BeginOpen, BeginClose, BeginExecute, BeginDecide, BeginSnapshot, Start, rows
  <2>. QED  BY <2>1, <2>2, Zenon
<1>4. ASSUME NEW s \in Sessions, Step(s)
      PROVE  \/ proposals' = proposals /\ fills' = fills
             \/ StatusOnly /\ fills' = fills
             \/ StatusOnly /\ CommitExecute(s)
  <2>1. CASE CommitExecute(s)
    <3>1. proposals' = [proposals EXCEPT ![task[s].item].status = "executed"]
      BY <2>1, Zenon DEF CommitExecute
    <3>2. task[s].item \in DOMAIN proposals
      BY <2>1, Zenon DEF Base, TasksOK, TaskOK, CommitExecute, Committing
    <3>3. "executed" \in Statuses
      BY DEF Statuses
    <3>. QED  BY <2>1, <3>1, <3>2, <3>3, Zenon DEF StatusOnly
  <2>2. CASE CommitDecision(s)
    <3>1. proposals' = [proposals EXCEPT ![task[s].item].status = task[s].verdict] /\ fills' = fills
      BY <2>2, Zenon DEF CommitDecision
    <3>2. task[s].item \in DOMAIN proposals /\ task[s].verdict \in {"approved", "rejected", "expired"}
      BY <2>2, Zenon DEF Base, TasksOK, TaskOK, CommitDecision, Committing
    <3>3. task[s].verdict \in Statuses
      BY <3>2 DEF Statuses
    <3>. QED  BY <3>1, <3>2, <3>3, Zenon DEF StatusOnly
  <2>3. CASE ~CommitExecute(s) /\ ~CommitDecision(s)
    BY <1>4, <2>3, Zenon
       DEF Step, ReadPortfolio, Ambiguous, ReadPosition, CommitOpen, CommitClose, CommitSnapshot,
           FillRefused, SnapshotCollides, Refuse, rows
  <2>. QED  BY <2>1, <2>2, <2>3, Zenon
<1>. QED  BY <1>1, <1>2, <1>3, <1>4, Zenon DEF Next

LEMMA TermsKept ==
    ASSUME Base, [Next]_vars, NEW i \in DOMAIN proposals
    PROVE  SameTerms(i)
<1>1. proposals \in Seq(Proposals)
  BY DEF Base, TypeOK
<1>2. CASE proposals' = proposals
  BY <1>2 DEF SameTerms
<1>3. CASE NewProposal
  <2>1. PICK draft \in Proposals : proposals' = Append(proposals, draft)
    BY <1>3, Zenon DEF NewProposal
  <2>2. /\ DOMAIN Append(proposals, draft) = DOMAIN proposals \cup {Len(proposals) + 1}
        /\ \A j \in DOMAIN proposals : Append(proposals, draft)[j] = proposals[j]
    BY <1>1, SeqAppended
  <2>3. i \in DOMAIN proposals' /\ proposals'[i] = proposals[i]
    BY <2>1, <2>2, Zenon
  <2>. QED  BY <2>3 DEF SameTerms
<1>4. CASE StatusOnly
  <2>1. PICK j \in DOMAIN proposals, status \in Statuses :
          proposals' = [proposals EXCEPT ![j].status = status]
    BY <1>4, Zenon DEF StatusOnly
  <2>2. DOMAIN proposals' = DOMAIN proposals
    BY <2>1, StatusUpdated, Zenon
  <2>. DEFINE S == Proposals
  <2>3. proposals[i] \in S
    <3>1. proposals \in Seq(S)
      BY <1>1
    <3>. HIDE DEF S
    <3>. QED  BY <3>1
  <2>4. proposals'[i] = IF i = j THEN [proposals[i] EXCEPT !.status = status] ELSE proposals[i]
    BY <2>1, Zenon
  <2>5. CASE i = j
    <3>1. proposals'[i] = [proposals[i] EXCEPT !.status = status]
      BY <2>4, <2>5
    <3>2. /\ proposals'[i].portfolio = proposals[i].portfolio /\ proposals'[i].asset = proposals[i].asset
          /\ proposals'[i].side = proposals[i].side /\ proposals'[i].quantity = proposals[i].quantity
      BY <2>3, <3>1 DEF Proposals
    <3>. QED  BY <2>2, <3>2, Zenon DEF SameTerms
  <2>6. CASE i # j
    BY <2>2, <2>4, <2>6 DEF SameTerms
  <2>. QED  BY <2>5, <2>6
<1>. QED  BY <1>2, <1>3, <1>4, ProposalSteps, Zenon

\* A session's task is what it was, or it starts, or it ends.
LEMMA TaskSteps ==
    ASSUME Base, Faithful, [Next]_vars, NEW u \in Sessions
    PROVE  Terms(task'[u])
<1>1. task \in [Sessions -> Tasks] /\ Terms(task[u]) /\ Terms(Idle)
  BY DEF Base, TypeOK, Faithful, Terms, Idle
<1>2. CASE task' = task
  BY <1>1, <1>2
<1>3. ASSUME NEW s \in Sessions, End(s) PROVE Terms(task'[u])
  <2>1. task'[u] = Idle \/ task'[u] = task[u]
    BY <1>1, <1>3, Zenon DEF End
  <2>. QED  BY <1>1, <2>1
<1>4. ASSUME NEW s \in Sessions, NEW t, NEW at, Start(s, t, at), Terms(t) PROVE Terms(task'[u])
  <2>1. task'[u] = t \/ task'[u] = task[u]
    BY <1>1, <1>4, Zenon DEF Start
  <2>. QED  BY <1>1, <1>4, <2>1
<1>5. ASSUME NEW s \in Sessions, Begin(s) PROVE Terms(task'[u])
  <2>1. ASSUME NEW p \in Portfolios, NEW a \in Assets, NEW price \in Prices, NEW q \in Quantities,
               BeginOpen(s, p, a, q, price)
        PROVE  Terms(task'[u])
    <3>. DEFINE t == [Idle EXCEPT !.op = "open", !.portfolio = p, !.asset = a, !.side = "buy",
                                  !.quantity = q, !.price = price]
    <3>1. t.op = "open" /\ Start(s, t, "position")
      BY <2>1 DEF BeginOpen, Idle
    <3>. HIDE DEF t
    <3>. QED  BY <1>4, <3>1, Zenon DEF Terms
  <2>2. ASSUME NEW i \in DOMAIN trades, NEW price \in Prices, BeginClose(s, i, price)
        PROVE  Terms(task'[u])
    <3>. DEFINE t == [Idle EXCEPT !.op = "close", !.item = i, !.asset = trades[i].asset,
                                  !.side = "sell", !.quantity = trades[i].quantity, !.price = price]
    <3>1. t.op = "close" /\ Start(s, t, "portfolio")
      BY <2>2 DEF BeginClose, Idle
    <3>. HIDE DEF t
    <3>. QED  BY <1>4, <3>1, Zenon DEF Terms
  <2>3. ASSUME NEW i \in DOMAIN proposals, NEW price \in Prices, BeginExecute(s, i, price)
        PROVE  Terms(task'[u])
    <3>. DEFINE t == [Idle EXCEPT !.op = "execute", !.item = i, !.portfolio = proposals[i].portfolio,
                                  !.asset = proposals[i].asset, !.side = proposals[i].side,
                                  !.quantity = proposals[i].quantity, !.price = price]
    <3>1. /\ t.item = i /\ t.portfolio = proposals[i].portfolio /\ t.asset = proposals[i].asset
          /\ t.side = proposals[i].side /\ t.quantity = proposals[i].quantity
      BY DEF Idle
    <3>2. Start(s, t, "portfolio")
      BY <2>3, Zenon DEF BeginExecute
    <3>. HIDE DEF t
    <3>. QED  BY <1>4, <3>1, <3>2, Zenon DEF Terms
  <2>4. ASSUME NEW i \in DOMAIN proposals, NEW v \in {"approved", "rejected", "expired"},
               BeginDecide(s, i, v)
        PROVE  Terms(task'[u])
    <3>. DEFINE t == [Idle EXCEPT !.op = "decide", !.item = i, !.verdict = v]
    <3>1. t.op = "decide" /\ Start(s, t, "commit")
      BY <2>4 DEF BeginDecide, Idle
    <3>. HIDE DEF t
    <3>. QED  BY <1>4, <3>1, Zenon DEF Terms
  <2>5. ASSUME NEW p \in Portfolios, BeginSnapshot(s, p) PROVE Terms(task'[u])
    <3>. DEFINE t == [Idle EXCEPT !.op = "snapshot", !.portfolio = p]
    <3>1. t.op = "snapshot" /\ Start(s, t, "position")
      BY <2>5 DEF BeginSnapshot, Idle
    <3>. HIDE DEF t
    <3>. QED  BY <1>4, <3>1, Zenon DEF Terms
  <2>6. ASSUME NEW p \in Portfolios, NEW a \in Assets, NEW price \in Prices, NEW c \in Categories,
               Propose(s, p, a, c, price)
        PROVE  Terms(task'[u])
    BY <1>2, <2>6, Zenon DEF Propose
  <2>. QED  BY <1>5, <2>1, <2>2, <2>3, <2>4, <2>5, <2>6, Zenon DEF Begin
<1>6. ASSUME NEW s \in Sessions, Step(s) PROVE Terms(task'[u])
  <2>1. ASSUME NEW p \in Portfolios, ReadPortfolio(s, p) PROVE Terms(task'[u])
    <3>1. /\ task' = [task EXCEPT ![s].portfolio = p]
          /\ task[s].op = "execute" => task[s].portfolio = p
      BY <2>1, Zenon DEF ReadPortfolio
    <3>2. task[s] \in Tasks /\ Terms(task[s])
      BY <1>1, Zenon DEF Faithful
    <3>3. task'[s] = [task[s] EXCEPT !.portfolio = p]
      BY <1>1, <3>1, Zenon
    <3>4. /\ task'[s].op = task[s].op /\ task'[s].item = task[s].item /\ task'[s].portfolio = p
          /\ task'[s].asset = task[s].asset /\ task'[s].side = task[s].side
          /\ task'[s].quantity = task[s].quantity
      BY <3>2, <3>3 DEF Tasks
    <3>5. Terms(task'[s])
      BY <3>1, <3>2, <3>4, Zenon DEF Terms
    <3>6. u # s => task'[u] = task[u]
      BY <1>1, <3>1, Zenon
    <3>. QED  BY <1>1, <3>5, <3>6
  <2>2. task' = task \/ End(s) \/ \E p \in Portfolios : ReadPortfolio(s, p)
    BY <1>6, Zenon
       DEF Step, Ambiguous, ReadPosition, CommitOpen, CommitClose, CommitExecute, CommitDecision,
           CommitSnapshot, FillRefused, SnapshotCollides, Refuse, Committed
  <2>. QED  BY <1>2, <1>3, <2>1, <2>2, Zenon
<1>7. ASSUME NEW p \in Portfolios, CreatePortfolio(p) PROVE Terms(task'[u])
  BY <1>2, <1>7, Zenon DEF CreatePortfolio
<1>8. CASE UNCHANGED vars
  BY <1>2, <1>8, Zenon DEF vars
<1>. QED  BY <1>5, <1>6, <1>7, <1>8, Zenon DEF Next

LEMMA NextKeepsFaithful == Base /\ Faithful /\ [Next]_vars => Faithful'
<1>. SUFFICES ASSUME Base, Faithful, [Next]_vars, NEW s \in Sessions PROVE Terms(task[s])'
  BY Zenon DEF Faithful
<1>1. Terms(task'[s])
  BY TaskSteps
<1>2. \A i \in DOMAIN proposals : SameTerms(i)
  BY TermsKept, Zenon
<1>. QED  BY <1>1, <1>2, Zenon DEF Terms, SameTerms

LEMMA InitFaithful == Init => Faithful
<1>. SUFFICES ASSUME Init, NEW s \in Sessions PROVE Terms(task[s])
  BY Zenon DEF Faithful
<1>1. task[s] = Idle /\ Idle.op = "idle"
  BY DEF Init, Idle
<1>. QED  BY <1>1 DEF Terms

(***************************************************************************)
(* Executing a proposal enters exactly what it proposed, in its own        *)
(* portfolio, and nothing elsewhere.                                       *)
(***************************************************************************)
THEOREM ProposalsFilledAsProposed == Spec => FilledAsProposed
<1>1. Base /\ Faithful /\ [Next]_vars =>
        \A i \in DOMAIN proposals :
          fills'[i] > fills[i] =>
            \A p \in Portfolios, a \in Assets :
              ledger'[p].quantity[a] = ledger[p].quantity[a] +
                IF p = proposals[i].portfolio /\ a = proposals[i].asset
                THEN Signed(proposals[i].side, proposals[i].quantity) ELSE 0
  <2>. SUFFICES ASSUME Base, Faithful, [Next]_vars, NEW i \in DOMAIN proposals, fills'[i] > fills[i],
                       NEW p \in Portfolios, NEW a \in Assets
                PROVE  ledger'[p].quantity[a] = ledger[p].quantity[a] +
                         IF p = proposals[i].portfolio /\ a = proposals[i].asset
                         THEN Signed(proposals[i].side, proposals[i].quantity) ELSE 0
    BY Zenon
  <2>1. /\ proposals \in Seq(Proposals) /\ fills \in Seq(Nat) /\ Len(fills) = Len(proposals)
        /\ ledger[p].quantity[a] \in Int
    BY DEF Base, TypeOK
  <2>2. i \in DOMAIN fills /\ fills[i] \in Nat
    <3>. DEFINE S == Proposals
    <3>1. proposals \in Seq(S)
      BY <2>1
    <3>. HIDE DEF S
    <3>. QED  BY <2>1, <3>1
  <2>3. fills' # fills
    BY <2>2
  <2>4. ~NewProposal
    <3>1. SUFFICES ASSUME fills' = Append(fills, 0) PROVE FALSE
      BY Zenon DEF NewProposal
    <3>2. fills'[i] = fills[i]
      BY <2>1, <2>2, <3>1
    <3>. QED  BY <2>2, <3>2
  <2>5. PICK s \in Sessions : CommitExecute(s)
    BY <2>3, <2>4, ProposalSteps, Zenon
  <2>6. /\ Fillable(s) /\ RecordFill(s) /\ task[s].op = "execute"
        /\ fills' = [fills EXCEPT ![task[s].item] = @ + 1]
    BY <2>5, Zenon DEF CommitExecute, Committing
  <2>7. i = task[s].item
    <3>1. i # task[s].item => fills'[i] = fills[i]
      BY <2>2, <2>6, Zenon
    <3>. QED  BY <2>2, <3>1
  <2>8. /\ task[s].portfolio = proposals[i].portfolio /\ task[s].asset = proposals[i].asset
        /\ task[s].side = proposals[i].side /\ task[s].quantity = proposals[i].quantity
    BY <2>6, <2>7, Zenon DEF Faithful, Terms
  <2>. DEFINE home == task[s].portfolio  asset == task[s].asset
              row == Overwrite(NewState(s), Read(s), position[home][asset])
  <2>9. home \in Portfolios /\ asset \in Assets
    BY TaskTypes
  <2>10. row \in PositionState
    BY <2>6, <2>9, RowWritten
  <2>. HIDE DEF row
  <2>11. ledger'[p].quantity[a] =
           IF p = home /\ a = asset
           THEN ledger[home].quantity[asset] + Signed(task[s].side, task[s].quantity)
           ELSE ledger[p].quantity[a]
    <3>1. \A r \in Portfolios, b \in Assets :
            ledger'[r].quantity[b] =
              IF r = home /\ b = asset
              THEN ledger[home].quantity[asset] + Signed(task[s].side, task[s].quantity)
              ELSE ledger[r].quantity[b]
      <4>1. row = Overwrite(NewState(s), Read(s), position[home][asset])
        BY Zenon DEF row
      <4>2. home = task[s].portfolio /\ asset = task[s].asset
        OBVIOUS
      <4>. HIDE DEF home, asset
      <4>. QED  BY <2>6, <2>9, <2>10, <4>1, <4>2, FilledRows
    <3>. QED  BY <3>1, Zenon
  <2>12. Signed(task[s].side, task[s].quantity) \in Int
    BY <2>6, FillEffect, Zenon
  <2>13. CASE p = home /\ a = asset
    <3>1. ledger'[p].quantity[a] = ledger[p].quantity[a] + Signed(proposals[i].side, proposals[i].quantity)
      BY <2>8, <2>11, <2>13, Zenon
    <3>. QED  BY <2>8, <2>13, <3>1
  <2>14. CASE ~(p = home /\ a = asset)
    <3>1. ledger'[p].quantity[a] = ledger[p].quantity[a]
      BY <2>11, <2>14, Zenon
    <3>2. ~(p = proposals[i].portfolio /\ a = proposals[i].asset)
      BY <2>8, <2>14
    <3>. QED  BY <2>1, <3>1, <3>2
  <2>. QED  BY <2>13, <2>14
<1>. QED  BY <1>1, InitBase, InitFaithful, NextKeepsBase, NextKeepsFaithful, PTL
          DEF Spec, FilledAsProposed
===============================================================================
