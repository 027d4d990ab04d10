--------------------------- MODULE BacktestProofs ---------------------------
(***************************************************************************)
(* Theorems about the back-test engine and its callers: it does not look   *)
(* ahead, its books agree, and the test periods of an experiment stay      *)
(* sealed, for every strategy, sizer, history and request.                 *)
(***************************************************************************)
EXTENDS BacktestRuns, WellFoundedInduction, TLAPS

(* The run is where the comparison makes sense: the loop has not started     *)
(* before the bars are loaded, and every loaded bar is stamped with a day.   *)
Sane ==
    /\ clock \in Nat
    /\ phase = "submit" => clock = 1
    /\ phase \notin {"submit", "rejected"} =>
        \A r \in Runs, t \in Tickers : DOMAIN loaded[r][t] \subseteq Int
    /\ hist \in Histories
    /\ request \in Requests

Unread ==
    phase = "submit" => \A a, b \in Runs : run[a] = run[b]

IInv == Sane /\ Unread /\ NoLookAhead

-----------------------------------------------------------------------------
(* What is known of two histories on a day bounds what a step can tell apart. *)

LEMMA SameTimeline ==
    ASSUME NEW a \in Runs, NEW b \in Runs, NEW day, SameOpens(a, b, day)
    PROVE  OnTimeline(a, day) <=> OnTimeline(b, day)
BY DEF SameOpens, OnTimeline

LEMMA SameOpenPrice ==
    ASSUME NEW a \in Runs, NEW b \in Runs, NEW day, NEW t, SameOpens(a, b, day)
    PROVE  OpenAt(loaded[a], t, day) = OpenAt(loaded[b], t, day)
BY DEF SameOpens, OpenAt

LEMMA SameFill ==
    ASSUME NEW a \in Runs, NEW b \in Runs, NEW day, NEW st, SameOpens(a, b, day)
    PROVE  FillHead(st, loaded[a], day) = FillHead(st, loaded[b], day)
<1>1. OpenAt(loaded[a], Head(st.pending).ticker, day) =
      OpenAt(loaded[b], Head(st.pending).ticker, day)
    BY SameOpenPrice
<1> QED
    BY <1>1 DEF FillHead

LEMMA SameView ==
    ASSUME NEW a \in Runs, NEW b \in Runs, NEW day, SamePast(a, b, day)
    PROVE  ViewAt(loaded[a], day) = ViewAt(loaded[b], day)
<1> DEFINE Seen(r, t) == [d \in {e \in DOMAIN loaded[r][t] : e <= day} |-> loaded[r][t][d]]
<1>1. ASSUME NEW t \in Tickers
      PROVE  Seen(a, t) = Seen(b, t)
    <2>1. {e \in DOMAIN loaded[a][t] : e <= day} = {e \in DOMAIN loaded[b][t] : e <= day}
        BY DEF SamePast
    <2>2. \A d \in {e \in DOMAIN loaded[a][t] : e <= day} : loaded[a][t][d] = loaded[b][t][d]
        BY DEF SamePast
    <2> QED
        BY <2>1, <2>2
<1>2. [t \in Tickers |-> Seen(a, t)] = [t \in Tickers |-> Seen(b, t)]
    BY <1>1
<1> QED
    BY <1>2 DEF ViewAt

LEMMA SameClose ==
    ASSUME NEW a \in Runs, NEW b \in Runs, NEW day, NEW st, SamePast(a, b, day)
    PROVE  CloseBar(st, loaded[a], day) = CloseBar(st, loaded[b], day)
BY SameView DEF CloseBar

LEMMA PastShrinks ==
    ASSUME NEW a \in Runs, NEW b \in Runs, NEW day \in Int, SamePast(a, b, day),
           \A r \in Runs, t \in Tickers : DOMAIN loaded[r][t] \subseteq Int
    PROVE  SamePast(a, b, day - 1)
<1> SUFFICES ASSUME NEW t \in Tickers,
                    NEW d \in DOMAIN loaded[a][t] \union DOMAIN loaded[b][t], d <= day - 1
             PROVE  /\ d \in DOMAIN loaded[a][t] \intersect DOMAIN loaded[b][t]
                    /\ loaded[a][t][d] = loaded[b][t][d]
    BY DEF SamePast
<1>1. d \in Int
    OBVIOUS
<1>2. d <= day
    BY <1>1
<1> QED
    BY <1>2 DEF SamePast

LEMMA PastGivesOpens ==
    ASSUME NEW a \in Runs, NEW b \in Runs, NEW day \in Int, SamePast(a, b, day)
    PROVE  SameOpens(a, b, day)
BY DEF SamePast, SameOpens

-----------------------------------------------------------------------------
LEMMA SaneInit == Init => Sane
BY DEF Init, Sane

LEMMA SaneStep == Sane /\ [Next]_vars => Sane'
<1> SUFFICES ASSUME Sane, [Next]_vars
             PROVE  Sane'
    OBVIOUS
<1> USE DEF Sane
<1>1. CASE Load
    <2>1. ASSUME NEW r \in Runs, NEW t \in Tickers
          PROVE  DOMAIN loaded'[r][t] \subseteq Int
        <3>1. loaded'[r][t] = LoadedBars(request, hist[r])[t]
            BY <1>1 DEF Load
        <3> QED
            BY <3>1, LoadedAssumption
    <2> QED
        BY <1>1, <2>1 DEF Load
<1>2. CASE Close
    BY <1>2 DEF Close
<1>3. CASE UNCHANGED vars
    BY <1>3 DEF vars
<1>4. CASE ApiReject
    BY <1>4 DEF ApiReject
<1>5. CASE Begin
    BY <1>5 DEF Begin
<1>6. CASE FillNext
    BY <1>6 DEF FillNext
<1>7. CASE End
    BY <1>7 DEF End
<1>8. CASE Save
    BY <1>8 DEF Save
<1>9. CASE Finished
    BY <1>9 DEF Finished, vars
<1> QED
    BY <1>1, <1>2, <1>3, <1>4, <1>5, <1>6, <1>7, <1>8, <1>9 DEF Next

-----------------------------------------------------------------------------
LEMMA FillKeeps ==
    ASSUME IInv, FillNext, NEW a \in Runs, NEW b \in Runs, SameSoFar(a, b)
    PROVE  run'[a] = run'[b]
<1>1. run[a] = run[b] /\ SameOpens(a, b, clock)
    BY DEF IInv, NoLookAhead, FillNext, SameSoFar
<1>2. Filling(a) <=> Filling(b)
    BY <1>1, SameTimeline DEF Filling
<1>3. FillHead(run[a], loaded[a], clock) = FillHead(run[b], loaded[b], clock)
    BY <1>1, SameFill
<1> QED
    BY <1>1, <1>2, <1>3 DEF FillNext

LEMMA CloseKeeps ==
    ASSUME IInv, Close, NEW a \in Runs, NEW b \in Runs, SamePast(a, b, clock)
    PROVE  run'[a] = run'[b]
<1>1. clock \in Int /\ \A r \in Runs, t \in Tickers : DOMAIN loaded[r][t] \subseteq Int
    BY DEF IInv, Sane, Close
<1>2. SamePast(a, b, clock - 1)
    BY <1>1, PastShrinks
<1>3. SameOpens(a, b, clock)
    BY <1>1, PastGivesOpens
<1>4. run[a] = run[b]
    BY <1>2, <1>3 DEF IInv, NoLookAhead, Close, SameSoFar
<1>5. OnTimeline(a, clock) <=> OnTimeline(b, clock)
    BY <1>3, SameTimeline
<1>6. CloseBar(run[a], loaded[a], clock) = CloseBar(run[b], loaded[b], clock)
    BY <1>4, SameClose
<1> QED
    BY <1>4, <1>5, <1>6 DEF Close

LEMMA NoLookAheadStep == IInv /\ [Next]_vars => NoLookAhead'
<1> SUFFICES ASSUME IInv, [Next]_vars, phase' \in {"submit", "bar", "fill"},
                    NEW a \in Runs, NEW b \in Runs, SameSoFar(a, b)'
             PROVE  run'[a] = run'[b]
    BY DEF NoLookAhead
<1>1. CASE Load
    BY <1>1 DEF Load, IInv, Unread
<1>2. CASE Begin
    <2>1. SameSoFar(a, b)
        BY <1>2 DEF Begin, SameSoFar, SamePast
    <2> QED
        BY <1>2, <2>1 DEF Begin, IInv, NoLookAhead
<1>3. CASE FillNext
    <2>1. SameSoFar(a, b)
        BY <1>3 DEF FillNext, SameSoFar, SamePast, SameOpens
    <2> QED
        BY <1>3, <2>1, FillKeeps
<1>4. CASE Close
    <2>1. clock' - 1 = clock
        BY <1>4 DEF Close, IInv, Sane
    <2>2. SamePast(a, b, clock)
        BY <1>4, <2>1 DEF Close, SameSoFar, SamePast
    <2> QED
        BY <1>4, <2>2, CloseKeeps
<1>5. CASE UNCHANGED vars
    <2>1. SameSoFar(a, b)
        BY <1>5 DEF vars, SameSoFar, SamePast, SameOpens
    <2> QED
        BY <1>5, <2>1 DEF vars, IInv, NoLookAhead
<1>6. CASE ApiReject
    BY <1>6 DEF ApiReject
<1>7. CASE End
    BY <1>7 DEF End
<1>8. CASE Save
    BY <1>8 DEF Save
<1>9. CASE Finished
    BY <1>9, <1>5 DEF Finished
<1> QED
    BY <1>1, <1>2, <1>3, <1>4, <1>5, <1>6, <1>7, <1>8, <1>9 DEF Next

LEMMA UnreadStep == Unread /\ [Next]_vars => Unread'
BY DEF Unread, Next, ApiReject, Load, Begin, FillNext, Close, End, Save, Finished, vars

(* The anti-lookahead contract (backtesting/engine.py:3): for every strategy, *)
(* sizer, request and set of histories, the state of a run at a point of its  *)
(* loop is a function of the bars before that point, and of the current       *)
(* opens while orders are being filled.                                       *)
THEOREM EngineNeverLooksAhead == Spec => []NoLookAhead
<1>1. Init => IInv
    BY SaneInit DEF Init, IInv, Unread, NoLookAhead
<1>2. IInv /\ [Next]_vars => IInv'
    BY SaneStep, UnreadStep, NoLookAheadStep DEF IInv
<1>3. IInv => NoLookAhead
    BY DEF IInv
<1> QED
    BY <1>1, <1>2, <1>3, PTL DEF Spec

-----------------------------------------------------------------------------
(* Induction over a sequence, as a statement about a set of lengths: that    *)
(* keeps the proofs first-order.                                            *)

LEMMA LeastMember ==
    ASSUME NEW S \in SUBSET Nat, S # {}
    PROVE  \E n \in S : \A m \in S : n <= m
<1>. DEFINE Below == OpToRel(<, Nat)
<1>1. IsWellFoundedOn(Below, Nat)
    BY NatLessThanWellFounded
<1>2. \A x \in Nat, y \in Nat : y < x => <<y, x>> \in Below
    BY DEF OpToRel
<1>. HIDE DEF Below
<1>3. PICK n \in S : \A m \in S : ~ (<<m, n>> \in Below)
    BY <1>1, WFMin
<1>4. ASSUME NEW m \in S
      PROVE  n <= m
    <2>1. n \in Nat /\ m \in Nat /\ ~ (<<m, n>> \in Below)
        BY <1>3
    <2>2. ~ (m < n)
        BY <1>2, <2>1, Zenon
    <2>. QED
        BY <2>1, <2>2
<1>. QED
    BY <1>4

LEMMA SetInduction ==
    ASSUME NEW S, 0 \in S, \A n \in Nat : n \in S => n + 1 \in S
    PROVE  Nat \subseteq S
<1>. DEFINE Absent == {n \in Nat : n \notin S}
<1>. SUFFICES ASSUME Absent # {}
              PROVE  FALSE
    OBVIOUS
<1>1. PICK n \in Absent : \A m \in Absent : n <= m
    BY LeastMember
<1>2. n # 0 /\ n - 1 \in Nat /\ n - 1 \notin Absent
    BY <1>1
<1>. QED
    BY <1>1, <1>2

-----------------------------------------------------------------------------
(* SumOf is a sum. *)

IsSum(f, s, n) == f = [i \in 0..n |-> IF i = 0 THEN 0 ELSE f[i - 1] + s[i]]

LEMMA SumExists ==
    ASSUME NEW s \in Seq(Int)
    PROVE  \E f \in [0..Len(s) -> Int] : IsSum(f, s, Len(s))
<1>. DEFINE S == {n \in Nat : n > Len(s) \/ \E f \in [0..n -> Int] : IsSum(f, s, n)}
<1>1. 0 \in S
    <2>1. [i \in 0..0 |-> 0] \in [0..0 -> Int] /\ IsSum([i \in 0..0 |-> 0], s, 0)
        BY DEF IsSum
    <2>. QED
        BY <2>1
<1>2. ASSUME NEW n \in Nat, n \in S
      PROVE  n + 1 \in S
    <2>1. CASE n + 1 > Len(s)
        BY <2>1
    <2>2. CASE n + 1 <= Len(s)
        <3>1. PICK f \in [0..n -> Int] : IsSum(f, s, n)
            BY <1>2, <2>2
        <3>. DEFINE g == [i \in 0..(n + 1) |-> IF i = n + 1 THEN f[n] + s[n + 1] ELSE f[i]]
        <3>2. g \in [0..(n + 1) -> Int]
            BY <2>2
        <3>3. \A i \in 0..(n + 1) : g[i] = IF i = 0 THEN 0 ELSE g[i - 1] + s[i]
            BY <3>1 DEF IsSum
        <3>4. IsSum(g, s, n + 1)
            BY <3>3 DEF IsSum
        <3>. HIDE DEF g
        <3>5. \E h \in [0..(n + 1) -> Int] : IsSum(h, s, n + 1)
            BY <3>2, <3>4
        <3>. QED
            BY <3>5
    <2>. QED
        BY <2>1, <2>2
<1>3. Nat \subseteq S
    <2>. HIDE DEF S
    <2>. QED
        BY <1>1, <1>2, SetInduction
<1>. QED
    BY <1>3

LEMMA SumUnfolds ==
    ASSUME NEW s \in Seq(Int)
    PROVE  \E f : IsSum(f, s, Len(s)) /\ SumOf(s) = f[Len(s)]
<1>. DEFINE F == CHOOSE f : f = [i \in 0..Len(s) |-> IF i = 0 THEN 0 ELSE f[i - 1] + s[i]]
<1>1. SumOf(s) = F[Len(s)]
    BY DEF SumOf
<1>2. \E f : IsSum(f, s, Len(s))
    BY SumExists
<1>3. IsSum(F, s, Len(s))
    BY <1>2, Zenon DEF IsSum
<1>. QED
    BY <1>1, <1>3, Zenon

LEMMA SumOfNone == SumOf(<<>>) = 0
<1>1. <<>> \in Seq(Int) /\ Len(<<>>) = 0
    OBVIOUS
<1>2. PICK f : IsSum(f, <<>>, 0) /\ SumOf(<<>>) = f[0]
    BY <1>1, SumUnfolds
<1>. QED
    BY <1>2 DEF IsSum

LEMMA SumAppended ==
    ASSUME NEW s \in Seq(Int), NEW x \in Int
    PROVE  SumOf(Append(s, x)) = SumOf(s) + x
<1>. DEFINE more == Append(s, x)  last == Len(s)
<1>1. /\ more \in Seq(Int) /\ last \in Nat /\ Len(more) = last + 1
      /\ more[last + 1] = x /\ \A i \in 1..last : more[i] = s[i]
    OBVIOUS
<1>2. PICK f : IsSum(f, s, last) /\ SumOf(s) = f[last]
    BY SumUnfolds
<1>3. PICK g : IsSum(g, more, last + 1) /\ SumOf(more) = g[last + 1]
    BY <1>1, SumUnfolds
<1>. HIDE DEF more, last
<1>4. /\ f[0] = 0 /\ \A i \in 1..last : f[i] = f[i - 1] + s[i]
      /\ g[0] = 0 /\ \A i \in 1..(last + 1) : g[i] = g[i - 1] + more[i]
    <2>1. f[0] = 0 /\ \A i \in 1..last : f[i] = f[i - 1] + s[i]
        BY <1>1, <1>2 DEF IsSum
    <2>2. g[0] = 0 /\ \A i \in 1..(last + 1) : g[i] = g[i - 1] + more[i]
        BY <1>1, <1>3, SMTT(30) DEF IsSum
    <2>. QED
        BY <2>1, <2>2
<1>. DEFINE S == {n \in Nat : n <= last => f[n] = g[n]}
<1>5. 0 \in S
    BY <1>4
<1>6. ASSUME NEW n \in Nat, n \in S
      PROVE  n + 1 \in S
    <2>. SUFFICES ASSUME n + 1 <= last
                  PROVE  f[n + 1] = g[n + 1]
        OBVIOUS
    <2>1. n + 1 \in 1..last /\ n + 1 \in 1..(last + 1) /\ (n + 1) - 1 = n /\ f[n] = g[n]
        BY <1>1, <1>6
    <2>. QED
        BY <1>1, <1>4, <2>1
<1>7. Nat \subseteq S
    <2>. HIDE DEF S
    <2>. QED
        BY <1>5, <1>6, SetInduction
<1>8. f[last] = g[last] /\ last + 1 \in 1..(last + 1) /\ (last + 1) - 1 = last
    BY <1>1, <1>7
<1>. QED
    BY <1>1, <1>2, <1>3, <1>4, <1>8 DEF more, last

LEMMA SumType ==
    ASSUME NEW s \in Seq(Int)
    PROVE  SumOf(s) \in Int
<1>. DEFINE last == Len(s)
<1>1. last \in Nat /\ \A i \in 1..last : s[i] \in Int
    OBVIOUS
<1>2. PICK f : IsSum(f, s, last) /\ SumOf(s) = f[last]
    BY SumUnfolds
<1>. HIDE DEF last
<1>3. f[0] = 0 /\ \A i \in 1..last : f[i] = f[i - 1] + s[i]
    BY <1>1, <1>2 DEF IsSum
<1>. DEFINE S == {n \in Nat : n <= last => f[n] \in Int}
<1>4. 0 \in S
    BY <1>3
<1>5. ASSUME NEW n \in Nat, n \in S
      PROVE  n + 1 \in S
    <2>. SUFFICES ASSUME n + 1 <= last
                  PROVE  f[n + 1] \in Int
        OBVIOUS
    <2>1. n + 1 \in 1..last /\ (n + 1) - 1 = n /\ f[n] \in Int
        BY <1>1, <1>5
    <2>2. f[n + 1] = f[n] + s[n + 1]
        BY <1>3, <2>1
    <2>3. s[n + 1] \in Int
        BY <1>1, <2>1
    <2>. QED
        BY <2>1, <2>2, <2>3
<1>6. Nat \subseteq S
    <2>. HIDE DEF S
    <2>. QED
        BY <1>4, <1>5, SetInduction
<1>. QED
    BY <1>1, <1>2, <1>6

-----------------------------------------------------------------------------
(* The lists the books are added up from grow by one entry with their list.  *)

LEMMA SequencesAgree ==
    ASSUME NEW S, NEW a \in Seq(S), NEW b \in Seq(S), Len(a) = Len(b),
           \A i \in 1..Len(a) : a[i] = b[i]
    PROVE  a = b
OBVIOUS

LEMMA SumGrows ==
    ASSUME NEW v \in Seq(Int), NEW w \in Seq(Int), Len(w) = Len(v) + 1,
           \A i \in 1..Len(v) : w[i] = v[i]
    PROVE  SumOf(w) = SumOf(v) + w[Len(v) + 1]
<1>. DEFINE x == w[Len(v) + 1]
<1>1. x \in Int
    OBVIOUS
<1>2. /\ Append(v, x) \in Seq(Int) /\ Len(Append(v, x)) = Len(w)
      /\ \A i \in 1..Len(w) : w[i] = Append(v, x)[i]
    BY <1>1
<1>3. w = Append(v, x)
    BY <1>2, SequencesAgree
<1>. HIDE DEF x
<1>4. SumOf(w) = SumOf(v) + x
    BY <1>1, <1>3, SumAppended
<1>. QED
    BY <1>4 DEF x

LEMMA Appended ==
    ASSUME NEW S, NEW s \in Seq(S), NEW x \in S
    PROVE  /\ Len(s) \in Nat /\ DOMAIN s = 1..Len(s)
           /\ DOMAIN Append(s, x) = 1..(Len(s) + 1)
           /\ \A i \in 1..Len(s) : Append(s, x)[i] = s[i] /\ s[i] \in S
           /\ Append(s, x)[Len(s) + 1] = x
OBVIOUS

LEMMA Concatenated ==
    ASSUME NEW S, NEW a \in Seq(S), NEW b \in Seq(S)
    PROVE  /\ a \o b \in Seq(S) /\ Len(a) \in Nat
           /\ Len(a \o b) = Len(a) + Len(b)
OBVIOUS

LEMMA FunctionIsSeq ==
    ASSUME NEW S, NEW n \in Nat, NEW f \in [1..n -> S]
    PROVE  f \in Seq(S) /\ Len(f) = n
OBVIOUS

LEMMA ValuesGrow ==
    ASSUME NEW n \in Nat, NEW v \in [1..n -> Int], NEW w \in [1..(n + 1) -> Int],
           \A i \in 1..n : w[i] = v[i]
    PROVE  SumOf(v) \in Int /\ SumOf(w) = SumOf(v) + w[n + 1]
<1>1. v \in Seq(Int) /\ Len(v) = n /\ n + 1 \in Nat
    BY FunctionIsSeq
<1>2. w \in Seq(Int) /\ Len(w) = n + 1
    BY <1>1, FunctionIsSeq
<1>. QED
    BY <1>1, <1>2, SumGrows, SumType

LEMMA CostsGrow ==
    ASSUME NEW fills \in Seq(FillType), NEW f \in FillType
    PROVE  /\ SumOf(Costs(fills)) \in Int
           /\ SumOf(Costs(Append(fills, f))) =
                SumOf(Costs(fills)) + Cost(f)
<1>. DEFINE n == Len(fills)  S == FillType
            v == [i \in 1..n |-> Cost(fills[i])]
            w == [i \in 1..(n + 1) |-> Cost(Append(fills, f)[i])]
<1>1. \A x \in S : Cost(x) \in Int
    BY DEF FillType, Cost
<1>. HIDE DEF S
<1>2. /\ n \in Nat /\ DOMAIN fills = 1..n /\ DOMAIN Append(fills, f) = 1..(n + 1)
      /\ \A i \in 1..n : Append(fills, f)[i] = fills[i] /\ fills[i] \in S
      /\ Append(fills, f)[n + 1] = f
    BY Appended DEF S
<1>3. Costs(fills) = v /\ Costs(Append(fills, f)) = w
    BY <1>2 DEF Costs
<1>4. /\ \A i \in 1..n : v[i] \in Int /\ w[i] = v[i]
      /\ w[n + 1] = Cost(f) /\ Cost(f) \in Int
    BY <1>1, <1>2 DEF S
<1>5. DOMAIN v = 1..n /\ v = [i \in DOMAIN v |-> v[i]] /\ v \in [1..n -> Int]
    BY <1>4
<1>6. \A i \in 1..(n + 1) : i \in 1..n \/ i = n + 1
    BY <1>2
<1>7. w \in [1..(n + 1) -> Int]
    BY <1>4, <1>6
<1>. HIDE DEF n, v, w
<1>8. SumOf(v) \in Int /\ SumOf(w) = SumOf(v) + Cost(f)
    BY <1>2, <1>4, <1>5, <1>7, ValuesGrow
<1>. QED
    BY <1>3, <1>8, Zenon

LEMMA MovesGrow ==
    ASSUME NEW fills \in Seq(FillType), NEW f \in FillType, NEW t
    PROVE  /\ SumOf(Moves(fills, t)) \in Int
           /\ SumOf(Moves(Append(fills, f), t)) =
                SumOf(Moves(fills, t)) + Moved(f, t)
<1>. DEFINE n == Len(fills)  S == FillType
            v == [i \in 1..n |-> Moved(fills[i], t)]
            w == [i \in 1..(n + 1) |-> Moved(Append(fills, f)[i], t)]
<1>1. \A x \in S : Moved(x, t) \in Int
    BY DEF FillType, Moved, Signed
<1>. HIDE DEF S
<1>2. /\ n \in Nat /\ DOMAIN fills = 1..n /\ DOMAIN Append(fills, f) = 1..(n + 1)
      /\ \A i \in 1..n : Append(fills, f)[i] = fills[i] /\ fills[i] \in S
      /\ Append(fills, f)[n + 1] = f
    BY Appended DEF S
<1>3. Moves(fills, t) = v /\ Moves(Append(fills, f), t) = w
    BY <1>2 DEF Moves
<1>4. /\ \A i \in 1..n : v[i] \in Int /\ w[i] = v[i]
      /\ w[n + 1] = Moved(f, t) /\ Moved(f, t) \in Int
    BY <1>1, <1>2 DEF S
<1>5. DOMAIN v = 1..n /\ v = [i \in DOMAIN v |-> v[i]] /\ v \in [1..n -> Int]
    BY <1>4
<1>6. \A i \in 1..(n + 1) : i \in 1..n \/ i = n + 1
    BY <1>2
<1>7. w \in [1..(n + 1) -> Int]
    BY <1>4, <1>6
<1>. HIDE DEF n, v, w
<1>8. SumOf(v) \in Int /\ SumOf(w) = SumOf(v) + Moved(f, t)
    BY <1>2, <1>4, <1>5, <1>7, ValuesGrow
<1>. QED
    BY <1>3, <1>8, Zenon

LEMMA EarningsGrow ==
    ASSUME NEW trades \in Seq(TradeType), NEW c \in TradeType, NEW t
    PROVE  /\ SumOf(Earnings(trades, t)) \in Int
           /\ SumOf(Earnings(Append(trades, c), t)) =
                SumOf(Earnings(trades, t)) + Earned(c, t)
<1>. DEFINE n == Len(trades)  S == TradeType
            v == [i \in 1..n |-> Earned(trades[i], t)]
            w == [i \in 1..(n + 1) |-> Earned(Append(trades, c)[i], t)]
<1>1. \A x \in S : Earned(x, t) \in Int
    BY DEF TradeType, Earned
<1>. HIDE DEF S
<1>2. /\ n \in Nat /\ DOMAIN trades = 1..n /\ DOMAIN Append(trades, c) = 1..(n + 1)
      /\ \A i \in 1..n : Append(trades, c)[i] = trades[i] /\ trades[i] \in S
      /\ Append(trades, c)[n + 1] = c
    BY Appended DEF S
<1>3. Earnings(trades, t) = v /\ Earnings(Append(trades, c), t) = w
    BY <1>2 DEF Earnings
<1>4. /\ \A i \in 1..n : v[i] \in Int /\ w[i] = v[i]
      /\ w[n + 1] = Earned(c, t) /\ Earned(c, t) \in Int
    BY <1>1, <1>2 DEF S
<1>5. DOMAIN v = 1..n /\ v = [i \in DOMAIN v |-> v[i]] /\ v \in [1..n -> Int]
    BY <1>4
<1>6. \A i \in 1..(n + 1) : i \in 1..n \/ i = n + 1
    BY <1>2
<1>7. w \in [1..(n + 1) -> Int]
    BY <1>4, <1>6
<1>. HIDE DEF n, v, w
<1>8. SumOf(v) \in Int /\ SumOf(w) = SumOf(v) + Earned(c, t)
    BY <1>2, <1>4, <1>5, <1>7, ValuesGrow
<1>. QED
    BY <1>3, <1>8, Zenon

-----------------------------------------------------------------------------
(* What a strategy and a sizer may answer: any strategy, kept in a set of     *)
(* its own states (Memories), whose signals name tickers, have a whole        *)
(* strength and sell some share of a position, and any sizer that, like every *)
(* one of backtesting/sizing.py, answers a whole number the cash pays for.    *)

SignalType ==
    {s \in [ticker : Tickers, action : {"buy", "sell", "hold"}, strength : Int] :
        s.action = "sell" => s.strength > 0}

Order ==
    {o \in [ticker : Tickers, action : {"buy", "sell"}, strength : Int, queued : 1..Days] :
        o.action = "sell" => o.strength > 0}

StrategyContract(Memories) ==
    /\ \A req \in Requests : req.strategy \in Memories
    /\ \A mem \in Memories : \A view :
        /\ OnBar(mem, view).mem \in Memories
        /\ OnBar(mem, view).signals \in Seq(SignalType)

SizerContract ==
    \A req \in Requests, strength \in Int, price \in Nat \ {0}, equity \in Nat, cash \in Nat :
        /\ Size(req.sizer, strength, price, equity, cash) \in Int
        /\ Size(req.sizer, strength, price, equity, cash) <= cash \div price

\* The sizers of backtesting/sizing.py, whose constructors refuse a share, a
\* quantity or a stop distance that is not positive.
Sizer(sizer) ==
    /\ sizer.kind \in {"fraction", "quantity", "risk"}
    /\ sizer.percent \in Nat \ {0}
    /\ sizer.kind = "risk" => sizer.stopPercent \in Nat \ {0}

LEMMA DivFacts ==
    ASSUME NEW a \in Int, NEW b \in Nat \ {0}
    PROVE  a \div b \in Int /\ b * (a \div b) <= a /\ a < b * (a \div b) + b
OBVIOUS

LEMMA ProductSign ==
    ASSUME NEW a \in Nat, NEW b \in Nat
    PROVE  a * b \in Nat
OBVIOUS

LEMMA QuotientSign ==
    ASSUME NEW a \in Nat, NEW b \in Nat \ {0}
    PROVE  a \div b \in Nat
<1>. DEFINE q == a \div b
<1>1. q \in Int /\ a < b * q + b
    BY DivFacts
<1>. HIDE DEF q
<1>2. q >= 0
    <2>. SUFFICES ASSUME q <= -1
                  PROVE  FALSE
        BY <1>1
    <2>1. b * q <= b * (-1)
        BY <1>1
    <2>. QED
        BY <1>1, <2>1
<1>. QED
    BY <1>1, <1>2 DEF q

LEMMA Quotient ==
    ASSUME NEW a \in Int, NEW b \in Nat \ {0}
    PROVE  a \div b \in Int
OBVIOUS

\* A quotient grows with its dividend.
LEMMA QuotientGrows ==
    ASSUME NEW a \in Nat, NEW c \in Nat, a <= c, NEW b \in Nat \ {0}
    PROVE  a \div b \in Int /\ a \div b <= c \div b
<1>. DEFINE p == a \div b  q == c \div b  gap == p - q
<1>1. p \in Int /\ q \in Int /\ b * p <= a /\ c < b * q + b
    BY DivFacts
<1>. HIDE DEF p, q
<1>2. gap \in Int /\ b * gap < b
    BY <1>1
<1>. HIDE DEF gap
<1>3. ~(gap >= 1)
    <2>1. gap >= 1 => b * gap >= b
        BY <1>2
    <2>. QED
        BY <1>2, <2>1
<1>4. p <= q
    BY <1>1, <1>2, <1>3 DEF gap
<1>. QED
    BY <1>1, <1>4 DEF p, q

\* They keep to the contract.
LEMMA StandardSizerFits ==
    ASSUME NEW sizer, Sizer(sizer), NEW strength \in Int, NEW price \in Nat \ {0},
           NEW equity \in Nat, NEW cash \in Nat
    PROVE  /\ StandardSize(sizer, strength, price, equity, cash) \in Int
           /\ StandardSize(sizer, strength, price, equity, cash) <= cash \div price
<1>. DEFINE wish == equity * sizer.percent * strength
            risk == 100 * price * sizer.stopPercent
<1>1. wish \in Int /\ sizer.percent * strength \in Int
    BY DEF Sizer
<1>2. cash \div price \in Nat
    BY QuotientSign
<1>3. CASE sizer.kind = "fraction"
    <2>. DEFINE wanted == wish \div 10000
                budget == IF wanted < cash THEN wanted ELSE cash
    <2>1. wanted \in Int
        <3>. HIDE DEF wish
        <3>. QED
            BY <1>1, Quotient
    <2>2. budget \in Int /\ budget <= cash
        BY <2>1
    <2>3. FixedFraction(sizer, strength, price, equity, cash) =
          IF price <= 0 \/ budget <= 0 THEN 0 ELSE budget \div price
        BY DEF FixedFraction
    <2>. HIDE DEF budget
    <2>4. /\ FixedFraction(sizer, strength, price, equity, cash) \in Int
          /\ FixedFraction(sizer, strength, price, equity, cash) <= cash \div price
        <3>1. CASE budget <= 0
            BY <1>2, <2>3, <3>1
        <3>2. CASE budget > 0
            <4>1. budget \in Nat
                BY <2>2, <3>2
            <4>2. budget \div price \in Int /\ budget \div price <= cash \div price
                BY <2>2, <4>1, QuotientGrows
            <4>3. FixedFraction(sizer, strength, price, equity, cash) = budget \div price
                BY <2>2, <2>3, <3>2
            <4>. QED
                BY <4>2, <4>3
        <3>. QED
            BY <2>2, <3>1, <3>2
    <2>5. StandardSize(sizer, strength, price, equity, cash) =
          FixedFraction(sizer, strength, price, equity, cash)
        BY <1>3 DEF StandardSize
    <2>. QED
        BY <2>4, <2>5
<1>4. CASE sizer.kind = "quantity"
    <2>1. (sizer.percent * strength) \div 100 \in Int
        BY <1>1, Quotient
    <2>2. /\ FixedQuantity(sizer, strength, price, equity, cash) \in Int
          /\ FixedQuantity(sizer, strength, price, equity, cash) <= cash \div price
        BY <1>2, <2>1 DEF FixedQuantity
    <2>3. StandardSize(sizer, strength, price, equity, cash) =
          FixedQuantity(sizer, strength, price, equity, cash)
        BY <1>4 DEF StandardSize
    <2>. QED
        BY <2>2, <2>3
<1>5. CASE sizer.kind = "risk"
    <2>1. risk \in Nat \ {0}
        BY <1>5 DEF Sizer
    <2>2. wish \div risk \in Int
        <3>. HIDE DEF wish, risk
        <3>. QED
            BY <1>1, <2>1, Quotient
    <2>3. RiskBased(sizer, strength, price, equity, cash) =
          IF wish \div risk < cash \div price THEN wish \div risk ELSE cash \div price
        BY DEF RiskBased
    <2>. HIDE DEF wish, risk
    <2>4. /\ RiskBased(sizer, strength, price, equity, cash) \in Int
          /\ RiskBased(sizer, strength, price, equity, cash) <= cash \div price
        BY <1>2, <2>2, <2>3
    <2>5. StandardSize(sizer, strength, price, equity, cash) =
          RiskBased(sizer, strength, price, equity, cash)
        BY <1>5 DEF StandardSize
    <2>. QED
        BY <2>4, <2>5
<1>. QED
    BY <1>3, <1>4, <1>5 DEF Sizer

-----------------------------------------------------------------------------
(* The signals of a bar become a queue of orders. *)

IsQueue(f, s, day, n) ==
    f = [i \in 0..n |-> IF i = 0 THEN <<>>
                        ELSE IF s[i].action = "hold" THEN f[i - 1]
                        ELSE Append(f[i - 1], OrderOf(s[i], day))]

LEMMA OrderOfType ==
    ASSUME NEW signal \in SignalType, signal.action # "hold", NEW day \in 1..Days
    PROVE  OrderOf(signal, day) \in Order
BY DEF SignalType, Order, OrderOf

LEMMA QueueExists ==
    ASSUME NEW s \in Seq(SignalType), NEW day \in 1..Days
    PROVE  \E f \in [0..Len(s) -> Seq(Order)] : IsQueue(f, s, day, Len(s))
<1>. DEFINE Queues == Seq(Order)
            S == {n \in Nat : n > Len(s) \/ \E f \in [0..n -> Queues] : IsQueue(f, s, day, n)}
<1>0. <<>> \in Queues
    OBVIOUS
<1>1. 0 \in S
    <2>. HIDE DEF Queues
    <2>1. [i \in 0..0 |-> <<>>] \in [0..0 -> Queues] /\ IsQueue([i \in 0..0 |-> <<>>], s, day, 0)
        BY <1>0 DEF IsQueue
    <2>. QED
        BY <2>1
<1>2. ASSUME NEW n \in Nat, n \in S
      PROVE  n + 1 \in S
    <2>1. CASE n + 1 > Len(s)
        BY <2>1
    <2>2. CASE n + 1 <= Len(s)
        <3>1. PICK f \in [0..n -> Queues] : IsQueue(f, s, day, n)
            BY <1>2, <2>2
        <3>. DEFINE next == IF s[n + 1].action = "hold" THEN f[n]
                            ELSE Append(f[n], OrderOf(s[n + 1], day))
                    g == [i \in 0..(n + 1) |-> IF i = n + 1 THEN next ELSE f[i]]
        <3>2. next \in Queues
            <4>1. f[n] \in Queues
                OBVIOUS
            <4>2. s[n + 1] \in SignalType
                BY <2>2
            <4>3. CASE s[n + 1].action = "hold"
                BY <4>1, <4>3
            <4>4. CASE s[n + 1].action # "hold"
                <5>1. OrderOf(s[n + 1], day) \in Order
                    BY <4>2, <4>4, OrderOfType
                <5>. QED
                    BY <4>1, <4>4, <5>1
            <4>. QED
                BY <4>3, <4>4
        <3>. HIDE DEF Queues
        <3>3. g \in [0..(n + 1) -> Queues]
            <4>. HIDE DEF next
            <4>1. \A i \in 0..(n + 1) : i = n + 1 \/ i \in 0..n
                OBVIOUS
            <4>. QED
                BY <3>2, <4>1
        <3>4. \A i \in 0..n : g[i] = f[i]
            OBVIOUS
        <3>5. g[n + 1] = next
            OBVIOUS
        <3>6. \A i \in 0..(n + 1) :
                g[i] = IF i = 0 THEN <<>>
                       ELSE IF s[i].action = "hold" THEN g[i - 1]
                       ELSE Append(g[i - 1], OrderOf(s[i], day))
            <4>. SUFFICES ASSUME NEW i \in 0..(n + 1)
                          PROVE  g[i] = IF i = 0 THEN <<>>
                                        ELSE IF s[i].action = "hold" THEN g[i - 1]
                                        ELSE Append(g[i - 1], OrderOf(s[i], day))
                OBVIOUS
            <4>1. CASE i \in 0..n
                <5>1. f[i] = IF i = 0 THEN <<>>
                             ELSE IF s[i].action = "hold" THEN f[i - 1]
                             ELSE Append(f[i - 1], OrderOf(s[i], day))
                    BY <3>1, <4>1 DEF IsQueue
                <5>2. i # 0 => i - 1 \in 0..n
                    BY <4>1
                <5>. HIDE DEF g
                <5>. QED
                    BY <3>4, <4>1, <5>1, <5>2
            <4>2. CASE i = n + 1
                <5>1. i # 0 /\ i - 1 = n /\ n \in 0..n
                    BY <4>2
                <5>. HIDE DEF g
                <5>. QED
                    BY <3>4, <3>5, <4>2, <5>1 DEF next
            <4>. QED
                BY <4>1, <4>2
        <3>7. g = [i \in 0..(n + 1) |-> g[i]]
            OBVIOUS
        <3>8. IsQueue(g, s, day, n + 1)
            <4>. HIDE DEF g
            <4>. QED
                BY <3>6, <3>7 DEF IsQueue
        <3>9. \E h \in [0..(n + 1) -> Queues] : IsQueue(h, s, day, n + 1)
            <4>. HIDE DEF g
            <4>. QED
                BY <3>3, <3>8
        <3>. QED
            BY <3>9
    <2>. QED
        BY <2>1, <2>2
<1>3. Nat \subseteq S
    <2>. HIDE DEF S
    <2>. QED
        BY <1>1, <1>2, SetInduction
<1>. QED
    BY <1>3

LEMMA OrdersType ==
    ASSUME NEW s \in Seq(SignalType), NEW day \in 1..Days
    PROVE  Orders(s, day) \in Seq(Order)
<1>. DEFINE last == Len(s)
            F == CHOOSE f : IsQueue(f, s, day, last)
<1>1. Orders(s, day) = F[last]
    BY DEF Orders, IsQueue
<1>2. IsQueue(F, s, day, last)
    <2>1. \E f : IsQueue(f, s, day, last)
        BY QueueExists
    <2>. QED
        BY <2>1, Zenon
<1>3. last \in Nat /\ \A i \in 1..last : s[i] \in SignalType
    OBVIOUS
<1>. HIDE DEF F, last
<1>. DEFINE S == {n \in Nat : n <= last => F[n] \in Seq(Order)}
<1>4. 0 \in S
    <2>1. F[0] = <<>>
        BY <1>2, <1>3 DEF IsQueue
    <2>2. <<>> \in Seq(Order)
        OBVIOUS
    <2>3. F[0] \in Seq(Order)
        BY <2>1, <2>2, Zenon
    <2>. QED
        BY <2>3
<1>5. ASSUME NEW n \in Nat, n \in S
      PROVE  n + 1 \in S
    <2>. SUFFICES ASSUME n + 1 <= last
                  PROVE  F[n + 1] \in Seq(Order)
        OBVIOUS
    <2>1. n + 1 \in 1..last /\ n + 1 \in 0..last /\ (n + 1) - 1 = n /\ n + 1 # 0
        BY <1>3
    <2>2. F[n + 1] = IF s[n + 1].action = "hold" THEN F[n]
                     ELSE Append(F[n], OrderOf(s[n + 1], day))
        BY <1>2, <2>1 DEF IsQueue
    <2>3. F[n] \in Seq(Order) /\ s[n + 1] \in SignalType
        BY <1>3, <1>5, <2>1
    <2>4. CASE s[n + 1].action = "hold"
        BY <2>2, <2>3, <2>4
    <2>5. CASE s[n + 1].action # "hold"
        <3>1. OrderOf(s[n + 1], day) \in Order
            BY <2>3, <2>5, OrderOfType
        <3>. QED
            BY <2>2, <2>3, <2>5, <3>1
    <2>. QED
        BY <2>4, <2>5
<1>6. Nat \subseteq S
    <2>. HIDE DEF S
    <2>. QED
        BY <1>4, <1>5, SetInduction
<1>. QED
    BY <1>1, <1>3, <1>6

-----------------------------------------------------------------------------
(* The arithmetic of one fill. *)

LEMMA FeeFacts ==
    ASSUME NEW notional \in Nat
    PROVE  CommissionOn(notional) \in Nat /\ CommissionOn(notional) <= notional
<1>. DEFINE fee == CommissionOn(notional)  charge == notional * CommissionBps  unit == 10000
<1>1. CommissionBps \in Nat /\ CommissionBps <= unit /\ unit \in Nat \ {0}
    BY MoneyAssumption
<1>2. charge \in Nat
    BY <1>1, ProductSign
<1>3. charge <= notional * unit
    BY <1>1
<1>4. fee = charge \div unit
    BY DEF CommissionOn
<1>5. fee \in Nat /\ unit * fee <= charge
    <2>. HIDE DEF charge, unit, fee
    <2>. QED
        BY <1>1, <1>2, <1>4, QuotientSign, DivFacts
<1>. HIDE DEF charge, fee
<1>. QED
    BY <1>2, <1>3, <1>5 DEF fee

LEMMA SlippedPrice ==
    ASSUME NEW price \in Nat \ {0}, NEW action
    PROVE  SlippagePrice(price, action) \in Nat \ {0}
<1>. DEFINE adjustment == (price * SlippageBps) \div 10000
<1>1. adjustment \in Nat
    <2>1. price * SlippageBps \in Nat
        BY MoneyAssumption, ProductSign
    <2>. QED
        BY <2>1, QuotientSign
<1>2. SlippagePrice(price, action) \in
        {price, price + adjustment, IF price > adjustment THEN price - adjustment ELSE 1}
    <2>1. CASE action = "buy"
        BY <2>1 DEF SlippagePrice
    <2>2. CASE action = "sell"
        BY <2>2 DEF SlippagePrice
    <2>3. CASE action \notin {"buy", "sell"}
        BY <2>3 DEF SlippagePrice
    <2>. QED
        BY <2>1, <2>2, <2>3
<1>. HIDE DEF adjustment
<1>. QED
    BY <1>1, <1>2

LEMMA AffordableFacts ==
    ASSUME NEW cash \in Nat, NEW price \in Nat \ {0}
    PROVE  LET q == Affordable(cash, price)
           IN  q \in Nat /\ q * price + CommissionOn(q * price) <= cash
<1>. DEFINE unit == 10000
            q == Affordable(cash, price)
            rate == unit + CommissionBps
            n == q * price
            fee == CommissionOn(n)
<1>1. unit \in Nat \ {0} /\ rate \in Nat \ {0} /\ CommissionBps \in Nat
    BY MoneyAssumption
<1>2. price * rate \in Nat \ {0} /\ cash * unit \in Nat
    BY <1>1
<1>3. q = (cash * unit) \div (price * rate)
    BY DEF Affordable
<1>4. q \in Nat /\ (price * rate) * q <= cash * unit
    <2>. DEFINE a == cash * unit  b == price * rate
    <2>1. a \in Nat /\ b \in Nat \ {0} /\ q = a \div b
        BY <1>2, <1>3
    <2>. HIDE DEF a, b, q
    <2>2. q \in Nat /\ b * q <= a
        BY <2>1, QuotientSign, DivFacts
    <2>. QED
        BY <2>2 DEF a, b
<1>. HIDE DEF q
<1>5. n \in Nat
    BY <1>4, ProductSign
<1>6. (price * rate) * q = n * rate
    BY <1>1, <1>4
<1>7. n * rate = n * unit + n * CommissionBps
    BY <1>1, <1>5
<1>8. fee = (n * CommissionBps) \div unit
    BY DEF CommissionOn
<1>9. fee \in Int /\ unit * fee <= n * CommissionBps
    <2>. DEFINE charge == n * CommissionBps
    <2>1. charge \in Int
        BY <1>1, <1>5
    <2>. HIDE DEF charge, fee, n
    <2>2. fee = charge \div unit
        BY <1>8 DEF charge
    <2>3. fee \in Int /\ unit * fee <= charge
        BY <1>1, <2>1, <2>2, DivFacts
    <2>. QED
        BY <2>3 DEF charge
<1>. DEFINE charge == n * CommissionBps
<1>10. charge \in Int
    BY <1>1, <1>5
<1>11. n * unit + charge <= cash * unit /\ unit * fee <= charge
    BY <1>4, <1>6, <1>7, <1>9
<1>. HIDE DEF n, fee, charge
<1>12. n + fee <= cash
    BY <1>5, <1>9, <1>10, <1>11
<1>. QED
    BY <1>4, <1>12 DEF q, n, fee

-----------------------------------------------------------------------------
(* The state of one run of the engine, and its books.                        *)

Holding == [quantity : Nat, cost : Int, realized : Int]
Lot == [entry : Int, opened : 0..Days]
Reasons == {"sizer returned zero", "no position to sell",
            "ticker did not trade on the next bar", "no subsequent bar to fill against"}
Note == [ticker : Tickers, reason : Reasons]

Fields == {"cash", "positions", "lots", "mem", "pending", "issued", "fills", "closed",
           "unfilled", "curve"}

EngineTypes(st, Memories) ==
    /\ DOMAIN st = Fields
    /\ st.mem \in Memories
    /\ st.cash \in Nat
    /\ st.positions \in [Tickers -> Holding]
    /\ st.lots \in [Tickers -> Lot]
    /\ st.pending \in Seq(Order)
    /\ st.issued \in Nat
    /\ st.fills \in Seq(FillType)
    /\ st.closed \in Seq(TradeType)
    /\ st.unfilled \in Seq(Note)

CashBook(st) == st.cash = InitialCash - SumOf(Costs(st.fills))

\* An open lot was opened on a day of the calendar, which tells it from NoLot.
LotFits(lot, position) ==
    /\ position.quantity > 0 <=> lot # NoLot
    /\ position.quantity > 0 => lot.entry = position.cost /\ lot.opened >= 1

HoldingBook(st, t) ==
    /\ st.positions[t].quantity = SumOf(Moves(st.fills, t))
    /\ LotFits(st.lots[t], st.positions[t])

EarningsBook(st, t) == st.positions[t].realized = SumOf(Earnings(st.closed, t))

Books(st) ==
    CashBook(st) /\ \A t \in Tickers : HoldingBook(st, t) /\ EarningsBook(st, t)

\* The orders that have an outcome or are still queued.
Known(st) == Len(st.pending) + Len(st.fills) + Len(st.unfilled)

EngineOK(st, Memories) ==
    EngineTypes(st, Memories) /\ Books(st) /\ Known(st) = st.issued

\* Between taking an order from the queue and writing down what became of it.
InHand(st, Memories) ==
    EngineTypes(st, Memories) /\ Books(st) /\ Known(st) + 1 = st.issued

-----------------------------------------------------------------------------
(* The steps of a fill. *)

\* How the number of known orders changes: one is taken from the queue, one is
\* filled, one is listed as unfilled, a queue is added, the queue is moved.
LEMMA KnownMoves ==
    ASSUME NEW old, NEW new,
           Len(old.pending) \in Nat, Len(old.fills) \in Nat, Len(old.unfilled) \in Nat,
           Len(new.pending) \in Nat, Len(new.fills) \in Nat, Len(new.unfilled) \in Nat
    PROVE  /\ Known(old) \in Nat /\ Known(new) \in Nat
           /\ /\ Len(new.pending) + 1 = Len(old.pending)
              /\ Len(new.fills) = Len(old.fills) /\ Len(new.unfilled) = Len(old.unfilled)
              => Known(new) + 1 = Known(old)
           /\ /\ Len(new.pending) = Len(old.pending)
              /\ Len(new.fills) = Len(old.fills) + 1 /\ Len(new.unfilled) = Len(old.unfilled)
              => Known(new) = Known(old) + 1
           /\ /\ Len(new.pending) = Len(old.pending)
              /\ Len(new.fills) = Len(old.fills) /\ Len(new.unfilled) = Len(old.unfilled) + 1
              => Known(new) = Known(old) + 1
           /\ /\ Len(old.pending) = 0
              /\ Len(new.fills) = Len(old.fills) /\ Len(new.unfilled) = Len(old.unfilled)
              => Known(new) = Known(old) + Len(new.pending)
           /\ /\ Len(new.pending) = 0 /\ Len(new.fills) = Len(old.fills)
              /\ Len(new.unfilled) = Len(old.unfilled) + Len(old.pending)
              => Known(new) = Known(old)
<1>. DEFINE a == Len(old.pending)  b == Len(old.fills)  c == Len(old.unfilled)
            x == Len(new.pending)  y == Len(new.fills)  z == Len(new.unfilled)
            k == Known(old)  m == Known(new)
<1>1. k = a + b + c /\ m = x + y + z
    BY DEF Known
<1>2. /\ a \in Nat /\ b \in Nat /\ c \in Nat /\ x \in Nat /\ y \in Nat /\ z \in Nat
    OBVIOUS
<1>. HIDE DEF a, b, c, x, y, z, k, m
<1>3. /\ k \in Nat /\ m \in Nat
      /\ x + 1 = a /\ y = b /\ z = c => m + 1 = k
      /\ x = a /\ y = b + 1 /\ z = c => m = k + 1
      /\ x = a /\ y = b /\ z = c + 1 => m = k + 1
      /\ a = 0 /\ y = b /\ z = c => m = k + x
      /\ x = 0 /\ y = b /\ z = c + a => m = k
    BY <1>1, <1>2
<1>. QED
    BY <1>3 DEF a, b, c, x, y, z, k, m

LEMMA PoppedKeeps ==
    ASSUME NEW M, NEW st, EngineOK(st, M), st.pending # <<>>
    PROVE  /\ InHand(Popped(st), M)
           /\ Head(st.pending) \in Order
<1>. DEFINE new == Popped(st)  S == Order
<1>1. /\ DOMAIN new = Fields /\ new.pending = Tail(st.pending)
      /\ new.mem = st.mem /\ new.cash = st.cash /\ new.positions = st.positions
      /\ new.lots = st.lots /\ new.issued = st.issued /\ new.fills = st.fills
      /\ new.closed = st.closed /\ new.unfilled = st.unfilled
    BY DEF Popped, EngineOK, EngineTypes, Fields
<1>. HIDE DEF new, S
<1>2. /\ Tail(st.pending) \in Seq(S) /\ Head(st.pending) \in S
      /\ Len(Tail(st.pending)) + 1 = Len(st.pending) /\ Len(Tail(st.pending)) \in Nat
    <2>1. st.pending \in Seq(S)
        BY DEF EngineOK, EngineTypes, S
    <2>. QED
        BY <2>1
<1>3. /\ Len(st.pending) \in Nat /\ Len(st.fills) \in Nat /\ Len(st.unfilled) \in Nat
    BY DEF EngineOK, EngineTypes
<1>4. Known(new) + 1 = Known(st) /\ Known(new) \in Nat
    <2>1. /\ Len(new.pending) + 1 = Len(st.pending) /\ Len(new.pending) \in Nat
          /\ Len(new.fills) = Len(st.fills) /\ Len(new.unfilled) = Len(st.unfilled)
         
        BY <1>1, <1>2, Zenon
    <2>. QED
        BY <1>3, <2>1, KnownMoves, Zenon
<1>5. EngineTypes(new, M)
    BY <1>1, <1>2 DEF EngineOK, EngineTypes, S
<1>6. Books(new)
    BY <1>1 DEF EngineOK, Books, CashBook, HoldingBook, EarningsBook
<1>7. Known(new) + 1 = new.issued
    <2>1. Known(new) + 1 = st.issued /\ st.issued \in Nat /\ new.issued = st.issued
        BY <1>1, <1>4 DEF EngineOK, EngineTypes
    <2>. QED
        BY <1>4, <2>1
<1>. QED
    BY <1>2, <1>5, <1>6, <1>7 DEF InHand, new, S

LEMMA UnfilledKeeps ==
    ASSUME NEW M, NEW st, InHand(st, M),
           NEW order \in Order, NEW reason \in Reasons
    PROVE  EngineOK(Unfilled(st, order, reason), M)
<1>. DEFINE note == [ticker |-> order.ticker, reason |-> reason]
            new == Unfilled(st, order, reason)  S == Note
<1>1. note \in S
    BY DEF Note, Order
<1>2. /\ DOMAIN new = Fields /\ new.unfilled = Append(st.unfilled, note)
      /\ new.mem = st.mem /\ new.cash = st.cash /\ new.positions = st.positions
      /\ new.lots = st.lots /\ new.issued = st.issued /\ new.fills = st.fills
      /\ new.closed = st.closed /\ new.pending = st.pending
    BY DEF Unfilled, InHand, EngineOK, EngineTypes, Fields
<1>. HIDE DEF new, S, note
<1>3. /\ Append(st.unfilled, note) \in Seq(S)
      /\ Len(Append(st.unfilled, note)) = Len(st.unfilled) + 1
    <2>1. st.unfilled \in Seq(S)
        BY DEF InHand, EngineOK, EngineTypes, S
    <2>. QED
        BY <1>1, <2>1
<1>4. /\ Len(st.pending) \in Nat /\ Len(st.fills) \in Nat /\ Len(st.unfilled) \in Nat
    BY DEF InHand, EngineOK, EngineTypes
<1>5. EngineTypes(new, M)
    BY <1>2, <1>3 DEF InHand, EngineOK, EngineTypes, S
<1>6. Books(new)
    BY <1>2 DEF InHand, EngineOK, Books, CashBook, HoldingBook, EarningsBook
<1>7. Known(new) = new.issued
    <2>1. /\ Len(new.pending) = Len(st.pending) /\ Len(new.fills) = Len(st.fills)
          /\ Len(new.unfilled) = Len(st.unfilled) + 1 /\ Len(new.unfilled) \in Nat
         
        BY <1>2, <1>3, <1>4
    <2>2. Known(new) = Known(st) + 1
        BY <1>4, <2>1, KnownMoves, Zenon
    <2>. QED
        BY <1>2, <2>2, Zenon DEF InHand
<1>. QED
    BY <1>5, <1>6, <1>7 DEF InHand, EngineOK, new

LEMMA BookedKeeps ==
    ASSUME NEW M, NEW st, InHand(st, M),
           NEW t \in Tickers, NEW position \in Holding, NEW lot \in Lot, NEW delta \in Int,
           NEW fill \in FillType, fill.ticker = t,
           st.cash + delta >= 0, Cost(fill) = -delta,
           position.quantity = st.positions[t].quantity + Moved(fill, t),
           LotFits(lot, position)
    PROVE  LET new == Booked(st, t, position, lot, delta, fill)
           IN  /\ EngineTypes(new, M) /\ CashBook(new) /\ Known(new) = new.issued
               /\ \A u \in Tickers : HoldingBook(new, u)
               /\ \A u \in Tickers \ {t} : EarningsBook(new, u)
               /\ new.closed = st.closed /\ new.positions[t] = position
<1>. DEFINE new == Booked(st, t, position, lot, delta, fill)  S == FillType
<1>1. /\ DOMAIN new = Fields /\ new.cash = st.cash + delta
      /\ new.positions = [st.positions EXCEPT ![t] = position]
      /\ new.lots = [st.lots EXCEPT ![t] = lot]
      /\ new.fills = Append(st.fills, fill)
      /\ new.mem = st.mem /\ new.issued = st.issued /\ new.pending = st.pending
      /\ new.closed = st.closed /\ new.unfilled = st.unfilled
    BY DEF Booked, InHand, EngineOK, EngineTypes, Fields
<1>2. /\ st.positions \in [Tickers -> Holding] /\ st.lots \in [Tickers -> Lot]
      /\ st.cash \in Nat /\ st.fills \in Seq(S)
      /\ Len(st.pending) \in Nat /\ Len(st.fills) \in Nat /\ Len(st.unfilled) \in Nat
    BY DEF InHand, EngineOK, EngineTypes
<1>. HIDE DEF new, S
<1>3. Append(st.fills, fill) \in Seq(S) /\ Len(Append(st.fills, fill)) = Len(st.fills) + 1
    <2>1. fill \in S
        BY DEF S
    <2>. QED
        BY <1>2, <2>1
<1>4. /\ new.positions \in [Tickers -> Holding] /\ new.lots \in [Tickers -> Lot]
      /\ new.positions[t] = position /\ new.lots[t] = lot
      /\ \A u \in Tickers \ {t} :
            new.positions[u] = st.positions[u] /\ new.lots[u] = st.lots[u]
    BY <1>1, <1>2
<1>5. EngineTypes(new, M)
    <2>1. new.cash \in Nat
        BY <1>1, <1>2
    <2>. QED
        BY <1>1, <1>3, <1>4, <2>1 DEF InHand, EngineOK, EngineTypes, S
<1>6. CashBook(new)
    <2>1. /\ SumOf(Costs(st.fills)) \in Int
          /\ SumOf(Costs(new.fills)) = SumOf(Costs(st.fills)) + Cost(fill)
        BY <1>1, <1>2, CostsGrow DEF S
    <2>2. st.cash = InitialCash - SumOf(Costs(st.fills)) /\ InitialCash \in Int
        BY MoneyAssumption DEF InHand, EngineOK, Books, CashBook
    <2>3. new.cash = InitialCash - SumOf(Costs(new.fills))
        BY <1>1, <2>1, <2>2
    <2>. QED
        BY <2>3 DEF CashBook
<1>7. ASSUME NEW u \in Tickers
      PROVE  HoldingBook(new, u)
    <2>1. /\ SumOf(Moves(st.fills, u)) \in Int
          /\ SumOf(Moves(new.fills, u)) = SumOf(Moves(st.fills, u)) + Moved(fill, u)
        BY <1>1, <1>2, MovesGrow DEF S
    <2>2. /\ st.positions[u].quantity = SumOf(Moves(st.fills, u))
          /\ LotFits(st.lots[u], st.positions[u])
        BY DEF InHand, EngineOK, Books, HoldingBook
    <2>3. CASE u = t
        BY <1>4, <2>1, <2>2, <2>3 DEF HoldingBook
    <2>4. CASE u # t
        <3>1. Moved(fill, u) = 0
            BY <2>4 DEF Moved
        <3>. QED
            BY <1>4, <2>1, <2>2, <2>4, <3>1 DEF HoldingBook
    <2>. QED
        BY <2>3, <2>4
<1>8. ASSUME NEW u \in Tickers \ {t}
      PROVE  EarningsBook(new, u)
    BY <1>1, <1>4 DEF InHand, EngineOK, Books, EarningsBook
<1>9. Known(new) = new.issued
    <2>1. /\ Len(new.pending) = Len(st.pending) /\ Len(new.unfilled) = Len(st.unfilled)
          /\ Len(new.fills) = Len(st.fills) + 1 /\ Len(new.fills) \in Nat
         
        BY <1>1, <1>2, <1>3
    <2>2. Known(new) = Known(st) + 1
        BY <1>2, <2>1, KnownMoves, Zenon
    <2>. QED
        BY <1>1, <2>2, Zenon DEF InHand
<1>. QED
    BY <1>1, <1>4, <1>5, <1>6, <1>7, <1>8, <1>9 DEF new

LEMMA TrimmedFacts ==
    ASSUME NEW cash \in Nat, NEW price \in Nat \ {0}, NEW sized \in Nat
    PROVE  LET q == Trimmed(cash, price, sized)
           IN  q \in Nat /\ q * price + CommissionOn(q * price) <= cash
<1>1. sized * price \in Nat
    BY ProductSign
<1>2. CommissionOn(sized * price) \in Nat
    BY <1>1, FeeFacts
<1>3. CASE sized * price + CommissionOn(sized * price) > cash
    BY <1>3, AffordableFacts DEF Trimmed
<1>4. CASE ~(sized * price + CommissionOn(sized * price) > cash)
    <2>1. Trimmed(cash, price, sized) = sized
        BY <1>4 DEF Trimmed
    <2>2. sized * price + CommissionOn(sized * price) <= cash
        BY <1>1, <1>2, <1>4
    <2>. QED
        BY <2>1, <2>2
<1>. QED
    BY <1>3, <1>4

LEMMA RoundedType ==
    ASSUME NEW a \in Int, NEW b \in Nat \ {0}
    PROVE  Rounded(a, b) \in Int
<1>1. 2 * a + b \in Int /\ 2 * b \in Nat \ {0}
    OBVIOUS
<1>. QED
    BY <1>1, DivFacts DEF Rounded

LEMMA FillBuyKeeps ==
    ASSUME NEW M, NEW st, InHand(st, M), SizerContract,
           request \in Requests,
           NEW order \in Order, NEW price \in Nat \ {0}, NEW day \in 1..Days
    PROVE  EngineOK(FillBuy(st, order, price, day), M)
<1>. DEFINE t        == order.ticker
            position == st.positions[t]
            sized    == Size(request.sizer, order.strength, price,
                             st.cash + position.quantity * price, st.cash)
            q        == Trimmed(st.cash, price, sized)
            fee      == CommissionOn(q * price)
            effect   == BuyEffect(position, q, price, fee)
            opened   == IF st.lots[t] = NoLot THEN day ELSE st.lots[t].opened
            lot      == [entry |-> effect.cost, opened |-> opened]
            delta    == -(q * price + fee)
            fill     == [ticker |-> t, side |-> "buy", quantity |-> q, price |-> price,
                         fee |-> fee, at |-> day, queued |-> order.queued]
            booked   == Booked(st, t, effect, lot, delta, fill)
            refused  == Unfilled(st, order, "sizer returned zero")
            bought   == FillBuy(st, order, price, day)
<1>1. /\ t \in Tickers /\ order.strength \in Int /\ order.queued \in 1..Days
    BY DEF Order
<1>2. /\ st.cash \in Nat /\ position \in Holding /\ st.lots[t] \in Lot
    BY <1>1 DEF InHand, EngineOK, EngineTypes
<1>3. /\ position.quantity \in Nat /\ position.cost \in Int /\ position.realized \in Int
    BY <1>2 DEF Holding
<1>4. sized \in Int /\ (sized > 0 => st.cash > 0)
    <2>1. position.quantity * price \in Nat
        BY <1>3, ProductSign
    <2>2. st.cash + position.quantity * price \in Nat
        BY <1>2, <2>1
    <2>3. sized \in Int /\ sized <= st.cash \div price
        BY <1>1, <1>2, <2>2 DEF SizerContract
    <2>4. st.cash = 0 => st.cash \div price = 0
        BY <1>2
    <2>. QED
        BY <1>2, <2>3, <2>4
<1>5. bought = IF sized <= 0 \/ (q <= 0 /\ st.cash > 0) THEN refused
               ELSE IF q <= 0 THEN st ELSE booked
    BY DEF FillBuy
<1>. HIDE DEF sized, booked, bought
<1>. EngineOK(refused, M)
    <2>1. "sizer returned zero" \in Reasons
        BY DEF Reasons
    <2>. QED
        BY <2>1, UnfilledKeeps
<1>. HIDE DEF refused
<1>6. CASE sized <= 0
    BY <1>5, <1>6 DEF bought
<1>7. CASE sized > 0
    <2>1. q \in Nat /\ q * price + fee <= st.cash
        <3>1. sized \in Nat
            BY <1>4, <1>7
        <3>. QED
            BY <1>2, <3>1, TrimmedFacts
    <2>. HIDE DEF q
    <2>2. q * price \in Nat
        BY <2>1, ProductSign
    <2>3. fee \in Nat
        BY <2>2, FeeFacts
    <2>4. CASE q = 0
        <3>1. q <= 0 /\ st.cash > 0
            BY <1>4, <1>7, <2>4
        <3>2. bought = refused
            BY <1>5, <3>1, Zenon
        <3>. QED
            BY <3>2 DEF bought
    <2>5. CASE q # 0
        <3>1. bought = booked
            <4>1. ~(sized <= 0 \/ (q <= 0 /\ st.cash > 0)) /\ ~(q <= 0)
                BY <1>4, <1>7, <2>1, <2>5
            <4>. QED
                BY <1>5, <4>1, Zenon
        <3>. HIDE DEF position, fee
        <3>2. /\ position.quantity + q \in Nat \ {0}
              /\ position.quantity * position.cost + q * price + fee \in Int
            <4>1. position.quantity * position.cost \in Int
                BY <1>3
            <4>. QED
                BY <1>3, <2>1, <2>2, <2>3, <2>5, <4>1
        <3>3. /\ effect \in Holding /\ effect.quantity = position.quantity + q
              /\ effect.realized = position.realized
            <4>1. Rounded(position.quantity * position.cost + q * price + fee,
                          position.quantity + q) \in Int
                BY <3>2, RoundedType
            <4>. QED
                BY <1>3, <3>2, <4>1 DEF BuyEffect, Holding
        <3>4. fill \in FillType /\ fill.ticker = t /\ fill.side = "buy"
              /\ fill.quantity = q /\ fill.price = price /\ fill.fee = fee
            BY <1>1, <2>1, <2>3, <2>5 DEF FillType
        <3>5. opened \in 1..Days
            <4>1. LotFits(st.lots[t], st.positions[t])
                BY <1>1 DEF InHand, EngineOK, Books, HoldingBook
            <4>2. st.lots[t] # NoLot => st.lots[t].opened >= 1
                BY <4>1 DEF LotFits
            <4>3. st.lots[t].opened \in 0..Days
                BY <1>2 DEF Lot
            <4>. QED
                BY <4>2, <4>3, DaysAssumption
        <3>. HIDE DEF effect, opened, fill
        <3>6. /\ effect.quantity > 0 /\ effect.cost \in Int
            BY <3>2, <3>3 DEF Holding
        <3>7. lot \in Lot /\ LotFits(lot, effect)
            BY <3>5, <3>6, DaysAssumption DEF Lot, LotFits, NoLot
        <3>8. /\ delta \in Int /\ st.cash + delta >= 0 /\ Cost(fill) = -delta
              /\ Moved(fill, t) = q
            <4>1. q * price + fee \in Int
                BY <2>2, <2>3
            <4>2. Cost(fill) = q * price + fee /\ Moved(fill, t) = q
                BY <3>4 DEF Cost, Moved, Signed
            <4>. QED
                BY <1>2, <2>1, <4>1, <4>2
        <3>9. effect.quantity = st.positions[t].quantity + Moved(fill, t)
            BY <3>3, <3>8 DEF position
        <3>. HIDE DEF lot, delta, t
        <3>. DEFINE new == Booked(st, t, effect, lot, delta, fill)
        <3>10. /\ EngineTypes(new, M) /\ CashBook(new) /\ Known(new) = new.issued
               /\ \A u \in Tickers : HoldingBook(new, u)
               /\ \A u \in Tickers \ {t} : EarningsBook(new, u)
               /\ new.closed = st.closed /\ new.positions[t] = effect
            BY <1>1, <3>3, <3>4, <3>7, <3>8, <3>9, BookedKeeps
        <3>. HIDE DEF new
        <3>11. EarningsBook(new, t)
            BY <1>1, <3>3, <3>10 DEF InHand, EngineOK, Books, EarningsBook, position
        <3>12. EngineOK(new, M)
            BY <3>10, <3>11 DEF InHand, EngineOK, Books
        <3>. QED
            BY <3>1, <3>12 DEF new, booked, bought
    <2>. QED
        BY <2>4, <2>5
<1>. QED
    BY <1>4, <1>6, <1>7

LEMMA SoldShare ==
    ASSUME NEW held \in Nat \ {0}, NEW strength \in Nat \ {0}
    PROVE  LET q == LotsOf(held, ShareSold(strength))
           IN  q \in Nat \ {0} /\ q <= held
<1>. DEFINE share == ShareSold(strength)  part == held * share  whole == part + 99
            q == LotsOf(held, share)
<1>1. share \in Nat \ {0} /\ share <= 100
    BY DEF ShareSold
<1>. HIDE DEF share
<1>2. part \in Nat \ {0} /\ part <= held * 100
    <2>1. part >= held
        BY <1>1
    <2>. QED
        BY <1>1, <2>1
<1>3. q = whole \div 100
    BY DEF LotsOf
<1>. HIDE DEF part, q
<1>4. whole \in Nat /\ whole >= 100 /\ whole < held * 100 + 100
    BY <1>2
<1>. HIDE DEF whole
<1>5. q \in Int /\ 100 * q <= whole /\ whole < 100 * q + 100
    BY <1>3, <1>4, DivFacts
<1>6. q \in Nat \ {0} /\ q <= held
    BY <1>4, <1>5
<1>. QED
    BY <1>6 DEF q, share

LEMMA ClosedKeeps ==
    ASSUME NEW M, NEW st, NEW t \in Tickers, NEW trade \in TradeType, trade.ticker = t,
           EngineTypes(st, M), CashBook(st), Known(st) = st.issued,
           \A u \in Tickers : HoldingBook(st, u),
           \A u \in Tickers \ {t} : EarningsBook(st, u),
           st.positions[t].realized = SumOf(Earnings(st.closed, t)) + trade.pnl
    PROVE  EngineOK(Closed(st, trade), M)
<1>. DEFINE new == Closed(st, trade)  S == TradeType
<1>1. /\ DOMAIN new = Fields /\ new.closed = Append(st.closed, trade)
      /\ new.mem = st.mem /\ new.cash = st.cash /\ new.positions = st.positions
      /\ new.lots = st.lots /\ new.issued = st.issued /\ new.fills = st.fills
      /\ new.unfilled = st.unfilled /\ new.pending = st.pending
    BY DEF Closed, EngineTypes, Fields
<1>. HIDE DEF new, S
<1>2. st.closed \in Seq(S) /\ Append(st.closed, trade) \in Seq(S)
    <2>1. st.closed \in Seq(S) /\ trade \in S
        BY DEF EngineTypes, S
    <2>. QED
        BY <2>1
<1>3. EngineTypes(new, M)
    BY <1>1, <1>2 DEF EngineTypes, S
<1>4. CashBook(new) /\ \A u \in Tickers : HoldingBook(new, u)
    BY <1>1 DEF CashBook, HoldingBook
<1>5. Known(new) = Known(st)
    BY <1>1, Zenon DEF Known
<1>6. ASSUME NEW u \in Tickers
      PROVE  EarningsBook(new, u)
    <2>1. /\ SumOf(Earnings(st.closed, u)) \in Int
          /\ SumOf(Earnings(new.closed, u)) = SumOf(Earnings(st.closed, u)) + Earned(trade, u)
        BY <1>1, <1>2, EarningsGrow DEF S
    <2>2. CASE u = t
        BY <1>1, <2>1, <2>2 DEF EarningsBook, Earned
    <2>3. CASE u # t
        <3>1. Earned(trade, u) = 0
            BY <2>3 DEF Earned
        <3>. QED
            BY <1>1, <2>1, <2>3, <3>1 DEF EarningsBook
    <2>. QED
        BY <2>2, <2>3
<1>. QED
    BY <1>1, <1>3, <1>4, <1>5, <1>6 DEF EngineOK, Books, new

LEMMA FillSellKeeps ==
    ASSUME NEW M, NEW st, InHand(st, M),
           NEW order \in Order, order.action = "sell",
           NEW price \in Nat \ {0}, NEW day \in 1..Days
    PROVE  EngineOK(FillSell(st, order, price, day), M)
<1>. DEFINE t        == order.ticker
            position == st.positions[t]
            q        == LotsOf(position.quantity, ShareSold(order.strength))
            fee      == CommissionOn(q * price)
            effect   == SellEffect(position, q, price, fee)
            gain     == SellGain(position, q, price, fee)
            lot      == st.lots[t]
            left     == LotAfterSale(lot, effect)
            delta    == q * price - fee
            fill     == [ticker |-> t, side |-> "sell", quantity |-> q, price |-> price,
                         fee |-> fee, at |-> day, queued |-> order.queued]
            trade    == [ticker |-> t, quantity |-> q, opened |-> lot.opened, at |-> day,
                         pnl |-> gain]
            booked   == Booked(st, t, effect, left, delta, fill)
            closed   == Closed(booked, trade)
            sold     == FillSell(st, order, price, day)
            refusal  == Unfilled(st, order, "no position to sell")
<1>1. /\ t \in Tickers /\ order.strength \in Int /\ order.queued \in 1..Days
    BY DEF Order
<1>2. /\ st.cash \in Nat /\ position \in Holding /\ lot \in Lot
    BY <1>1 DEF InHand, EngineOK, EngineTypes
<1>3. /\ position.quantity \in Nat /\ position.cost \in Int /\ position.realized \in Int
    BY <1>2 DEF Holding
<1>4. sold = IF position.quantity <= 0 THEN refusal
             ELSE IF q <= 0 THEN st
             ELSE IF lot = NoLot THEN booked ELSE closed
    BY DEF FillSell
<1>5. position.quantity # 0 => q \in Nat \ {0} /\ q <= position.quantity
    <2>1. order.strength \in Nat \ {0}
        BY <1>1 DEF Order
    <2>. QED
        BY <1>3, <2>1, SoldShare
<1>. HIDE DEF refusal, closed, sold, booked, q
<1>6. CASE position.quantity = 0
    <2>1. "no position to sell" \in Reasons
        BY DEF Reasons
    <2>2. EngineOK(refusal, M)
        BY <2>1, UnfilledKeeps DEF refusal
    <2>3. position.quantity <= 0
        BY <1>6
    <2>4. sold = refusal
        BY <1>4, <2>3, Zenon
    <2>. QED
        BY <2>2, <2>4 DEF sold
<1>7. CASE position.quantity # 0
    <2>. q \in Nat \ {0} /\ q <= position.quantity
        BY <1>5, <1>7
    <2>1. LotFits(lot, position)
        BY <1>1 DEF InHand, EngineOK, Books, HoldingBook
    <2>2. position.quantity > 0
        BY <1>3, <1>7
    <2>3. lot # NoLot /\ lot.entry = position.cost /\ lot.opened >= 1
        BY <2>1, <2>2 DEF LotFits
    <2>4. sold = closed
        <3>1. ~(position.quantity <= 0) /\ ~(q <= 0)
            BY <1>3, <1>5, <1>7
        <3>. QED
            BY <1>4, <2>3, <3>1, Zenon
    <2>. HIDE DEF position, lot
    <2>5. q * price \in Nat
        BY <1>5, ProductSign
    <2>6. fee \in Nat /\ fee <= q * price
        BY <2>5, FeeFacts
    <2>. HIDE DEF fee
    <2>7. gain \in Int
        <3>1. price - position.cost \in Int
            BY <1>3
        <3>2. q * (price - position.cost) \in Int
            BY <1>5, <3>1
        <3>. QED
            BY <2>6, <3>2 DEF SellGain
    <2>8. /\ effect \in Holding /\ effect.quantity = position.quantity - q
          /\ effect.realized = position.realized + gain
          /\ effect.cost = IF position.quantity > q THEN position.cost ELSE 0
        <3>. HIDE DEF gain
        <3>1. effect = [quantity |-> position.quantity - q,
                        cost     |-> IF position.quantity > q THEN position.cost ELSE 0,
                        realized |-> position.realized + gain]
            BY DEF SellEffect, gain
        <3>. HIDE DEF effect
        <3>2. position.quantity - q \in Nat /\ position.realized + gain \in Int
            BY <1>3, <1>5, <2>7
        <3>. QED
            BY <1>3, <3>1, <3>2 DEF Holding
    <2>9. fill \in FillType /\ fill.ticker = t /\ fill.side = "sell"
          /\ fill.quantity = q /\ fill.price = price /\ fill.fee = fee
        BY <1>1, <1>5, <1>7, <2>6 DEF FillType
    <2>10. trade \in TradeType /\ trade.ticker = t /\ trade.pnl = gain
        <3>. HIDE DEF gain
        <3>1. lot.opened \in 0..Days
            BY <1>2 DEF Lot
        <3>. QED
            BY <1>1, <1>5, <2>7, <3>1 DEF TradeType
    <2>. HIDE DEF effect, fill, trade, gain
    <2>11. left \in Lot /\ LotFits(left, effect)
        <3>1. CASE effect.quantity <= 0
            <4>1. left = NoLot /\ NoLot \in Lot
                BY <3>1, DaysAssumption DEF LotAfterSale, NoLot, Lot
            <4>. QED
                BY <3>1, <2>8, <4>1 DEF LotFits, Holding
        <3>2. CASE ~(effect.quantity <= 0)
            <4>1. left = lot
                BY <3>2 DEF LotAfterSale
            <4>2. effect.cost = position.cost
                BY <1>3, <1>5, <2>8, <3>2
            <4>. QED
                BY <1>2, <2>3, <2>8, <3>2, <4>1, <4>2 DEF LotFits, Holding
        <3>. QED
            BY <3>1, <3>2
    <2>12. /\ delta \in Int /\ st.cash + delta >= 0 /\ Cost(fill) = -delta
           /\ Moved(fill, t) = -q
        <3>1. Cost(fill) = fee - q * price /\ Moved(fill, t) = -q
            BY <2>9 DEF Cost, Moved, Signed
        <3>. QED
            BY <1>2, <2>5, <2>6, <3>1
    <2>13. effect.quantity = st.positions[t].quantity + Moved(fill, t)
        BY <1>3, <1>5, <2>8, <2>12 DEF position
    <2>. HIDE DEF left, delta, t
    <2>14. /\ EngineTypes(booked, M) /\ CashBook(booked) /\ Known(booked) = booked.issued
           /\ \A u \in Tickers : HoldingBook(booked, u)
           /\ \A u \in Tickers \ {t} : EarningsBook(booked, u)
           /\ booked.closed = st.closed /\ booked.positions[t] = effect
        BY <1>1, <2>8, <2>9, <2>11, <2>12, <2>13, BookedKeeps DEF booked
    <2>15. booked.positions[t].realized = SumOf(Earnings(booked.closed, t)) + trade.pnl
        <3>1. position.realized = SumOf(Earnings(st.closed, t))
            BY <1>1 DEF InHand, EngineOK, Books, EarningsBook, position
        <3>. QED
            BY <2>8, <2>10, <2>14, <3>1
    <2>16. EngineOK(closed, M)
        BY <1>1, <2>10, <2>14, <2>15, ClosedKeeps DEF closed
    <2>. QED
        BY <2>4, <2>16 DEF sold
<1>. QED
    BY <1>6, <1>7

Opens(bars) ==
    \A t \in Tickers : \A d \in DOMAIN bars[t] : bars[t][d].open \in Nat \ {0}

LEMMA FillHeadKeeps ==
    ASSUME NEW M, NEW st, EngineOK(st, M), st.pending # <<>>, SizerContract,
           request \in Requests, NEW bars, Opens(bars), NEW day \in 1..Days
    PROVE  EngineOK(FillHead(st, bars, day), M)
<1>. DEFINE order  == Head(st.pending)
            rest   == Popped(st)
            open   == OpenAt(bars, order.ticker, day)
            price  == SlippagePrice(open, order.action)
            bought == FillBuy(rest, order, price, day)
            sold   == FillSell(rest, order, price, day)
            missed == Missed(rest, order)
            result == FillHead(st, bars, day)
<1>1. InHand(rest, M) /\ order \in Order
    BY PoppedKeeps
<1>2. result = IF open = NoBar THEN missed
               ELSE IF order.action = "buy" THEN bought
               ELSE IF order.action = "sell" THEN sold ELSE rest
    BY DEF FillHead
<1>3. open = NoBar \/ open \in Nat \ {0}
    BY DEF OpenAt, Opens
<1>. HIDE DEF order, rest, open, missed, bought, sold, result
<1>4. CASE open = NoBar
    <2>1. "ticker did not trade on the next bar" \in Reasons
        BY DEF Reasons
    <2>2. EngineOK(missed, M)
        BY <1>1, <2>1, UnfilledKeeps DEF missed, Missed
    <2>3. result = missed
        BY <1>2, <1>4, Zenon
    <2>. QED
        BY <2>2, <2>3 DEF result
<1>5. CASE open # NoBar
    <2>1. price \in Nat \ {0}
        BY <1>3, <1>5, SlippedPrice
    <2>. HIDE DEF price
    <2>2. EngineOK(bought, M)
        BY <1>1, <2>1, FillBuyKeeps DEF bought
    <2>3. order.action = "sell" => EngineOK(sold, M)
        BY <1>1, <2>1, FillSellKeeps DEF sold
    <2>4. order.action \in {"buy", "sell"}
        BY <1>1 DEF Order
    <2>5. order.action = "buy" => result = bought
        BY <1>2, <1>5
    <2>6. order.action = "sell" => result = sold
        BY <1>2, <1>5
    <2>7. EngineOK(result, M)
        BY <2>2, <2>3, <2>4, <2>5, <2>6
    <2>. QED
        BY <2>7 DEF result
<1>. QED
    BY <1>4, <1>5

-----------------------------------------------------------------------------
(* The close of a bar and the end of the loop. *)

LEMMA CloseBarKeeps ==
    ASSUME NEW M, NEW st, EngineOK(st, M), st.pending = <<>>, StrategyContract(M),
           NEW bars, NEW day \in 1..Days
    PROVE  EngineOK(CloseBar(st, bars, day), M)
<1>. DEFINE view   == ViewAt(bars, day)
            answer == Decided(st, view)
            orders == Orders(answer.signals, day)
            mark   == [day |-> day, cash |-> st.cash, values |-> PositionsValue(st, view)]
            new    == CloseBar(st, bars, day)
            S      == Order
<1>1. answer.mem \in M /\ answer.signals \in Seq(SignalType)
    BY DEF Decided, EngineOK, EngineTypes, StrategyContract
<1>. HIDE DEF answer
<1>2. orders \in Seq(Order)
    BY <1>1, OrdersType
<1>. HIDE DEF orders
<1>3. new = [st EXCEPT !.mem = answer.mem, !.pending = orders,
                       !.issued = st.issued + Len(orders), !.curve = Append(st.curve, mark)]
    BY DEF CloseBar, answer, orders
<1>. HIDE DEF new, mark, view, S
<1>4. /\ DOMAIN new = Fields /\ new.mem = answer.mem /\ new.pending = orders
      /\ new.issued = st.issued + Len(orders)
      /\ new.cash = st.cash /\ new.positions = st.positions
      /\ new.lots = st.lots /\ new.fills = st.fills
      /\ new.closed = st.closed /\ new.unfilled = st.unfilled
    BY <1>3 DEF EngineOK, EngineTypes, Fields
<1>5. /\ Len(st.pending) = 0 /\ Len(st.fills) \in Nat /\ Len(st.unfilled) \in Nat
      /\ Len(orders) \in Nat
    <2>1. orders \in Seq(S)
        BY <1>2 DEF S
    <2>2. Len(orders) \in Nat
        BY <2>1
    <2>3. Len(st.fills) \in Nat /\ Len(st.unfilled) \in Nat
        BY DEF EngineOK, EngineTypes
    <2>4. Len(st.pending) = 0
        OBVIOUS
    <2>. QED
        BY <2>2, <2>3, <2>4
<1>6. new.issued \in Nat
    BY <1>4, <1>5 DEF EngineOK, EngineTypes
<1>7. EngineTypes(new, M)
    BY <1>1, <1>2, <1>4, <1>6 DEF EngineOK, EngineTypes
<1>8. Books(new)
    BY <1>4 DEF EngineOK, Books, CashBook, HoldingBook, EarningsBook
<1>9. Known(new) = new.issued
    <2>1. /\ Len(new.pending) = Len(orders) /\ Len(new.fills) = Len(st.fills)
          /\ Len(new.unfilled) = Len(st.unfilled) /\ Len(st.pending) \in Nat
        BY <1>4, <1>5
    <2>2. Known(new) = Known(st) + Len(orders) /\ Known(st) \in Nat
        BY <1>5, <2>1, KnownMoves, Zenon
    <2>3. Known(st) = st.issued /\ st.issued \in Nat
        BY DEF EngineOK, EngineTypes
    <2>. QED
        BY <1>4, <1>5, <2>2, <2>3
<1>. QED
    BY <1>7, <1>8, <1>9 DEF EngineOK, new

LEMMA ExpiredKeeps ==
    ASSUME NEW M, NEW st, EngineOK(st, M)
    PROVE  EngineOK(Expired(st), M)
<1>. DEFINE notes == [i \in DOMAIN st.pending |->
                        [ticker |-> st.pending[i].ticker,
                         reason |-> "no subsequent bar to fill against"]]
            n == Len(st.pending)  S == Note
            new == Expired(st)
<1>1. st.pending \in Seq(Order) /\ st.unfilled \in Seq(S) /\ st.fills \in Seq(FillType)
    BY DEF EngineOK, EngineTypes
<1>2. n \in Nat /\ DOMAIN st.pending = 1..n /\ \A i \in 1..n : st.pending[i] \in Order
    <2>. DEFINE T == Order
    <2>1. st.pending \in Seq(T)
        BY <1>1
    <2>. HIDE DEF T
    <2>2. n \in Nat /\ DOMAIN st.pending = 1..n /\ \A i \in 1..n : st.pending[i] \in T
        BY <2>1
    <2>. QED
        BY <2>2 DEF T
<1>3. notes \in [1..n -> S]
    <2>1. \A i \in 1..n : [ticker |-> st.pending[i].ticker,
                           reason |-> "no subsequent bar to fill against"] \in Note
        BY <1>2 DEF Order, Note, Reasons
    <2>. QED
        BY <1>2, <2>1
<1>4. /\ DOMAIN new = Fields /\ new.pending = <<>> /\ new.unfilled = st.unfilled \o notes
      /\ new.mem = st.mem /\ new.cash = st.cash /\ new.positions = st.positions
      /\ new.lots = st.lots /\ new.issued = st.issued /\ new.fills = st.fills
      /\ new.closed = st.closed
    BY DEF Expired, EngineOK, EngineTypes, Fields
<1>. HIDE DEF notes, n, S, new
<1>5. notes \in Seq(S) /\ Len(notes) = n
    BY <1>2, <1>3, FunctionIsSeq
<1>6. /\ st.unfilled \o notes \in Seq(S)
      /\ Len(st.unfilled \o notes) = Len(st.unfilled) + n /\ Len(st.unfilled) \in Nat
    <2>1. /\ st.unfilled \o notes \in Seq(S) /\ Len(st.unfilled) \in Nat
          /\ Len(st.unfilled \o notes) = Len(st.unfilled) + Len(notes)
        BY <1>1, <1>5, Concatenated
    <2>. QED
        BY <1>5, <2>1, Zenon
<1>7. EngineTypes(new, M)
    <2>1. <<>> \in Seq(Order)
        OBVIOUS
    <2>. QED
        BY <1>4, <1>6, <2>1 DEF EngineOK, EngineTypes, S
<1>8. Books(new)
    BY <1>4 DEF EngineOK, Books, CashBook, HoldingBook, EarningsBook
<1>9. Known(new) = new.issued
    <2>1. Len(st.fills) \in Nat /\ Len(<<>>) = 0
        BY <1>1 DEF EngineOK, EngineTypes
    <2>2. /\ Len(new.pending) = 0 /\ Len(new.fills) = Len(st.fills)
          /\ Len(new.unfilled) = Len(st.unfilled) + Len(st.pending)
          /\ Len(new.unfilled) \in Nat /\ Len(st.pending) \in Nat /\ Len(new.pending) \in Nat
        <3>1. /\ Len(new.pending) = 0 /\ Len(new.fills) = Len(st.fills)
              /\ Len(new.unfilled) = Len(st.unfilled) + n
            BY <1>4, <1>6, <2>1, Zenon
        <3>2. Len(st.unfilled) + n \in Nat
            BY <1>2, <1>6
        <3>3. Len(st.pending) = n /\ 0 \in Nat
            BY DEF n
        <3>. QED
            BY <1>2, <3>1, <3>2, <3>3, Zenon
    <2>3. Known(new) = Known(st)
        BY <1>4, <1>6, <2>1, <2>2, KnownMoves, Zenon
    <2>. QED
        BY <1>4, <2>3 DEF EngineOK
<1>. QED
    BY <1>7, <1>8, <1>9 DEF EngineOK, new

LEMMA FreshBooks ==
    ASSUME NEW M, NEW mem \in M
    PROVE  EngineOK(Fresh(mem), M)
<1>. DEFINE st == Fresh(mem)
<1>1. /\ DOMAIN st = Fields /\ st.cash = InitialCash /\ st.mem = mem
      /\ st.positions = [t \in Tickers |-> Flat] /\ st.lots = [t \in Tickers |-> NoLot]
      /\ st.pending = <<>> /\ st.fills = <<>> /\ st.closed = <<>> /\ st.unfilled = <<>>
      /\ st.issued = 0
    BY DEF Fresh, Fields
<1>. HIDE DEF st
<1>2. /\ <<>> \in Seq(Order) /\ <<>> \in Seq(FillType) /\ <<>> \in Seq(TradeType)
      /\ <<>> \in Seq(Note) /\ Len(<<>>) = 0
    OBVIOUS
<1>3. Flat \in Holding /\ NoLot \in Lot /\ InitialCash \in Nat
    BY DaysAssumption, MoneyAssumption DEF Flat, Holding, NoLot, Lot
<1>4. EngineTypes(st, M)
    BY <1>1, <1>2, <1>3 DEF EngineTypes
<1>5. /\ Costs(<<>>) = <<>>
      /\ \A t \in Tickers : Moves(<<>>, t) = <<>> /\ Earnings(<<>>, t) = <<>>
    BY DEF Costs, Moves, Earnings
<1>6. CashBook(st)
    BY <1>1, <1>3, <1>5, SumOfNone DEF CashBook
<1>7. ASSUME NEW t \in Tickers
      PROVE  HoldingBook(st, t) /\ EarningsBook(st, t)
    <2>1. st.positions[t] = Flat /\ st.lots[t] = NoLot
        BY <1>1
    <2>2. Flat.quantity = 0 /\ Flat.realized = 0
        BY DEF Flat
    <2>. QED
        BY <1>1, <1>5, <2>1, <2>2, SumOfNone DEF HoldingBook, EarningsBook, LotFits
<1>8. Known(st) = st.issued
    BY <1>1, <1>2 DEF Known
<1>. QED
    BY <1>4, <1>6, <1>7, <1>8 DEF EngineOK, Books, st

-----------------------------------------------------------------------------
(* The books of every run, through the whole loop.                           *)

Loop ==
    /\ phase \in {"submit", "bar", "fill", "end", "done", "rejected"}
    /\ clock \in 1..(Days + 1)
    /\ phase = "fill" => clock <= Days
    /\ phase \notin {"submit", "rejected"} => \A r \in Runs : Opens(loaded[r])

RunsOK(M) == \A r \in Runs : EngineOK(run[r], M)

LoopInv(M) == Sane /\ Loop /\ RunsOK(M)

LEMMA LoopInit ==
    ASSUME NEW M, StrategyContract(M), Init
    PROVE  LoopInv(M)
<1>1. Sane
    BY SaneInit
<1>2. Loop
    BY DaysAssumption DEF Init, Loop
<1>3. ASSUME NEW r \in Runs
      PROVE  EngineOK(run[r], M)
    <2>1. request.strategy \in M /\ run[r] = Fresh(request.strategy)
        BY DEF Init, StrategyContract
    <2>. QED
        BY <2>1, FreshBooks
<1>. QED
    BY <1>1, <1>2, <1>3 DEF LoopInv, RunsOK

LEMMA LoopStep ==
    ASSUME Sane, Loop, [Next]_vars
    PROVE  Loop'
<1>. USE DEF Loop
<1>1. CASE Load
    <2>1. ASSUME NEW r \in Runs, NEW t \in Tickers, NEW d \in DOMAIN loaded'[r][t]
          PROVE  loaded'[r][t][d].open \in Nat \ {0}
        <3>1. loaded'[r][t] = LoadedBars(request, hist[r])[t]
            BY <1>1 DEF Load
        <3>2. request \in Requests /\ hist \in Histories
            BY DEF Sane
        <3>. QED
            BY <3>1, <3>2, OpenAssumption
    <2>. QED
        BY <1>1, <2>1 DEF Load, Opens
<1>2. CASE Begin
    BY <1>2 DEF Begin, Opens
<1>3. CASE FillNext
    BY <1>3 DEF FillNext, Opens
<1>4. CASE Close
    <2>1. clock' \in 1..(Days + 1)
        BY <1>4, DaysAssumption DEF Close
    <2>. QED
        BY <1>4, <2>1 DEF Close, Opens
<1>5. CASE End
    BY <1>5 DEF End, Opens
<1>6. CASE Save
    BY <1>6 DEF Save, Opens
<1>7. CASE ApiReject
    BY <1>7 DEF ApiReject, Opens
<1>8. CASE UNCHANGED vars
    BY <1>8 DEF vars, Opens
<1>9. CASE Finished
    BY <1>8, <1>9 DEF Finished
<1>. QED
    BY <1>1, <1>2, <1>3, <1>4, <1>5, <1>6, <1>7, <1>8, <1>9 DEF Next

LEMMA RunsStep ==
    ASSUME NEW M, StrategyContract(M), SizerContract, LoopInv(M), [Next]_vars
    PROVE  RunsOK(M)'
<1>. SUFFICES ASSUME NEW r \in Runs
              PROVE  EngineOK(run'[r], M)
    BY DEF RunsOK
<1>0. EngineOK(run[r], M) /\ request \in Requests
    BY DEF LoopInv, RunsOK, Sane
<1>1. CASE FillNext
    <2>. DEFINE filled == FillHead(run[r], loaded[r], clock)
    <2>1. run'[r] = IF Filling(r) THEN filled ELSE run[r]
        BY <1>1 DEF FillNext
    <2>2. CASE Filling(r)
        <3>1. run[r].pending # <<>>
            BY <2>2 DEF Filling
        <3>2. clock \in 1..Days /\ Opens(loaded[r])
            BY <1>1, DaysAssumption DEF FillNext, LoopInv, Loop
        <3>3. EngineOK(filled, M)
            BY <1>0, <3>1, <3>2, FillHeadKeeps
        <3>. HIDE DEF filled
        <3>. QED
            BY <2>1, <2>2, <3>3
    <2>3. CASE ~Filling(r)
        BY <1>0, <2>1, <2>3
    <2>. QED
        BY <2>2, <2>3
<1>2. CASE Close
    <2>. DEFINE closed == CloseBar(run[r], loaded[r], clock)
    <2>1. run'[r] = IF OnTimeline(r, clock) THEN closed ELSE run[r]
        BY <1>2 DEF Close
    <2>2. CASE OnTimeline(r, clock)
        <3>1. run[r].pending = <<>>
            BY <1>2, <2>2 DEF Close, Filling
        <3>2. clock \in 1..Days
            BY <1>2, DaysAssumption DEF Close, LoopInv, Loop
        <3>3. EngineOK(closed, M)
            BY <1>0, <3>1, <3>2, CloseBarKeeps
        <3>. HIDE DEF closed
        <3>. QED
            BY <2>1, <2>2, <3>3
    <2>3. CASE ~OnTimeline(r, clock)
        BY <1>0, <2>1, <2>3
    <2>. QED
        BY <2>2, <2>3
<1>3. CASE End
    <2>1. run'[r] = Expired(run[r])
        BY <1>3 DEF End
    <2>. QED
        BY <1>0, <2>1, ExpiredKeeps
<1>4. CASE UNCHANGED run
    BY <1>0, <1>4
<1>5. FillNext \/ Close \/ End \/ UNCHANGED run
    BY DEF Next, ApiReject, Load, Begin, Save, Finished, vars
<1>. QED
    BY <1>1, <1>2, <1>3, <1>4, <1>5

LEMMA LoopInductive ==
    ASSUME NEW M, StrategyContract(M), SizerContract
    PROVE  /\ Init => LoopInv(M)
           /\ LoopInv(M) /\ [Next]_vars => LoopInv(M)'
<1>1. Init => LoopInv(M)
    BY LoopInit
<1>2. LoopInv(M) /\ [Next]_vars => LoopInv(M)'
    BY SaneStep, LoopStep, RunsStep DEF LoopInv
<1>. QED
    BY <1>1, <1>2

-----------------------------------------------------------------------------
LEMMA Members ==
    ASSUME NEW S, NEW s \in Seq(S)
    PROVE  \A i \in DOMAIN s : s[i] \in S
OBVIOUS

(* The state of every run has its types, whatever the strategy and the sizer *)
(* answer within their contracts (backtesting/engine.py, schemas.py): in      *)
(* particular a fill is always of a positive quantity at a positive price on  *)
(* a day of the calendar.                                                     *)
THEOREM EngineTypesHold ==
    ASSUME NEW Memories, StrategyContract(Memories), SizerContract
    PROVE  Spec => []TypeOK
<1>1. LoopInv(Memories) => TypeOK
    <2>. SUFFICES ASSUME LoopInv(Memories)
                  PROVE  TypeOK
        OBVIOUS
    <2>1. ASSUME NEW r \in Runs
          PROVE  /\ run[r].cash \in Int
                 /\ \A t \in Tickers : run[r].positions[t] \in PositionState
                 /\ \A i \in DOMAIN run[r].fills : run[r].fills[i] \in FillType
                 /\ \A i \in DOMAIN run[r].closed : run[r].closed[i] \in TradeType
        <3>. DEFINE st == run[r]
        <3>1. EngineTypes(st, Memories)
            BY DEF LoopInv, RunsOK, EngineOK
        <3>2. /\ st.cash \in Nat /\ st.positions \in [Tickers -> Holding]
              /\ st.fills \in Seq(FillType) /\ st.closed \in Seq(TradeType)
            BY <3>1 DEF EngineTypes
        <3>. HIDE DEF st
        <3>3. \A t \in Tickers : st.positions[t] \in PositionState
            BY <3>2 DEF Holding, PositionState
        <3>4. /\ \A i \in DOMAIN st.fills : st.fills[i] \in FillType
              /\ \A i \in DOMAIN st.closed : st.closed[i] \in TradeType
            BY <3>2, Members
        <3>. QED
            BY <3>2, <3>3, <3>4 DEF st
    <2>. QED
        BY <2>1 DEF LoopInv, Loop, TypeOK
<1>2. Init => LoopInv(Memories)
    BY LoopInductive
<1>3. LoopInv(Memories) /\ [Next]_vars => LoopInv(Memories)'
    BY LoopInductive
<1>. QED
    BY <1>1, <1>2, <1>3, PTL DEF Spec

(* The books of a back-test agree (backtesting/engine.py, schemas.py): every  *)
(* order a strategy issued is queued, filled or listed as unfilled,           *)
(* exactly once; the engine never spends cash it does not have;   *)
(* cash and positions are what the fills say; and the open lots and closed    *)
(* trades tell the same story as the positions.                              *)
THEOREM BooksAlwaysAgree ==
    ASSUME NEW Memories, StrategyContract(Memories), SizerContract
    PROVE  Spec => []BooksAgree
<1>1. LoopInv(Memories) => BooksAgree
    <2>. SUFFICES ASSUME LoopInv(Memories)
                  PROVE  BooksAgree
        OBVIOUS
    <2>1. \A r \in Runs : EngineTypes(run[r], Memories) /\ Books(run[r]) /\
                          Known(run[r]) = run[r].issued
        BY DEF LoopInv, RunsOK, EngineOK
    <2>2. OrdersAccounted
        BY <2>1 DEF OrdersAccounted, Known
    <2>3. FillsReplay
        BY <2>1 DEF FillsReplay, Books, CashBook, HoldingBook, EngineTypes
    <2>4. TradesMatchPositions
        BY <2>1 DEF TradesMatchPositions, Books, HoldingBook, EarningsBook, LotFits
    <2>. QED
        BY <2>2, <2>3, <2>4 DEF BooksAgree
<1>2. Init => LoopInv(Memories)
    BY LoopInductive
<1>3. LoopInv(Memories) /\ [Next]_vars => LoopInv(Memories)'
    BY LoopInductive
<1>. QED
    BY <1>1, <1>2, <1>3, PTL DEF Spec

-----------------------------------------------------------------------------
(* The folds of an experiment. *)

LEMMA Remainder ==
    ASSUME NEW x \in Nat, NEW n \in Nat \ {0}
    PROVE  /\ x \div n \in Int
           /\ x % n \in Int /\ 0 <= x % n /\ x % n < n
           /\ x = n * (x \div n) + (x % n)
OBVIOUS

LEMMA RemainderOfMultiple ==
    ASSUME NEW q \in Nat, NEW n \in Nat \ {0}
    PROVE  (q * n) % n = 0
<1>. DEFINE x == q * n  d == x \div n  m == x % n  k == q - d
<1>1. x \in Nat
    OBVIOUS
<1>2. d \in Int /\ m \in Int /\ 0 <= m /\ m < n /\ x = n * d + m
    BY <1>1, Remainder
<1>. HIDE DEF d, m
<1>3. k \in Int /\ n * k = m
    BY <1>2
<1>. HIDE DEF k, x
<1>4. ~(k >= 1)
    <2>1. k >= 1 => n * k >= n
        BY <1>3
    <2>. QED
        BY <1>2, <1>3, <2>1
<1>5. ~(k <= -1)
    <2>1. k <= -1 => n * k <= -n
        BY <1>3
    <2>. QED
        BY <1>2, <1>3, <2>1
<1>6. k = 0
    BY <1>3, <1>4, <1>5
<1>. QED
    BY <1>3, <1>6 DEF m, x

LEMMA MultiplesApart ==
    ASSUME NEW a \in Nat, NEW b \in Nat, NEW n \in Nat \ {0}, a % n = 0, b % n = 0, a < b
    PROVE  a + n <= b
<1>. DEFINE p == a \div n  q == b \div n  k == q - p
<1>1. p \in Int /\ q \in Int /\ a = n * p /\ b = n * q
    BY Remainder
<1>. HIDE DEF p, q
<1>2. k \in Int /\ b - a = n * k
    BY <1>1
<1>. HIDE DEF k
<1>3. k >= 1
    <2>1. k <= 0 => n * k <= 0
        BY <1>2
    <2>. QED
        BY <1>2, <2>1
<1>4. n * k >= n
    BY <1>2, <1>3
<1>. QED
    BY <1>2, <1>4

Whole == Period(1, Days + 1)

\* The plans rolling_folds accepts for the calendar.
Plannable(plan) ==
    /\ plan.train \in Nat \ {0} /\ plan.test \in Nat \ {0}
    /\ plan.validation \in Nat /\ plan.step \in Nat
    /\ plan.anchored \in BOOLEAN
    /\ FoldSpan(plan) <= Days

LEMMA StepType ==
    ASSUME NEW plan, Plannable(plan)
    PROVE  FoldStep(plan) \in Nat \ {0}
BY DEF Plannable, FoldStep

LEMMA FoldFields ==
    ASSUME NEW plan, Plannable(plan), NEW f \in RollingFolds(Whole, plan)
    PROVE  \E s \in 1..(Days + 1) :
               /\ (s - 1) % FoldStep(plan) = 0
               /\ s + FoldSpan(plan) <= Days + 1
               /\ f = Fold(Whole, plan, s)
BY DEF RollingFolds, FoldStarts, Whole, Period

LEMMA FoldDays ==
    ASSUME NEW plan, Plannable(plan), NEW s \in 1..(Days + 1), NEW f, f = Fold(Whole, plan, s)
    PROVE  /\ f.train.start \in Int /\ f.train.end = s + plan.train
           /\ f.validation.start = s + plan.train
           /\ f.validation.end = s + plan.train + plan.validation
           /\ f.test.start = s + plan.train + plan.validation
           /\ f.test.end = s + FoldSpan(plan)
           /\ f.train.start < f.train.end
BY DaysAssumption DEF Fold, Whole, Period, Plannable, FoldSpan

\* Training, validation and test of a fold follow one another.
LEMMA FoldsInOrder ==
    ASSUME NEW plan, Plannable(plan), NEW f \in RollingFolds(Whole, plan)
    PROVE  OrderedPeriods(<<f.train, f.validation, f.test>>)
<1>1. PICK s \in 1..(Days + 1) : f = Fold(Whole, plan, s)
    BY FoldFields
<1>2. f.validation.start >= f.train.end /\ f.test.start >= f.validation.end
    BY <1>1, FoldDays DEF Plannable
<1>. DEFINE ps == <<f.train, f.validation, f.test>>
<1>3. Len(ps) = 3 /\ ps[1] = f.train /\ ps[2] = f.validation /\ ps[3] = f.test
    OBVIOUS
<1>4. ASSUME NEW i \in 1..(Len(ps) - 1)
      PROVE  ps[i + 1].start >= ps[i].end
    <2>. HIDE DEF ps
    <2>1. i = 1 \/ i = 2
        BY <1>3
    <2>. QED
        BY <1>2, <1>3, <2>1
<1>. QED
    BY <1>4 DEF OrderedPeriods

\* What a slice holds is known before its period ends.
LEMMA SliceKnown ==
    ASSUME NEW D \in SUBSET Int, NEW p, p.start \in Int, p.end \in Int, p.start <= p.end,
           NEW warmup, NEW lag \in Nat, NEW d \in SliceDays(D, p, warmup, lag)
    PROVE  d \in Int /\ AvailableAt(d, lag) < p.end
<1>1. d \in D /\ (InPeriod(p, AvailableAt(d, lag)) \/ AvailableAt(d, lag) < p.start)
    BY DEF SliceDays, LatestDays
<1>. QED
    BY <1>1 DEF InPeriod, AvailableAt

\* Test periods of a plan that steps by its test length share no day.
LEMMA TestsApart ==
    ASSUME NEW plan, Plannable(plan), plan.step = 0,
           NEW f \in RollingFolds(Whole, plan), NEW g \in RollingFolds(Whole, plan), f # g
    PROVE  f.test.end <= g.test.start \/ g.test.end <= f.test.start
<1>0. FoldStep(plan) = plan.test /\ plan.test \in Nat \ {0}
    BY DEF FoldStep, Plannable
<1>1. PICK a \in 1..(Days + 1) : (a - 1) % plan.test = 0 /\ f = Fold(Whole, plan, a)
    BY <1>0, FoldFields
<1>2. PICK b \in 1..(Days + 1) : (b - 1) % plan.test = 0 /\ g = Fold(Whole, plan, b)
    BY <1>0, FoldFields
<1>3. a # b
    BY <1>1, <1>2
<1>4. a - 1 \in Nat /\ b - 1 \in Nat
    BY DaysAssumption
<1>5. a + plan.test <= b \/ b + plan.test <= a
    <2>1. CASE a < b
        <3>1. (a - 1) + plan.test <= b - 1
            BY <1>0, <1>1, <1>2, <1>4, <2>1, MultiplesApart
        <3>. QED
            BY <1>0, <3>1
    <2>2. CASE b < a
        <3>1. (b - 1) + plan.test <= a - 1
            BY <1>0, <1>1, <1>2, <1>4, <2>2, MultiplesApart
        <3>. QED
            BY <1>0, <3>1
    <2>. QED
        BY <1>3, <2>1, <2>2
<1>6. /\ f.test.start = a + plan.train + plan.validation
      /\ f.test.end = a + FoldSpan(plan)
      /\ g.test.start = b + plan.train + plan.validation
      /\ g.test.end = b + FoldSpan(plan)
    BY <1>1, <1>2, FoldDays
<1>. QED
    BY <1>5, <1>6, DaysAssumption DEF FoldSpan, Plannable

\* The folds go on until one more would not fit.
LEMMA NoRoomForMore ==
    ASSUME NEW plan, Plannable(plan)
    PROVE  \E f \in RollingFolds(Whole, plan) : f.test.end + FoldStep(plan) > Days + 1
<1>. DEFINE n == FoldStep(plan)
            room == Days - FoldSpan(plan)
            q == room \div n
            s == 1 + q * n
<1>1. n \in Nat \ {0} /\ FoldSpan(plan) \in Nat /\ room \in Nat
    BY StepType, DaysAssumption DEF Plannable, FoldSpan
<1>. HIDE DEF n, room
<1>2. q \in Nat /\ q * n <= room /\ room < q * n + n
    BY <1>1, DivFacts
<1>3. (q * n) % n = 0
    BY <1>1, <1>2, RemainderOfMultiple
<1>. HIDE DEF q
<1>4. s \in Nat /\ s >= 1 /\ s - 1 = q * n
    BY <1>1, <1>2
<1>. HIDE DEF s
<1>5. /\ s + FoldSpan(plan) <= Days + 1
      /\ s + FoldSpan(plan) + n > Days + 1
    BY <1>1, <1>2, <1>4, DaysAssumption DEF room
<1>6. s \in 1..(Days + 1)
    BY <1>1, <1>4, <1>5, DaysAssumption
<1>. DEFINE f == Fold(Whole, plan, s)
<1>7. f \in RollingFolds(Whole, plan)
    <2>1. s \in FoldStarts(Whole, plan)
        BY <1>3, <1>4, <1>5, <1>6 DEF FoldStarts, Whole, Period, n
    <2>. QED
        BY <2>1 DEF RollingFolds
<1>8. f.test.end = s + FoldSpan(plan)
    BY <1>6, FoldDays
<1>. HIDE DEF f
<1>9. f.test.end + n > Days + 1
    BY <1>5, <1>8
<1>. QED
    BY <1>7, <1>9 DEF n

LEMMA RealOnly ==
    ASSUME NEW r \in Runs, NEW t \in Tickers, Certified(r), DOMAIN loaded[r][t] # {}
    PROVE  request.sources[t] \notin SyntheticMarkers
<1>1. Quality(LoadedSources(r)) = "vendor"
    BY DEF Certified, Certifiable
<1>2. LoadedSources(r) \intersect SyntheticMarkers = {}
    BY <1>1, Zenon DEF Quality
<1>3. request.sources[t] \in LoadedSources(r)
    BY DEF LoadedSources
<1>. QED
    BY <1>2, <1>3

(* The test periods of every experiment stay sealed (experiments/             *)
(* walkforward.py, experiments/runner.py), for every plan rolling_folds       *)
(* accepts, every warm-up and publication lag, and every history: no bar a    *)
(* training run may load is known later than its test period starts, test     *)
(* periods do not overlap, the folds fill the period, and a result on         *)
(* generated bars is not certified.                                          *)
THEOREM TestPeriodsStaySealed == Spec => []TestPeriodsSealed
<1>1. Sane => TestPeriodsSealed
    <2>. SUFFICES ASSUME Sane, request.mode = "experiment", phase = "end"
                  PROVE  TestPeriodsSealed
        BY DEF TestPeriodsSealed
    <2>. DEFINE plan == request.plan
                lag == request.lag
                folds == RollingFolds(Whole, plan)
    <2>1. Plannable(plan) /\ lag \in Nat
        BY PlanAssumption DEF Sane, Plannable
    <2>2. \A r \in Runs, t \in Tickers : DOMAIN hist[r][t] \in SUBSET Int
        BY HistoryAssumption DEF Sane
    <2>. HIDE DEF plan, lag
    <2>3. ASSUME NEW f \in folds
          PROVE  /\ OrderedPeriods(<<f.train, f.validation, f.test>>)
                 /\ f.test.end <= Days + 1
        <3>1. PICK s \in 1..(Days + 1) :
                    s + FoldSpan(plan) <= Days + 1 /\ f = Fold(Whole, plan, s)
            BY <2>1, FoldFields
        <3>. QED
            BY <2>1, <3>1, FoldsInOrder, FoldDays
    <2>4. ASSUME NEW f \in folds, NEW r \in Runs, NEW t \in Tickers
          PROVE  /\ NoFutureBars(SliceDays(DOMAIN hist[r][t], f.train, request.warmup, lag),
                                 f.test.start - lag)
                 /\ \A d \in SliceDays(DOMAIN hist[r][t], f.test, request.warmup, lag) :
                        AvailableAt(d, lag) < f.test.end
        <3>1. PICK s \in 1..(Days + 1) : f = Fold(Whole, plan, s)
            BY <2>1, FoldFields
        <3>2. /\ f.train.start \in Int /\ f.train.end \in Int /\ f.train.start <= f.train.end
              /\ f.test.start \in Int /\ f.test.end \in Int /\ f.test.start <= f.test.end
              /\ f.train.end <= f.test.start
            BY <2>1, <3>1, FoldDays DEF Plannable, FoldSpan
        <3>3. ASSUME NEW d \in SliceDays(DOMAIN hist[r][t], f.train, request.warmup, lag)
              PROVE  d < f.test.start - lag
            <4>1. d \in Int /\ AvailableAt(d, lag) < f.train.end
                BY <2>1, <2>2, <3>2, SliceKnown
            <4>. QED
                BY <2>1, <3>2, <4>1 DEF AvailableAt
        <3>4. ASSUME NEW d \in SliceDays(DOMAIN hist[r][t], f.test, request.warmup, lag)
              PROVE  AvailableAt(d, lag) < f.test.end
            BY <2>1, <2>2, <3>2, SliceKnown
        <3>. QED
            BY <3>3, <3>4 DEF NoFutureBars
    <2>5. plan.step = 0 =>
            \A f, g \in folds : f # g => f.test.end <= g.test.start \/ g.test.end <= f.test.start
        BY <2>1, TestsApart
    <2>6. \E f \in folds : f.test.end + FoldStep(plan) > Days + 1
        BY <2>1, NoRoomForMore
    <2>7. \A r \in Runs, t \in Tickers :
            Certified(r) /\ DOMAIN loaded[r][t] # {} => request.sources[t] \notin SyntheticMarkers
        BY RealOnly
    <2>8. Whole = Period(1, Days + 1) /\ Whole.end = Days + 1
        BY DEF Whole, Period
    <2>. QED
        BY <2>3, <2>4, <2>5, <2>6, <2>7, <2>8 DEF TestPeriodsSealed, plan, lag
<1>2. Init => Sane
    BY SaneInit
<1>3. Sane /\ [Next]_vars => Sane'
    BY SaneStep
<1>. QED
    BY <1>1, <1>2, <1>3, PTL DEF Spec
=============================================================================
