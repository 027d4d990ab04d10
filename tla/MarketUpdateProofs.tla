------------------------ MODULE MarketUpdateProofs -------------------------
(***************************************************************************)
(* Theorems about the daily market update.  The invariant has three parts. *)
(*                                                                         *)
(*   BaseInv   what a run holds at each stage, the ticker order of what it *)
(*             has inserted and has yet to insert, and no key twice;       *)
(*   HeldInv   what it holds is real and accounts for what it has heard;   *)
(*   CoverInv  the days it has asked about join up with the stored bars    *)
(*             and with the days that committed runs have asked about.     *)
(*                                                                         *)
(* The first two hold in every behaviour.  The third needs that no run     *)
(* goes on for longer than a backfill (Prompt): a run that stalls for      *)
(* longer commits a window that ends before the days another run, which    *)
(* found no bar and fetched its backfill, started at.                      *)
(***************************************************************************)
EXTENDS MarketUpdate, FiniteSetTheorems, SequenceTheorems, WellFoundedInduction, TLAPS

-----------------------------------------------------------------------------
(***************************************************************************)
(* Days.                                                                   *)
(***************************************************************************)
LEMMA Division ==
    ASSUME NEW n \in Int, NEW d \in Int, d > 0
    PROVE  \E q \in Int : q = n \div d /\ d * q <= n /\ n < d * q + d
OBVIOUS

LEMMA Quotients ==
    ASSUME NEW d \in Int, d > 0, NEW p \in Int, NEW q \in Int, d * p < d * q + d
    PROVE  p <= q
<1>. SUFFICES ASSUME p > q PROVE FALSE
  OBVIOUS
<1>1. PICK k \in Nat : p = q + 1 + k
  BY p - q - 1 \in Nat
<1>2. d * p = d * q + d + d * k /\ d * k >= 0 /\ d * q \in Int /\ d * k \in Int
  BY <1>1
<1>. QED  BY <1>2

LEMMA DateBounds ==
    ASSUME NEW t \in Int
    PROVE  \E q \in Int : q = Date(t) /\ DayLength * q <= t /\ t < DayLength * q + DayLength
BY Division, DayLengthAssumption DEF Date

LEMMA DateIs ==
    ASSUME NEW t \in Int, NEW d \in Int, DayLength * d <= t, t < DayLength * d + DayLength
    PROVE  Date(t) = d
<1>1. PICK q \in Int : q = Date(t) /\ DayLength * q <= t /\ t < DayLength * q + DayLength
  BY DateBounds
<1>2. DayLength * q \in Int /\ DayLength * d \in Int /\ DayLength \in Int /\ DayLength > 0
  BY DayLengthAssumption
<1>3. DayLength * q < DayLength * d + DayLength /\ DayLength * d < DayLength * q + DayLength
  BY <1>1, <1>2
<1>4. q <= d /\ d <= q
  BY <1>2, <1>3, Quotients
<1>. QED  BY <1>1, <1>4

LEMMA DateType ==
    ASSUME NEW t \in Int
    PROVE  Date(t) \in Int
BY DateBounds

LEMMA DateMonotone ==
    ASSUME NEW t \in Int, NEW u \in Int, t <= u
    PROVE  Date(t) <= Date(u)
<1>1. PICK p \in Int : p = Date(t) /\ DayLength * p <= t /\ t < DayLength * p + DayLength
  BY DateBounds
<1>2. PICK q \in Int : q = Date(u) /\ DayLength * q <= u /\ u < DayLength * q + DayLength
  BY DateBounds
<1>3. DayLength * q \in Int /\ DayLength * p \in Int /\ DayLength \in Int /\ DayLength > 0
  BY DayLengthAssumption
<1>4. DayLength * p < DayLength * q + DayLength
  BY <1>1, <1>2, <1>3
<1>. QED  BY <1>1, <1>2, <1>3, <1>4, Quotients

LEMMA DateOfDay ==
    ASSUME NEW d \in Int, NEW o \in 0..(DayLength - 1)
    PROVE  Date(d * DayLength + o) = d
<1>1. PICK m \in Int : m = DayLength * d /\ m = d * DayLength
  BY DayLengthAssumption
<1>2. m + o \in Int /\ m <= m + o /\ m + o < m + DayLength
  BY DayLengthAssumption
<1>. QED  BY <1>1, <1>2, DateIs

LEMMA NextDay ==
    ASSUME NEW t \in Int
    PROVE  Date(t + DayLength) = Date(t) + 1
<1>1. PICK q \in Int : q = Date(t) /\ DayLength * q <= t /\ t < DayLength * q + DayLength
  BY DateBounds
<1>2. DayLength * (q + 1) = DayLength * q + DayLength /\ DayLength * q \in Int
  BY DayLengthAssumption
<1>3. DayLength * (q + 1) <= t + DayLength /\ t + DayLength < DayLength * (q + 1) + DayLength
  BY <1>1, <1>2, DayLengthAssumption
<1>4. t + DayLength \in Int /\ q + 1 \in Int
  BY DayLengthAssumption
<1>. QED  BY <1>1, <1>3, <1>4, DateIs

LEMMA DateNatural ==
    ASSUME NEW t \in Nat
    PROVE  Date(t) \in Nat
<1>1. DayLength * 0 = 0
  BY DayLengthAssumption
<1>2. Date(0) = 0
  BY <1>1, DateIs, DayLengthAssumption
<1>3. Date(0) <= Date(t)
  BY DateMonotone
<1>. QED  BY <1>2, <1>3, DateType

-----------------------------------------------------------------------------
(***************************************************************************)
(* What a provider may answer to the request of p: bars of the window or   *)
(* later, synthetic only from a synthetic provider.                        *)
(***************************************************************************)
Providers == Synthetic \cup {Candidates[i] : i \in DOMAIN Candidates}

Bar == [ts : Nat, close : Nat, made : BOOLEAN]

FromProvider(p, q, bar) ==
    /\ bar \in Bar
    /\ bar.made => q \in Synthetic
    /\ run[p].start <= Date(bar.ts)

Response(p, q, bars) ==
    /\ bars \in Seq(Bar)
    /\ \A i \in 1..Len(bars) : FromProvider(p, q, bars[i])

LEMMA MadeBar ==
    ASSUME NEW q, NEW ts \in Nat, NEW close \in Nat, NEW bar,
           bar = [ts |-> ts, close |-> close, made |-> q \in Synthetic]
    PROVE  bar \in Bar /\ bar.ts = ts /\ (bar.made => q \in Synthetic)
<1>1. CASE q \in Synthetic
  <2>1. bar = [ts |-> ts, close |-> close, made |-> TRUE]
    BY <1>1, Zenon
  <2>. QED  BY <1>1, <2>1 DEF Bar
<1>2. CASE q \notin Synthetic
  <2>1. (q \in Synthetic) = FALSE
    BY <1>2
  <2>2. bar = [ts |-> ts, close |-> close, made |-> FALSE]
    BY <2>1
  <2>. QED  BY <2>2 DEF Bar
<1>. QED  BY <1>1, <1>2

LEMMA SeqMembers ==
    ASSUME NEW S, NEW seq \in Seq(S)
    PROVE  /\ Len(seq) \in Nat /\ DOMAIN seq = 1..Len(seq) /\ seq \in [1..Len(seq) -> S]
           /\ \A i \in 1..Len(seq) : seq[i] \in S
OBVIOUS

LEMMA SeqOf ==
    ASSUME NEW S, NEW n \in Nat, NEW seq \in [1..n -> S]
    PROVE  seq \in Seq(S) /\ Len(seq) = n
<1>1. \A m \in Nat : \A f \in [1..m -> S] : f \in Seq(S)
  BY SeqDef
<1>2. seq \in Seq(S)
  BY <1>1
<1>3. Len(seq) \in Nat /\ 1..Len(seq) = 1..n
  BY <1>2, SeqMembers
<1>4. CASE Len(seq) < n
  BY <1>3, <1>4, n \in 1..n
<1>5. CASE n < Len(seq)
  BY <1>3, <1>5, Len(seq) \in 1..Len(seq)
<1>. QED  BY <1>2, <1>3, <1>4, <1>5

LEMMA QuoteType ==
    ASSUME NEW q \in Providers
    PROVE  Quote[q] \in Nat /\ Versions \subseteq Nat
<1>1. DOMAIN Offset = Providers
  BY MarketAssumption DEF Providers
<1>. QED  BY <1>1, MarketAssumption

LEMMA AnswerResponse ==
    ASSUME TypeOK, NEW p \in Processes, NEW q \in Providers, NEW v \in Nat
    PROVE  Response(p, q, Answer(p, q, v))
<1>1. run[p].start \in Int /\ Offset[q] \in 0..(DayLength - 1) /\ FirstDay(p) \in Nat
      /\ run[p].start <= FirstDay(p)
  BY MarketAssumption DEF TypeOK, RunTypes, Providers, FirstDay
<1>2. Cardinality(TradingDays(p)) \in Nat
  <2>1. Date(MaxTime) \in Nat
    BY DateNatural, MarketAssumption
  <2>2. IsFiniteSet(Days)
    BY <2>1, FS_Interval DEF Days
  <2>3. TradingDays(p) \in SUBSET Days
    BY DEF TradingDays
  <2>. QED  BY <2>2, <2>3, FS_Subset, FS_CardinalityType
<1>3. ASSUME NEW d \in Nat, run[p].start <= d
      PROVE  FromProvider(p, q, BarOf(d, q, v))
  <2>1. PICK ts : ts = d * DayLength + Offset[q]
    OBVIOUS
  <2>2. ts \in Nat
    BY <1>1, <2>1, DayLengthAssumption
  <2>3. Date(ts) = d
    BY <1>1, <2>1, DateOfDay
  <2>4. PICK bar : bar = BarOf(d, q, v)
    OBVIOUS
  <2>5. bar = [ts |-> ts, close |-> v, made |-> q \in Synthetic]
    BY <2>1, <2>4 DEF BarOf
  <2>6. bar \in Bar /\ bar.ts = ts /\ (bar.made => q \in Synthetic)
    BY <2>2, <2>5, MadeBar
  <2>. QED  BY <1>3, <2>3, <2>4, <2>6 DEF FromProvider
<1>4. PICK n \in Nat : n = Cardinality(TradingDays(p))
  BY <1>2
<1>5. PICK bars : bars = Answer(p, q, v)
  OBVIOUS
<1>6. bars = [i \in 1..n |-> BarOf(FirstDay(p) + i - 1, q, v)]
  BY <1>4, <1>5 DEF Answer
<1>7. ASSUME NEW i \in 1..n
      PROVE  FromProvider(p, q, bars[i])
  <2>1. PICK d \in Nat : d = FirstDay(p) + i - 1 /\ run[p].start <= d
    BY <1>1
  <2>. QED  BY <1>3, <1>6, <2>1
<1>8. bars \in [1..n -> Bar]
  BY <1>6, <1>7 DEF FromProvider
<1>9. bars \in Seq(Bar) /\ Len(bars) = n
  BY <1>8, SeqOf
<1>. QED  BY <1>5, <1>7, <1>9 DEF Response

LEMMA LongerResponse ==
    ASSUME NEW p, NEW q, NEW bars, Response(p, q, bars), NEW bar, FromProvider(p, q, bar)
    PROVE  Response(p, q, Append(bars, bar))
<1>1. bars \in Seq(Bar) /\ bar \in Bar /\ Len(bars) \in Nat
  BY SeqMembers DEF Response, FromProvider
<1>2. PICK longer : longer = Append(bars, bar)
  OBVIOUS
<1>3. /\ longer \in Seq(Bar) /\ Len(longer) = Len(bars) + 1
      /\ \A i \in 1..Len(bars) : longer[i] = bars[i]
      /\ longer[Len(bars) + 1] = bar
  BY <1>1, <1>2
<1>4. ASSUME NEW i \in 1..Len(longer)  PROVE FromProvider(p, q, longer[i])
  <2>1. i \in 1..Len(bars) \/ i = Len(bars) + 1
    BY <1>1, <1>3
  <2>. QED  BY <1>3, <2>1 DEF Response
<1>. QED  BY <1>2, <1>3, <1>4 DEF Response

LEMMA DefectiveResponse ==
    ASSUME TypeOK, NEW p \in Processes, NEW q \in Providers,
           run[p].start <= Date(now), NEW bars \in Defective(p, q)
    PROVE  Response(p, q, bars)
<1>0. Quote[q] \in Nat /\ Versions \subseteq Nat
  BY QuoteType
<1>1. PICK good : good = Answer(p, q, Quote[q])
  OBVIOUS
<1>2. Response(p, q, good)
  BY <1>0, <1>1, AnswerResponse
<1>3. /\ good \in Seq(Bar) /\ Len(good) \in Nat /\ DOMAIN good = 1..Len(good)
      /\ good \in [1..Len(good) -> Bar]
      /\ \A i \in 1..Len(good) : FromProvider(p, q, good[i])
  BY <1>2, SeqMembers DEF Response
<1>4. \/ \E v \in Versions : bars = Answer(p, q, v)
      \/ /\ good # <<>>
         /\ \/ bars = [good EXCEPT ![1].close = 0]
            \/ bars = Append(good, [good[1] EXCEPT !.close = @ + 1])
            \/ bars = [i \in DOMAIN good |-> good[Len(good) + 1 - i]]
      \/ \E n \in DayLength..(DayLength + 1) :
           bars = Append(good, [ts |-> now + n, close |-> 1, made |-> q \in Synthetic])
  BY <1>1 DEF Defective
<1>5. ASSUME good # <<>>  PROVE 1 \in 1..Len(good)
  <2>1. Len(good) # 0
    BY <1>3, <1>5, EmptySeq
  <2>. QED  BY <1>3, <2>1
<1>6. CASE good # <<>> /\ bars = [good EXCEPT ![1].close = 0]
  <2>1. 1 \in 1..Len(good) /\ good[1] \in Bar
    BY <1>3, <1>5, <1>6
  <2>2. bars = [good EXCEPT ![1] = [good[1] EXCEPT !.close = 0]]
    BY <1>3, <1>6, <2>1
  <2>3. PICK bar : bar = [good[1] EXCEPT !.close = 0]
    OBVIOUS
  <2>4. bar \in Bar /\ bar.made = good[1].made /\ bar.ts = good[1].ts
    BY <2>1, <2>3 DEF Bar
  <2>5. FromProvider(p, q, bar)
    BY <1>3, <2>1, <2>4 DEF FromProvider
  <2>6. /\ bars \in [1..Len(good) -> Bar]
        /\ \A i \in 1..Len(good) : bars[i] = IF i = 1 THEN bar ELSE good[i]
    BY <1>3, <2>2, <2>3, <2>4
  <2>7. bars \in Seq(Bar) /\ Len(bars) = Len(good)
    BY <1>3, <2>6, SeqOf
  <2>. QED  BY <1>3, <2>5, <2>6, <2>7 DEF Response
<1>7. CASE good # <<>> /\ bars = Append(good, [good[1] EXCEPT !.close = @ + 1])
  <2>1. 1 \in 1..Len(good) /\ good[1] \in Bar
    BY <1>3, <1>5, <1>7
  <2>2. PICK bar : bar = [good[1] EXCEPT !.close = @ + 1]
    OBVIOUS
  <2>3. bar \in Bar /\ bar.made = good[1].made /\ bar.ts = good[1].ts
    BY <2>1, <2>2 DEF Bar
  <2>4. FromProvider(p, q, bar)
    BY <1>3, <2>1, <2>3 DEF FromProvider
  <2>. QED  BY <1>2, <1>7, <2>2, <2>4, LongerResponse
<1>8. CASE good # <<>> /\ bars = [i \in DOMAIN good |-> good[Len(good) + 1 - i]]
  <2>1. \A i \in 1..Len(good) : Len(good) + 1 - i \in 1..Len(good)
    BY <1>3
  <2>2. \A i \in 1..Len(good) : bars[i] = good[Len(good) + 1 - i]
    BY <1>3, <1>8
  <2>3. \A i \in 1..Len(good) : FromProvider(p, q, bars[i])
    BY <1>3, <2>1, <2>2
  <2>4. bars \in [1..Len(good) -> Bar]
    BY <1>3, <1>8, <2>1
  <2>5. bars \in Seq(Bar) /\ Len(bars) = Len(good)
    BY <1>3, <2>4, SeqOf
  <2>. QED  BY <2>3, <2>5 DEF Response
<1>9. ASSUME NEW n \in DayLength..(DayLength + 1),
             bars = Append(good, [ts |-> now + n, close |-> 1, made |-> q \in Synthetic])
      PROVE  Response(p, q, bars)
  <2>1. PICK bar : bar = [ts |-> now + n, close |-> 1, made |-> q \in Synthetic]
    OBVIOUS
  <2>2. now \in Nat /\ now + n \in Nat /\ now <= now + n
    BY DayLengthAssumption DEF TypeOK
  <2>3. Date(now) <= Date(now + n) /\ Date(now) \in Int /\ Date(now + n) \in Int
    BY <2>2, DateMonotone, DateType
  <2>4. run[p].start \in Int
    BY DEF TypeOK, RunTypes
  <2>5. bar \in Bar /\ bar.ts = now + n /\ (bar.made => q \in Synthetic)
    BY <2>1, <2>2, MadeBar
  <2>6. FromProvider(p, q, bar)
    BY <2>3, <2>4, <2>5 DEF FromProvider
  <2>. QED  BY <1>2, <1>9, <2>1, <2>6, LongerResponse
<1>10. CASE \E v \in Versions : bars = Answer(p, q, v)
  BY <1>0, <1>10, AnswerResponse
<1>. QED  BY <1>4, <1>6, <1>7, <1>8, <1>9, <1>10

-----------------------------------------------------------------------------
(***************************************************************************)
(* What the steps of p do to its run.                                      *)
(***************************************************************************)
RowsOf(a, bars, t) ==
    {[asset |-> a, ts |-> b.ts, close |-> b.close, made |-> b.made] : b \in ValidBars(bars, t)}

IssuesOf(a, bars, t) ==
    {[asset |-> a, ts |-> i.ts, code |-> i.code] : i \in Issues(bars, t)}

HeardIn(p, a, bars) ==
    {[asset |-> a, ts |-> bars[i].ts, close |-> bars[i].close] :
       i \in Notable(bars, StampsOf(Visible(p), a))}

AskedFor(p, a) == {<<a, d>> : d \in run[p].start..WindowEnd(p)}

NewRows(p, a, bars) ==
    {b \in RowsOf(a, bars, run[p].cycle) : b.ts \notin StampsOf(Visible(p), a)}

\* Only the run of p changes, and it stays a run.
Moves(p) ==
    /\ run' \in [Processes -> RunTypes]
    /\ \A r \in Processes \ {p} : run'[r] = run[r]

Tables == <<prices, issues, regimes, heard, asked>>

LEMMA RunTypesFacts ==
    ASSUME NEW w \in RunTypes
    PROVE  /\ w.pc \in {"idle", "next", "wait", "flush", "regime"} /\ w.cycle \in Nat
           /\ w.todo \subseteq Assets /\ w.start \in Int /\ w.batch \subseteq PriceRows
           /\ w.tx \in Transactions /\ w.tx.prices \subseteq PriceRows
           /\ w.tx.issues \subseteq IssueRows /\ w.tx.heard \subseteq HeardBars
           /\ w.tx.asked \subseteq Assets \X Int
BY DEF RunTypes, Transactions

LEMMA NoTxType == NoTx \in Transactions
BY DEF NoTx, Transactions

LEMMA IdleType == Idle \in RunTypes
BY NoTxType DEF Idle, RunTypes

LEMMA Replaced ==
    ASSUME run \in [Processes -> RunTypes], NEW p \in Processes, NEW w \in RunTypes,
           run' = [run EXCEPT ![p] = w]
    PROVE  Moves(p) /\ run'[p] = w
BY DEF Moves

LEMMA BeginMoves ==
    ASSUME TypeOK, NEW p \in Processes, Begin(p)
    PROVE  /\ Moves(p) /\ UNCHANGED <<Tables, now>>
           /\ run'[p].pc = "next" /\ run'[p].cycle = now /\ run'[p].todo = Assets
           /\ run'[p].batch = {} /\ run'[p].tx = NoTx
<1>1. PICK w : w = [Idle EXCEPT !.pc = "next", !.cycle = now, !.todo = Assets]
  OBVIOUS
<1>2. w = [pc |-> "next", cycle |-> now, todo |-> Assets, start |-> 0, batch |-> {}, tx |-> NoTx]
  BY <1>1 DEF Idle
<1>3. w \in RunTypes
  BY <1>2, NoTxType DEF RunTypes, TypeOK
<1>4. run' = [run EXCEPT ![p] = w]
  BY <1>1 DEF Begin
<1>5. Moves(p) /\ run'[p] = w
  BY <1>3, <1>4, Replaced DEF TypeOK
<1>6. UNCHANGED <<Tables, now>>
  BY DEF Begin, Tables
<1>. QED  BY <1>2, <1>5, <1>6

LEMMA RequestMoves ==
    ASSUME TypeOK, NEW p \in Processes, NEW a \in Assets, Request(p, a)
    PROVE  /\ Moves(p) /\ UNCHANGED <<Tables, now>> /\ run[p].pc = "next" /\ Current(p, a)
           /\ \/ run'[p] = Idle
              \/ /\ run'[p].start \in WindowStart(p, a) /\ run'[p].start <= WindowEnd(p)
                 /\ run'[p].pc = "wait" /\ run'[p].cycle = run[p].cycle
                 /\ run'[p].todo = run[p].todo /\ run'[p].batch = run[p].batch
                 /\ run'[p].tx = run[p].tx
<1>1. PICK start \in WindowStart(p, a) :
        run' = [run EXCEPT ![p] = IF start > WindowEnd(p) THEN Idle
                                  ELSE [run[p] EXCEPT !.pc = "wait", !.start = start]]
  BY DEF Request
<1>2. run[p] \in RunTypes
  BY DEF TypeOK
<1>6. UNCHANGED <<Tables, now>> /\ run[p].pc = "next" /\ Current(p, a)
  BY DEF Request, Tables
<1>3. start \in Int /\ WindowEnd(p) \in Int
  <2>1. ASSUME NEW t \in Latest(p, a)  PROVE t \in Int
    BY <1>2 DEF Latest, StampsOf, Visible, TypeOK, PriceRows, RunTypes, Transactions
  <2>2. run[p].cycle \in Nat /\ Date(run[p].cycle) \in Int
    BY <1>2, DateType DEF RunTypes
  <2>. QED  BY <2>1, <2>2, DateType, MarketAssumption DEF WindowStart, WindowEnd
<1>4. CASE start > WindowEnd(p)
  <2>1. run' = [run EXCEPT ![p] = Idle]
    BY <1>1, <1>4
  <2>. QED  BY <1>6, <2>1, IdleType, Replaced DEF TypeOK
<1>5. CASE ~(start > WindowEnd(p))
  <2>1. PICK w : w = [run[p] EXCEPT !.pc = "wait", !.start = start]
    OBVIOUS
  <2>2. run' = [run EXCEPT ![p] = w]
    BY <1>1, <1>5, <2>1
  <2>3. w \in RunTypes
    BY <1>2, <1>3, <2>1 DEF RunTypes
  <2>4. /\ w.pc = "wait" /\ w.cycle = run[p].cycle /\ w.start = start
        /\ w.todo = run[p].todo /\ w.batch = run[p].batch /\ w.tx = run[p].tx
    BY <1>2, <2>1 DEF RunTypes
  <2>5. Moves(p) /\ run'[p] = w
    BY <2>2, <2>3, Replaced DEF TypeOK
  <2>. QED  BY <1>3, <1>5, <1>6, <2>4, <2>5
<1>. QED  BY <1>4, <1>5

LEMMA DownMoves ==
    ASSUME TypeOK, NEW p \in Processes, NEW a \in Assets, ProvidersDown(p, a)
    PROVE  /\ Moves(p) /\ UNCHANGED <<Tables, now>> /\ run[p].pc = "wait" /\ Current(p, a)
           /\ run'[p].pc = "next" /\ run'[p].cycle = run[p].cycle
           /\ run'[p].todo = run[p].todo \ {a} /\ run'[p].batch = run[p].batch
           /\ run'[p].tx = run[p].tx
<1>1. PICK w : w = [run[p] EXCEPT !.pc = "next", !.start = 0, !.todo = @ \ {a}]
  OBVIOUS
<1>2. run[p] \in RunTypes /\ run \in [Processes -> RunTypes]
  BY DEF TypeOK
<1>3. run' = [run EXCEPT ![p] = w]
  BY <1>1, <1>2 DEF ProvidersDown
<1>4. /\ w = [pc |-> "next", cycle |-> run[p].cycle, todo |-> run[p].todo \ {a},
               start |-> 0, batch |-> run[p].batch, tx |-> run[p].tx]
      /\ run[p].todo \ {a} \in SUBSET Assets
  BY <1>1, <1>2 DEF RunTypes
<1>5. w \in RunTypes
  BY <1>2, <1>4 DEF RunTypes
<1>6. Moves(p) /\ run'[p] = w
  BY <1>2, <1>3, <1>5, Replaced
<1>7. UNCHANGED <<Tables, now>> /\ run[p].pc = "wait" /\ Current(p, a)
  BY DEF ProvidersDown, Tables
<1>. QED  BY <1>4, <1>6, <1>7

LEMMA FlushMoves ==
    ASSUME TypeOK, NEW p \in Processes, NEW a \in Assets, Flush(p, a)
    PROVE  /\ Moves(p) /\ UNCHANGED <<Tables, now>> /\ run[p].pc = "flush" /\ Current(p, a)
           /\ \A r \in Processes \ {p} : Keys(run[p].batch) \cap Keys(run[r].tx.prices) = {}
           /\ Keys(run[p].batch) \cap Keys(prices) = {}
           /\ run'[p].pc = "next" /\ run'[p].cycle = run[p].cycle
           /\ run'[p].todo = run[p].todo \ {a} /\ run'[p].batch = {}
           /\ run'[p].tx.prices = run[p].tx.prices \cup run[p].batch
           /\ run'[p].tx.issues = run[p].tx.issues /\ run'[p].tx.heard = run[p].tx.heard
           /\ run'[p].tx.asked = run[p].tx.asked
<1>1. PICK x : x = [run[p].tx EXCEPT !.prices = @ \cup run[p].batch]
  OBVIOUS
<1>2. PICK w : w = [run[p] EXCEPT !.pc = "next", !.batch = {}, !.tx = x, !.todo = @ \ {a}]
  OBVIOUS
<1>3. /\ run[p] \in RunTypes /\ run \in [Processes -> RunTypes]
      /\ run[p].tx \in Transactions /\ run[p].batch \subseteq PriceRows
  BY RunTypesFacts DEF TypeOK
<1>4. run' = [run EXCEPT ![p] = w]
  BY <1>1, <1>2, <1>3, ZenonT(30) DEF Flush
<1>5. /\ x \in Transactions /\ x.prices = run[p].tx.prices \cup run[p].batch
      /\ x.issues = run[p].tx.issues /\ x.heard = run[p].tx.heard /\ x.asked = run[p].tx.asked
  BY <1>1, <1>3 DEF Transactions
<1>6. w \in RunTypes
  BY <1>2, <1>3, <1>5 DEF RunTypes
<1>7. /\ w.pc = "next" /\ w.cycle = run[p].cycle
      /\ w.todo = run[p].todo \ {a} /\ w.batch = {} /\ w.tx = x
  BY <1>2, <1>3 DEF RunTypes
<1>8. Moves(p) /\ run'[p] = w
  BY <1>3, <1>4, <1>6, Replaced
<1>. QED  BY <1>5, <1>7, <1>8 DEF Flush, Tables

\* A run that ends, by failing or when the regime has been read.
LEMMA EndMoves ==
    ASSUME TypeOK, NEW p \in Processes, run' = [run EXCEPT ![p] = Idle]
    PROVE  Moves(p) /\ run'[p] = Idle
BY IdleType, Replaced DEF TypeOK

LEMMA CommitMoves ==
    ASSUME TypeOK, NEW p \in Processes, Commit(p)
    PROVE  /\ Moves(p) /\ UNCHANGED <<regimes, now>> /\ run[p].pc = "next"
           /\ prices' = prices \cup run[p].tx.prices /\ issues' = issues \cup run[p].tx.issues
           /\ heard' = heard \cup run[p].tx.heard /\ asked' = asked \cup run[p].tx.asked
           /\ run'[p].pc = "regime" /\ run'[p].cycle = run[p].cycle
           /\ run'[p].todo = {} /\ run'[p].batch = run[p].batch /\ run'[p].tx = NoTx
<1>1. PICK w : w = [run[p] EXCEPT !.pc = "regime", !.tx = NoTx]
  OBVIOUS
<1>2. run[p] \in RunTypes /\ run \in [Processes -> RunTypes]
  BY DEF TypeOK
<1>3. run' = [run EXCEPT ![p] = w]
  BY <1>1, <1>2 DEF Commit
<1>4. w \in RunTypes
  BY <1>1, <1>2, NoTxType DEF RunTypes
<1>5. /\ w.pc = "regime" /\ w.cycle = run[p].cycle
      /\ w.todo = run[p].todo /\ w.batch = run[p].batch /\ w.tx = NoTx
  BY <1>1, <1>2 DEF RunTypes
<1>. QED  BY <1>2, <1>3, <1>4, <1>5, Replaced DEF Commit

(***************************************************************************)
(* What validation lets through is real, has one row per timestamp, and    *)
(* leaves an issue for everything it keeps back.                           *)
(***************************************************************************)
Accounted(bar, noted, rows) ==
    \/ \E row \in noted : row.asset = bar.asset /\ row.ts = bar.ts
    \/ \E row \in rows : row.asset = bar.asset /\ row.ts = bar.ts /\ row.close = bar.close

LEMMA KeptRows ==
    ASSUME NEW p, NEW q, NEW bars, Response(p, q, bars), NEW a \in Assets, NEW t \in Nat,
           NEW row \in RowsOf(a, bars, t)
    PROVE  /\ row \in PriceRows /\ row.asset = a /\ row.close # 0
           /\ row.ts <= t + FutureTolerance /\ (row.made => q \in Synthetic)
           /\ run[p].start <= Date(row.ts)
<1>1. PICK i \in Kept(bars, t) :
        row = [asset |-> a, ts |-> bars[i].ts, close |-> bars[i].close, made |-> bars[i].made]
  BY DEF RowsOf, ValidBars
<1>2. i \in DOMAIN bars /\ CheckBar(bars[i], t) = "ok"
  BY DEF Kept, Usable
<1>3. i \in 1..Len(bars) /\ FromProvider(p, q, bars[i])
  BY <1>2, SeqMembers DEF Response
<1>4. PICK bar : bar = bars[i]
  OBVIOUS
<1>5. bar \in Bar /\ (bar.made => q \in Synthetic) /\ run[p].start <= Date(bar.ts)
  BY <1>3, <1>4 DEF FromProvider
<1>6. bar.close # 0 /\ ~(bar.ts > t + FutureTolerance)
  BY <1>2, <1>4 DEF CheckBar
<1>7. row \in PriceRows
  BY <1>1, <1>4, <1>5 DEF PriceRows, Bar
<1>8. row.asset = a /\ row.ts = bar.ts /\ row.close = bar.close /\ row.made = bar.made
  BY <1>1, <1>4
<1>9. bar.ts <= t + FutureTolerance
  BY <1>5, <1>6, DayLengthAssumption DEF Bar, FutureTolerance
<1>. QED  BY <1>5, <1>6, <1>7, <1>8, <1>9

LEMMA KeptUnique ==
    ASSUME NEW p, NEW q, NEW bars, Response(p, q, bars), NEW a, NEW t
    PROVE  Unique(RowsOf(a, bars, t)) /\ IsFiniteSet(RowsOf(a, bars, t))
<1>1. DOMAIN bars = 1..Len(bars) /\ Len(bars) \in Nat
  BY SeqMembers DEF Response
<1>2. Unique(RowsOf(a, bars, t))
  <2>. SUFFICES ASSUME NEW r \in RowsOf(a, bars, t), NEW s \in RowsOf(a, bars, t), r.ts = s.ts
                PROVE  r = s
    BY DEF Unique
  <2>1. PICK i \in Kept(bars, t) :
          r = [asset |-> a, ts |-> bars[i].ts, close |-> bars[i].close, made |-> bars[i].made]
    BY DEF RowsOf, ValidBars
  <2>2. PICK j \in Kept(bars, t) :
          s = [asset |-> a, ts |-> bars[j].ts, close |-> bars[j].close, made |-> bars[j].made]
    BY DEF RowsOf, ValidBars
  <2>3. bars[i].ts = bars[j].ts
    BY <2>1, <2>2
  <2>4. i \in Usable(bars, t) /\ j \in Usable(bars, t) /\ i \in Nat /\ j \in Nat
    BY <1>1 DEF Kept, Usable
  <2>5. ~(i < j) /\ ~(j < i)
    BY <2>3, <2>4 DEF Kept
  <2>6. i = j
    BY <2>4, <2>5
  <2>. QED  BY <2>1, <2>2, <2>6
<1>3. IsFiniteSet(RowsOf(a, bars, t))
  <2>1. IsFiniteSet(1..Len(bars))
    BY <1>1, 1 \in Int, Len(bars) \in Int, FS_Interval
  <2>2. Kept(bars, t) \in SUBSET (1..Len(bars))
    BY <1>1 DEF Kept, Usable
  <2>3. IsFiniteSet(Kept(bars, t))
    BY <2>1, <2>2, FS_Subset
  <2>4. PICK row : row = [i \in Kept(bars, t) |->
                            [asset |-> a, ts |-> bars[i].ts, close |-> bars[i].close,
                             made |-> bars[i].made]]
    OBVIOUS
  <2>5. /\ row \in [Kept(bars, t) -> RowsOf(a, bars, t)]
        /\ \A r \in RowsOf(a, bars, t) : \E i \in Kept(bars, t) : row[i] = r
    BY <2>4 DEF RowsOf, ValidBars
  <2>6. row \in Surjection(Kept(bars, t), RowsOf(a, bars, t))
    BY <2>5 DEF Surjection
  <2>. QED  BY <2>3, <2>6, FS_Surjection
<1>. QED  BY <1>2, <1>3

LEMMA IssueTypes ==
    ASSUME NEW p, NEW q, NEW bars, Response(p, q, bars), NEW a \in Assets, NEW t \in Nat
    PROVE  IssuesOf(a, bars, t) \subseteq IssueRows /\ HeardIn(p, a, bars) \subseteq HeardBars
<1>1. ASSUME NEW i \in DOMAIN bars  PROVE bars[i].ts \in Nat /\ bars[i].close \in Nat
  <2>1. i \in 1..Len(bars)
    BY SeqMembers DEF Response
  <2>. QED  BY <2>1 DEF Response, FromProvider, Bar
<1>2. HeardIn(p, a, bars) \subseteq HeardBars
  BY <1>1 DEF HeardIn, HeardBars, Notable
<1>3. ASSUME NEW e \in Issues(bars, t)
      PROVE  /\ e.ts \in Nat
             /\ e.code \in {"malformed", "future_timestamp", "duplicate_timestamp",
                            "unordered_timestamps"}
  <2>1. \/ \E i \in DOMAIN bars \ Usable(bars, t) : e = Issue(bars[i], CheckBar(bars[i], t))
        \/ \E i \in DOMAIN bars : e = Issue(bars[i], "duplicate_timestamp")
        \/ \E i \in DOMAIN bars : e = Issue(bars[i], "unordered_timestamps")
    BY DEF Issues, Usable, Kept, Unordered
  <2>2. CASE \E i \in DOMAIN bars \ Usable(bars, t) : e = Issue(bars[i], CheckBar(bars[i], t))
    <3>1. PICK i \in DOMAIN bars \ Usable(bars, t) : e = Issue(bars[i], CheckBar(bars[i], t))
      BY <2>2
    <3>2. CheckBar(bars[i], t) \in {"malformed", "future_timestamp"}
      BY DEF Usable, CheckBar
    <3>. QED  BY <1>1, <3>1, <3>2 DEF Issue
  <2>. QED  BY <1>1, <2>1, <2>2 DEF Issue
<1>4. IssuesOf(a, bars, t) \subseteq IssueRows
  BY <1>3 DEF IssuesOf, IssueRows
<1>. QED  BY <1>2, <1>4

LEMMA HeardAccounted ==
    ASSUME NEW p, NEW a, NEW bars, NEW bar \in HeardIn(p, a, bars)
    PROVE  Accounted(bar, IssuesOf(a, bars, run[p].cycle), NewRows(p, a, bars))
<1>. DEFINE t == run[p].cycle
<1>1. PICK i \in Notable(bars, StampsOf(Visible(p), a)) :
        bar = [asset |-> a, ts |-> bars[i].ts, close |-> bars[i].close]
  BY DEF HeardIn
<1>0. i \in DOMAIN bars
  BY DEF Notable
<1>2. CASE i \in Kept(bars, t)
  <2>1. PICK row : row = [asset |-> a, ts |-> bars[i].ts, close |-> bars[i].close,
                          made |-> bars[i].made]
    OBVIOUS
  <2>2. row \in RowsOf(a, bars, t)
    BY <1>2, <2>1 DEF RowsOf, ValidBars
  <2>3. bars[i].close # 0
    BY <1>2 DEF Kept, Usable, CheckBar
  <2>4. row.ts \notin StampsOf(Visible(p), a)
    BY <1>1, <2>1, <2>3 DEF Notable
  <2>. QED  BY <1>1, <2>1, <2>2, <2>4 DEF Accounted, NewRows
<1>3. CASE i \notin Kept(bars, t)
  <2>1. \E code : Issue(bars[i], code) \in Issues(bars, t)
    BY <1>0, <1>3 DEF Issues
  <2>2. PICK code : Issue(bars[i], code) \in Issues(bars, t)
    BY <2>1
  <2>3. PICK e : e = Issue(bars[i], code)
    OBVIOUS
  <2>4. e \in Issues(bars, t) /\ e.ts = bars[i].ts
    BY <2>2, <2>3 DEF Issue
  <2>5. PICK row : row = [asset |-> a, ts |-> e.ts, code |-> e.code]
    OBVIOUS
  <2>6. row \in IssuesOf(a, bars, t)
    BY <2>4, <2>5 DEF IssuesOf
  <2>. QED  BY <1>1, <2>4, <2>5, <2>6 DEF Accounted
<1>. QED  BY <1>2, <1>3

(***************************************************************************)
(* A request that is answered, well or badly, by candidate i.              *)
(***************************************************************************)
AnsweredWith(p, a, q, bars) ==
    /\ Response(p, q, bars)
    /\ q \in Synthetic => q = Candidates[1]
    /\ Moves(p) /\ UNCHANGED <<Tables, now>> /\ run[p].pc = "wait" /\ Current(p, a)
    /\ run'[p].pc = "flush" /\ run'[p].cycle = run[p].cycle /\ run'[p].todo = run[p].todo
    /\ run'[p].batch = NewRows(p, a, bars)
    /\ run'[p].tx.prices = run[p].tx.prices
    /\ run'[p].tx.issues = run[p].tx.issues \cup IssuesOf(a, bars, run[p].cycle)
    /\ run'[p].tx.heard = run[p].tx.heard \cup HeardIn(p, a, bars)
    /\ run'[p].tx.asked = run[p].tx.asked \cup AskedFor(p, a)

LEMMA ReceivedMoves ==
    ASSUME TypeOK, NEW p \in Processes, NEW a \in Assets, NEW q, NEW bars, Response(p, q, bars),
           Received(p, a, bars)
    PROVE  /\ Moves(p)
           /\ run'[p].pc = "flush" /\ run'[p].cycle = run[p].cycle /\ run'[p].todo = run[p].todo
           /\ run'[p].batch = NewRows(p, a, bars)
           /\ run'[p].tx.prices = run[p].tx.prices
           /\ run'[p].tx.issues = run[p].tx.issues \cup IssuesOf(a, bars, run[p].cycle)
           /\ run'[p].tx.heard = run[p].tx.heard \cup HeardIn(p, a, bars)
           /\ run'[p].tx.asked = run[p].tx.asked \cup AskedFor(p, a)
<1>1. PICK x : x = [run[p].tx EXCEPT !.issues = @ \cup IssuesOf(a, bars, run[p].cycle),
                                     !.heard = @ \cup HeardIn(p, a, bars),
                                     !.asked = @ \cup AskedFor(p, a)]
  OBVIOUS
<1>2. PICK w : w = [run[p] EXCEPT !.pc = "flush", !.start = 0, !.tx = x,
                                  !.batch = NewRows(p, a, bars)]
  OBVIOUS
<1>3. run' = [run EXCEPT ![p] = w]
  BY <1>1, <1>2, Zenon DEF Received, NewRows, RowsOf, IssuesOf, HeardIn, AskedFor
<1>4. /\ run[p] \in RunTypes /\ run \in [Processes -> RunTypes]
      /\ run[p].tx \in Transactions /\ run[p].cycle \in Nat /\ run[p].start \in Int
      /\ run[p].todo \subseteq Assets
  BY RunTypesFacts DEF TypeOK
<1>5. /\ x = [prices |-> run[p].tx.prices,
              issues |-> run[p].tx.issues \cup IssuesOf(a, bars, run[p].cycle),
              heard |-> run[p].tx.heard \cup HeardIn(p, a, bars),
              asked |-> run[p].tx.asked \cup AskedFor(p, a)]
  BY <1>1, <1>4 DEF Transactions
<1>6. x \in Transactions
  <2>1. AskedFor(p, a) \subseteq Assets \X Int
    <3>1. WindowEnd(p) \in Int
      BY <1>4, DateType DEF WindowEnd
    <3>. QED  BY <1>4, <3>1 DEF AskedFor
  <2>2. IssuesOf(a, bars, run[p].cycle) \subseteq IssueRows /\ HeardIn(p, a, bars) \subseteq HeardBars
    BY <1>4, IssueTypes
  <2>3. /\ run[p].tx.prices \subseteq PriceRows /\ run[p].tx.issues \subseteq IssueRows
        /\ run[p].tx.heard \subseteq HeardBars /\ run[p].tx.asked \subseteq Assets \X Int
    BY <1>4 DEF Transactions
  <2>. QED  BY <1>5, <2>1, <2>2, <2>3 DEF Transactions
<1>7. NewRows(p, a, bars) \subseteq PriceRows
  BY <1>4, KeptRows DEF NewRows
<1>8. w = [pc |-> "flush", cycle |-> run[p].cycle, todo |-> run[p].todo, start |-> 0,
           batch |-> NewRows(p, a, bars), tx |-> x]
  BY <1>2, <1>4 DEF RunTypes
<1>9. w \in RunTypes
  BY <1>4, <1>6, <1>7, <1>8 DEF RunTypes
<1>10. Moves(p) /\ run'[p] = w
  BY <1>3, <1>4, <1>9, Replaced
<1>. QED  BY <1>5, <1>8, <1>10

LEMMA ServerFacts ==
    ASSUME NEW i \in Servers
    PROVE  /\ Candidates[i] \in Providers
           /\ Candidates[i] \in Synthetic => Candidates[i] = Candidates[1]
BY DEF Servers, Providers

LEMMA Answered ==
    ASSUME TypeOK, NEW p \in Processes, NEW a \in Assets, NEW i \in Servers,
           run[p].pc = "wait" => run[p].start <= Date(run[p].cycle),
           run[p].cycle <= now,
           Receive(p, a, i) \/ ReceiveDefective(p, a, i)
    PROVE  \E q, bars : AnsweredWith(p, a, q, bars)
<1>1. PICK q \in Providers : q = Candidates[i] /\ (q \in Synthetic => q = Candidates[1])
  BY ServerFacts
<1>2. run[p].pc = "wait" /\ Current(p, a) /\ UNCHANGED <<Tables, now>>
  BY DEF Receive, ReceiveDefective, Tables
<1>3. \E bars : Response(p, q, bars) /\ Received(p, a, bars)
  <2>1. CASE Receive(p, a, i)
    <3>1. Received(p, a, Answer(p, q, Quote[q]))
      BY <1>1, <2>1 DEF Receive
    <3>2. Response(p, q, Answer(p, q, Quote[q]))
      BY AnswerResponse, QuoteType
    <3>. QED  BY <3>1, <3>2
  <2>2. CASE ReceiveDefective(p, a, i)
    <3>1. PICK bars \in Defective(p, q) : Received(p, a, bars)
      BY <1>1, <2>2 DEF ReceiveDefective
    <3>2. run[p].start <= Date(now)
      <4>1. now \in Int /\ run[p].cycle \in Int /\ run[p].start \in Int
        BY RunTypesFacts DEF TypeOK
      <4>2. Date(run[p].cycle) <= Date(now) /\ Date(run[p].cycle) \in Int /\ Date(now) \in Int
        BY <4>1, DateMonotone, DateType
      <4>. QED  BY <1>2, <4>1, <4>2
    <3>3. Response(p, q, bars)
      BY <3>2, DefectiveResponse
    <3>. QED  BY <3>1, <3>3
  <2>. QED  BY <2>1, <2>2
<1>4. PICK bars : Response(p, q, bars) /\ Received(p, a, bars)
  BY <1>3
<1>5. AnsweredWith(p, a, q, bars)
  BY <1>1, <1>2, <1>4, ReceivedMoves DEF AnsweredWith
<1>. QED  BY <1>5

-----------------------------------------------------------------------------
(***************************************************************************)
(* The base of the invariant: what a run holds at each of its stages, the  *)
(* ticker order of what it has inserted and has yet to insert, and no key  *)
(* twice, in its own rows, in the table's, or in two transactions.         *)
(***************************************************************************)
Shaped(p) ==
    /\ run[p].pc \in {"idle", "regime"} => run[p].tx = NoTx
    /\ run[p].pc # "flush" => run[p].batch = {}
    /\ run[p].pc = "wait" => run[p].start <= Date(run[p].cycle)
    /\ run[p].cycle <= now
    /\ IsFiniteSet(run[p].batch) /\ IsFiniteSet(run[p].tx.prices)

Placed(p) ==
    /\ \A row \in run[p].tx.prices, a \in run[p].todo : Rank[row.asset] < Rank[a]
    /\ \A row \in run[p].batch : Current(p, row.asset)

Apart(p) ==
    /\ Unique(run[p].tx.prices) /\ Unique(run[p].batch)
    /\ Keys(run[p].tx.prices) \cap Keys(prices) = {}
    /\ Keys(run[p].tx.prices) \cap Keys(run[p].batch) = {}

TxApart(p, r) == Keys(run[p].tx.prices) \cap Keys(run[r].tx.prices) = {}

BaseInv ==
    /\ TypeOK
    /\ IsFiniteSet(prices)
    /\ \A p \in Processes : Shaped(p) /\ Placed(p) /\ Apart(p)
    /\ \A p, r \in Processes : p # r => TxApart(p, r)

LEMMA UniqueUnion ==
    ASSUME NEW R, NEW S, Unique(R), Unique(S), Keys(R) \cap Keys(S) = {}
    PROVE  Unique(R \cup S)
<1>1. ASSUME NEW r \in R, NEW s \in S, r.asset = s.asset, r.ts = s.ts  PROVE FALSE
  <2>1. <<r.asset, r.ts>> \in Keys(R) /\ <<r.asset, r.ts>> \in Keys(S)
    BY <1>1 DEF Keys
  <2>. QED  BY <2>1
<1>. QED  BY <1>1 DEF Unique

LEMMA KeysUnion ==
    ASSUME NEW R, NEW S
    PROVE  Keys(R \cup S) = Keys(R) \cup Keys(S)
BY DEF Keys

LEMMA KeysEmpty == Keys({}) = {} /\ Unique({}) /\ NoTx.prices = {}
BY DEF Keys, Unique, NoTx

LEMMA BaseKept ==
    ASSUME BaseInv, NEW p \in Processes, Moves(p), UNCHANGED <<Tables, now>>,
           faults' \in 0..MaxFaults,
           Shaped(p)', Placed(p)', Apart(p)',
           \A r \in Processes \ {p} : TxApart(p, r)'
    PROVE  BaseInv'
<1>1. UNCHANGED <<prices, issues, regimes, heard, asked, now>>
  BY DEF Tables
<1>2. TypeOK'
  BY <1>1 DEF BaseInv, TypeOK, Moves
<1>3. \A r \in Processes \ {p} : run'[r] = run[r]
  BY DEF Moves
<1>4. ASSUME NEW r \in Processes \ {p}
      PROVE  Shaped(r)' /\ Placed(r)' /\ Apart(r)'
  BY <1>1, <1>3 DEF BaseInv, Shaped, Placed, Apart, Current
<1>5. ASSUME NEW q \in Processes, NEW r \in Processes, q # r
      PROVE  TxApart(q, r)'
  <2>1. CASE q = p
    BY <1>5, <2>1
  <2>2. CASE r = p
    BY <1>5, <2>2 DEF TxApart
  <2>3. CASE q # p /\ r # p
    BY <1>3, <1>5, <2>3 DEF BaseInv, TxApart
  <2>. QED  BY <2>1, <2>2, <2>3
<1>6. IsFiniteSet(prices)'
  BY <1>1 DEF BaseInv
<1>. QED  BY <1>2, <1>4, <1>5, <1>6 DEF BaseInv

\* A run that gives up its transaction.
LEMMA BaseEnd ==
    ASSUME BaseInv, NEW p \in Processes, run' = [run EXCEPT ![p] = Idle],
           UNCHANGED <<prices, issues, heard, asked, now>>, faults' \in 0..MaxFaults,
           regimes' \subseteq [at : Nat, closes : Nat]
    PROVE  BaseInv'
<1>1. Moves(p) /\ run'[p] = Idle
  BY EndMoves DEF BaseInv
<1>2. TypeOK'
  BY <1>1 DEF BaseInv, TypeOK, Moves
<1>3. \A r \in Processes \ {p} : run'[r] = run[r]
  BY <1>1 DEF Moves
<1>4. ASSUME NEW r \in Processes \ {p}
      PROVE  Shaped(r)' /\ Placed(r)' /\ Apart(r)'
  BY <1>3 DEF BaseInv, Shaped, Placed, Apart, Current
<1>5. /\ run'[p].pc = "idle" /\ run'[p].tx = NoTx /\ run'[p].batch = {} /\ run'[p].cycle = 0
      /\ run'[p].tx.prices = {} /\ now \in Nat
  BY <1>1, KeysEmpty DEF Idle, BaseInv, TypeOK
<1>6. IsFiniteSet({}) /\ Keys({}) = {} /\ Unique({})
  BY FS_EmptySet, KeysEmpty
<1>7. Shaped(p)'
  <2>1. 0 <= now' /\ IsFiniteSet(run'[p].batch) /\ IsFiniteSet(run'[p].tx.prices)
    <3>1. 0 <= now'
      BY <1>5
    <3>2. IsFiniteSet(run'[p].batch) /\ IsFiniteSet(run'[p].tx.prices)
      BY <1>5, <1>6, Zenon
    <3>. QED  BY <3>1, <3>2
  <2>2. run'[p].pc # "wait" /\ run'[p].cycle <= now'
    BY <1>5, <2>1
  <2>. QED  BY <1>5, <2>1, <2>2 DEF Shaped
<1>8. Placed(p)'
  BY <1>5 DEF Placed
<1>9. Apart(p)'
  BY <1>5, <1>6 DEF Apart
<1>10. ASSUME NEW q \in Processes, NEW r \in Processes, q # r
       PROVE  TxApart(q, r)'
  <2>1. CASE q = p \/ r = p
    BY <1>5, <1>6, <2>1 DEF TxApart
  <2>2. CASE q # p /\ r # p
    BY <1>3, <1>10, <2>2 DEF BaseInv, TxApart
  <2>. QED  BY <2>1, <2>2
<1>. QED  BY <1>2, <1>4, <1>7, <1>8, <1>9, <1>10 DEF BaseInv

LEMMA BaseInit == Init => BaseInv
<1>. SUFFICES ASSUME Init PROVE BaseInv
  OBVIOUS
<1>1. /\ now = 0 /\ prices = {} /\ issues = {} /\ regimes = {} /\ heard = {} /\ asked = {}
      /\ faults = 0 /\ \A p \in Processes : run[p] = Idle
      /\ run \in [Processes -> RunTypes]
  BY IdleType DEF Init
<1>2. TypeOK
  BY <1>1, MarketAssumption DEF TypeOK, Unique
<1>3. IsFiniteSet({}) /\ Keys({}) = {} /\ Unique({}) /\ NoTx.prices = {}
  BY FS_EmptySet, KeysEmpty
<1>4. ASSUME NEW p \in Processes
      PROVE  /\ run[p].pc = "idle" /\ run[p].tx = NoTx /\ run[p].batch = {} /\ run[p].cycle = 0
             /\ run[p].tx.prices = {}
  BY <1>1, <1>3 DEF Idle
<1>5. \A p \in Processes : Shaped(p) /\ Placed(p) /\ Apart(p)
  BY <1>1, <1>3, <1>4 DEF Shaped, Placed, Apart
<1>6. \A p, r \in Processes : p # r => TxApart(p, r)
  BY <1>3, <1>4 DEF TxApart
<1>. QED  BY <1>1, <1>2, <1>3, <1>5, <1>6 DEF BaseInv

LEMMA FaultsCounted == TypeOK /\ [Next]_vars => faults' \in 0..MaxFaults
<1>. SUFFICES ASSUME TypeOK, [Next]_vars PROVE faults' \in 0..MaxFaults
  OBVIOUS
<1>1. faults \in 0..MaxFaults /\ MaxFaults \in Nat
  BY MarketAssumption DEF TypeOK
<1>2. \A i \in Servers : Outages(i) \in {0, 1}
  BY DEF Outages
<1>3. ASSUME NEW p \in Processes, NEW a \in Assets, NEW i \in Servers,
             Receive(p, a, i) \/ ReceiveDefective(p, a, i)
      PROVE  faults' \in 0..MaxFaults
  BY <1>1, <1>2, <1>3 DEF Receive, ReceiveDefective
<1>4. ASSUME NEW p \in Processes, NEW a \in Assets,
             Request(p, a) \/ ProvidersDown(p, a) \/ Flush(p, a)
      PROVE  faults' \in 0..MaxFaults
  <2>1. faults' = faults \/ (faults < MaxFaults /\ faults' = faults + 1)
    BY <1>4, Zenon DEF Request, ProvidersDown, Flush
  <2>. QED  BY <1>1, <2>1
<1>5. ASSUME NEW p \in Processes,
             Begin(p) \/ Collide(p) \/ Commit(p) \/ UpdateRegime(p) \/ Fail(p)
      PROVE  faults' \in 0..MaxFaults
  BY <1>1, <1>5 DEF Begin, Collide, Commit, UpdateRegime, Fail
<1>6. CASE Tick \/ UNCHANGED vars
  BY <1>1, <1>6 DEF Tick, vars
<1>. QED  BY <1>3, <1>4, <1>5, <1>6 DEF Next, Step

LEMMA BaseBegin ==
    ASSUME BaseInv, NEW p \in Processes, Begin(p), faults' \in 0..MaxFaults
    PROVE  BaseInv'
<1>1. /\ Moves(p) /\ UNCHANGED <<Tables, now>>
      /\ run'[p].pc = "next" /\ run'[p].cycle = now /\ run'[p].todo = Assets
      /\ run'[p].batch = {} /\ run'[p].tx = NoTx
  BY BeginMoves DEF BaseInv
<1>2. run'[p].tx.prices = {} /\ IsFiniteSet({}) /\ Keys({}) = {} /\ Unique({})
  BY <1>1, FS_EmptySet, KeysEmpty
<1>3. now' = now /\ now <= now
  BY <1>1 DEF BaseInv, TypeOK
<1>4. Shaped(p)'
  <2>1. IsFiniteSet(run'[p].batch) /\ IsFiniteSet(run'[p].tx.prices)
    BY <1>1, <1>2, Zenon
  <2>. QED  BY <1>1, <1>3, <2>1 DEF Shaped
<1>5. Placed(p)'
  BY <1>1, <1>2 DEF Placed
<1>6. Apart(p)'
  BY <1>1, <1>2 DEF Apart
<1>7. \A r \in Processes \ {p} : TxApart(p, r)'
  BY <1>2 DEF TxApart
<1>. QED  BY <1>1, <1>4, <1>5, <1>6, <1>7, BaseKept

LEMMA BaseRequest ==
    ASSUME BaseInv, NEW p \in Processes, NEW a \in Assets, Request(p, a), faults' \in 0..MaxFaults
    PROVE  BaseInv'
<1>1. /\ Moves(p) /\ UNCHANGED <<Tables, now>> /\ run[p].pc = "next" /\ Current(p, a)
      /\ \/ run'[p] = Idle
         \/ /\ run'[p].start \in WindowStart(p, a) /\ run'[p].start <= WindowEnd(p)
            /\ run'[p].pc = "wait" /\ run'[p].cycle = run[p].cycle
            /\ run'[p].todo = run[p].todo /\ run'[p].batch = run[p].batch
            /\ run'[p].tx = run[p].tx
  BY RequestMoves DEF BaseInv
<1>2. CASE run'[p] = Idle
  <2>1. run' = [run EXCEPT ![p] = Idle]
    BY <1>1, <1>2 DEF Moves, BaseInv, TypeOK
  <2>2. /\ UNCHANGED <<prices, issues, heard, asked, now>>
        /\ regimes' \subseteq [at : Nat, closes : Nat]
    BY <1>1 DEF Tables, BaseInv, TypeOK
  <2>. QED  BY <2>1, <2>2, BaseEnd
<1>3. CASE run'[p].pc = "wait"
  <2>1. /\ run'[p].start <= Date(run'[p].cycle) /\ run'[p].cycle = run[p].cycle
        /\ run'[p].todo = run[p].todo /\ run'[p].batch = run[p].batch /\ run'[p].tx = run[p].tx
    BY <1>1, <1>3 DEF WindowEnd, Idle
  <2>2. UNCHANGED <<now, prices>> /\ \A r \in Processes \ {p} : run'[r] = run[r]
    BY <1>1 DEF Tables, Moves
  <2>3. Shaped(p)'
    BY <1>1, <1>3, <2>1, <2>2 DEF Shaped, BaseInv
  <2>4. Placed(p)' /\ Apart(p)'
    BY <2>1, <2>2 DEF Placed, Apart, Current, BaseInv
  <2>5. \A r \in Processes \ {p} : TxApart(p, r)'
    BY <2>1, <2>2 DEF TxApart, BaseInv
  <2>. QED  BY <1>1, <2>3, <2>4, <2>5, BaseKept
<1>. QED  BY <1>1, <1>2, <1>3

LEMMA BaseAnswered ==
    ASSUME BaseInv, NEW p \in Processes, NEW a \in Assets, NEW q, NEW bars,
           AnsweredWith(p, a, q, bars), faults' \in 0..MaxFaults
    PROVE  BaseInv'
<1>1. /\ Response(p, q, bars)
      /\ Moves(p) /\ UNCHANGED <<Tables, now>> /\ run[p].pc = "wait" /\ Current(p, a)
      /\ run'[p].pc = "flush" /\ run'[p].cycle = run[p].cycle /\ run'[p].todo = run[p].todo
      /\ run'[p].batch = NewRows(p, a, bars) /\ run'[p].tx.prices = run[p].tx.prices
  BY DEF AnsweredWith
<1>2. UNCHANGED <<now, prices>> /\ \A r \in Processes \ {p} : run'[r] = run[r]
  BY <1>1 DEF Tables, Moves
<1>3. /\ Unique(RowsOf(a, bars, run[p].cycle)) /\ IsFiniteSet(RowsOf(a, bars, run[p].cycle))
      /\ NewRows(p, a, bars) \in SUBSET RowsOf(a, bars, run[p].cycle)
      /\ run[p].cycle \in Nat
  BY <1>1, KeptUnique, RunTypesFacts DEF NewRows, BaseInv, TypeOK
<1>4. \A row \in NewRows(p, a, bars) :
         row.asset = a /\ row.ts \notin StampsOf(Visible(p), a)
  BY <1>1, <1>3, KeptRows DEF NewRows
<1>5. Shaped(p)'
  <2>1. IsFiniteSet(run'[p].batch)
    BY <1>1, <1>3, FS_Subset
  <2>. QED  BY <1>1, <1>2, <2>1 DEF Shaped, BaseInv
<1>6. Placed(p)'
  <2>1. Current(p, a)'
    BY <1>1 DEF Current
  <2>2. \A row \in run'[p].batch : row.asset = a
    BY <1>1, <1>4
  <2>3. \A row \in run'[p].tx.prices, b \in run'[p].todo : Rank[row.asset] < Rank[b]
    BY <1>1 DEF BaseInv, Placed
  <2>. QED  BY <2>1, <2>2, <2>3 DEF Placed, Current
<1>7. Apart(p)'
  <2>1. Unique(run'[p].batch)
    BY <1>1, <1>3 DEF Unique
  <2>2. Keys(run[p].tx.prices) \cap Keys(NewRows(p, a, bars)) = {}
    <3>. SUFFICES ASSUME NEW r \in run[p].tx.prices, NEW s \in NewRows(p, a, bars),
                         r.asset = s.asset, r.ts = s.ts
                  PROVE  FALSE
      BY DEF Keys
    <3>1. r.asset = a /\ r.ts = s.ts /\ s.ts \notin StampsOf(Visible(p), a)
      BY <1>4
    <3>2. r \in Visible(p)
      BY DEF Visible
    <3>. QED  BY <3>1, <3>2 DEF StampsOf
  <2>. QED  BY <1>1, <1>2, <2>1, <2>2 DEF Apart, BaseInv
<1>8. \A r \in Processes \ {p} : TxApart(p, r)'
  BY <1>1, <1>2 DEF TxApart, BaseInv
<1>. QED  BY <1>1, <1>5, <1>6, <1>7, <1>8, BaseKept

LEMMA BaseDown ==
    ASSUME BaseInv, NEW p \in Processes, NEW a \in Assets, ProvidersDown(p, a),
           faults' \in 0..MaxFaults
    PROVE  BaseInv'
<1>1. /\ Moves(p) /\ UNCHANGED <<Tables, now>> /\ run[p].pc = "wait"
      /\ run'[p].pc = "next" /\ run'[p].cycle = run[p].cycle
      /\ run'[p].todo = run[p].todo \ {a} /\ run'[p].batch = run[p].batch
      /\ run'[p].tx = run[p].tx
  BY DownMoves DEF BaseInv
<1>2. UNCHANGED <<now, prices>> /\ \A r \in Processes \ {p} : run'[r] = run[r]
  BY <1>1 DEF Tables, Moves
<1>3. run[p].batch = {}
  BY <1>1 DEF BaseInv, Shaped
<1>4. Shaped(p)'
  BY <1>1, <1>2 DEF BaseInv, Shaped
<1>5. Placed(p)' /\ Apart(p)'
  BY <1>1, <1>2, <1>3 DEF BaseInv, Placed, Apart
<1>6. \A r \in Processes \ {p} : TxApart(p, r)'
  BY <1>1, <1>2 DEF BaseInv, TxApart
<1>. QED  BY <1>1, <1>4, <1>5, <1>6, BaseKept

LEMMA BaseFlush ==
    ASSUME BaseInv, NEW p \in Processes, NEW a \in Assets, Flush(p, a), faults' \in 0..MaxFaults
    PROVE  BaseInv'
<1>1. /\ Moves(p) /\ UNCHANGED <<Tables, now>> /\ run[p].pc = "flush" /\ Current(p, a)
      /\ \A r \in Processes \ {p} : Keys(run[p].batch) \cap Keys(run[r].tx.prices) = {}
      /\ Keys(run[p].batch) \cap Keys(prices) = {}
      /\ run'[p].pc = "next" /\ run'[p].cycle = run[p].cycle
      /\ run'[p].todo = run[p].todo \ {a} /\ run'[p].batch = {}
      /\ run'[p].tx.prices = run[p].tx.prices \cup run[p].batch
  BY FlushMoves DEF BaseInv
<1>2. UNCHANGED <<now, prices>> /\ \A r \in Processes \ {p} : run'[r] = run[r]
  BY <1>1 DEF Tables, Moves
<1>3. /\ Keys({}) = {} /\ Unique({}) /\ IsFiniteSet({})
      /\ Keys(run'[p].tx.prices) = Keys(run[p].tx.prices) \cup Keys(run[p].batch)
  BY <1>1, KeysEmpty, KeysUnion, FS_EmptySet
<1>4. Shaped(p)'
  <2>1. IsFiniteSet(run[p].tx.prices) /\ IsFiniteSet(run[p].batch)
    BY DEF BaseInv, Shaped
  <2>2. IsFiniteSet(run[p].tx.prices \cup run[p].batch)
    BY <2>1, FS_Union, Zenon
  <2>3. IsFiniteSet(run'[p].tx.prices) /\ IsFiniteSet(run'[p].batch)
    BY <1>1, <1>3, <2>2, Zenon
  <2>. QED  BY <1>1, <1>2, <2>3 DEF BaseInv, Shaped
<1>5. Placed(p)'
  <2>1. ASSUME NEW row \in run[p].tx.prices, NEW b \in run[p].todo \ {a}
        PROVE  Rank[row.asset] < Rank[b]
    BY DEF BaseInv, Placed
  <2>2. ASSUME NEW row \in run[p].batch, NEW b \in run[p].todo \ {a}
        PROVE  Rank[row.asset] < Rank[b]
    <3>1. Current(p, row.asset) /\ run[p].todo \subseteq Assets
      BY RunTypesFacts DEF BaseInv, Placed, TypeOK
    <3>2. /\ row.asset \in Assets /\ b \in Assets
          /\ Rank[row.asset] <= Rank[a] /\ Rank[a] <= Rank[row.asset] /\ Rank[a] <= Rank[b]
      BY <1>1, <3>1 DEF Current
    <3>3. /\ Rank[row.asset] \in Nat /\ Rank[a] \in Nat /\ Rank[b] \in Nat
          /\ Rank[a] # Rank[b]
      BY <3>2, MarketAssumption
    <3>. QED  BY <3>2, <3>3
  <2>. QED  BY <1>1, <2>1, <2>2 DEF Placed
<1>6. Apart(p)'
  <2>1. Unique(run'[p].tx.prices)
    BY <1>1, UniqueUnion DEF BaseInv, Apart
  <2>2. Keys(run[p].tx.prices) \cap Keys(prices) = {}
    BY DEF BaseInv, Apart
  <2>. QED  BY <1>1, <1>2, <1>3, <2>1, <2>2 DEF Apart
<1>7. ASSUME NEW r \in Processes \ {p}  PROVE TxApart(p, r)'
  <2>1. Keys(run[p].tx.prices) \cap Keys(run[r].tx.prices) = {}
    BY DEF BaseInv, TxApart
  <2>. QED  BY <1>1, <1>2, <1>3, <2>1 DEF TxApart
<1>. QED  BY <1>1, <1>4, <1>5, <1>6, <1>7, BaseKept

LEMMA BaseCommit ==
    ASSUME BaseInv, NEW p \in Processes, Commit(p), faults' \in 0..MaxFaults
    PROVE  BaseInv'
<1>1. /\ Moves(p) /\ UNCHANGED <<regimes, now>> /\ run[p].pc = "next"
      /\ prices' = prices \cup run[p].tx.prices /\ issues' = issues \cup run[p].tx.issues
      /\ heard' = heard \cup run[p].tx.heard /\ asked' = asked \cup run[p].tx.asked
      /\ run'[p].pc = "regime" /\ run'[p].cycle = run[p].cycle
      /\ run'[p].todo = {} /\ run'[p].batch = run[p].batch /\ run'[p].tx = NoTx
  BY CommitMoves DEF BaseInv
<1>2. now' = now /\ \A r \in Processes \ {p} : run'[r] = run[r]
  BY <1>1 DEF Moves
<1>3. /\ run[p] \in RunTypes /\ run[p].batch = {} /\ run'[p].tx.prices = {}
      /\ Keys({}) = {} /\ Unique({}) /\ IsFiniteSet({})
  BY <1>1, KeysEmpty, FS_EmptySet DEF BaseInv, Shaped, TypeOK
<1>4. IsFiniteSet(prices')
  BY <1>1, FS_Union DEF BaseInv, Shaped
<1>5. TypeOK'
  <2>1. Unique(prices')
    BY <1>1, UniqueUnion DEF BaseInv, Apart, TypeOK
  <2>2. /\ run[p].tx.prices \subseteq PriceRows /\ run[p].tx.issues \subseteq IssueRows
        /\ run[p].tx.heard \subseteq HeardBars /\ run[p].tx.asked \subseteq Assets \X Int
    BY <1>3, RunTypesFacts
  <2>3. /\ prices' \subseteq PriceRows /\ issues' \subseteq IssueRows
        /\ heard' \subseteq HeardBars /\ asked' \subseteq Assets \X Int
    BY <1>1, <2>2 DEF BaseInv, TypeOK
  <2>. QED  BY <1>1, <2>1, <2>3 DEF BaseInv, TypeOK, Moves
<1>6. Keys(prices') = Keys(prices) \cup Keys(run[p].tx.prices)
  BY <1>1, KeysUnion
<1>7. ASSUME NEW r \in Processes \ {p}
      PROVE  Shaped(r)' /\ Placed(r)' /\ Apart(r)'
  <2>1. Shaped(r)' /\ Placed(r)'
    BY <1>2 DEF BaseInv, Shaped, Placed, Current
  <2>2. Keys(run[r].tx.prices) \cap Keys(run[p].tx.prices) = {}
    BY DEF BaseInv, TxApart
  <2>3. Apart(r)'
    BY <1>2, <1>6, <2>2 DEF BaseInv, Apart
  <2>. QED  BY <2>1, <2>3
<1>8. Shaped(p)'
  <2>1. IsFiniteSet(run'[p].batch) /\ IsFiniteSet(run'[p].tx.prices)
    BY <1>1, <1>3, Zenon
  <2>. QED  BY <1>1, <1>2, <1>3, <2>1 DEF BaseInv, Shaped
<1>9. Placed(p)' /\ Apart(p)'
  BY <1>1, <1>3 DEF Placed, Apart
<1>10. ASSUME NEW q \in Processes, NEW r \in Processes, q # r
       PROVE  TxApart(q, r)'
  <2>1. CASE q = p \/ r = p
    BY <1>3, <2>1 DEF TxApart
  <2>2. CASE q # p /\ r # p
    BY <1>2, <1>10, <2>2 DEF BaseInv, TxApart
  <2>. QED  BY <2>1, <2>2
<1>. QED  BY <1>4, <1>5, <1>7, <1>8, <1>9, <1>10 DEF BaseInv

LEMMA BaseNext == BaseInv /\ [Next]_vars => BaseInv'
<1>. SUFFICES ASSUME BaseInv, [Next]_vars PROVE BaseInv'
  OBVIOUS
<1>0. faults' \in 0..MaxFaults /\ TypeOK /\ \A p \in Processes : Shaped(p)
  BY FaultsCounted DEF BaseInv
<1>1. ASSUME NEW p \in Processes, Begin(p)  PROVE BaseInv'
  BY <1>0, <1>1, BaseBegin
<1>2. ASSUME NEW p \in Processes, NEW a \in Assets, Request(p, a)  PROVE BaseInv'
  BY <1>0, <1>2, BaseRequest
<1>3. ASSUME NEW p \in Processes, NEW a \in Assets, NEW i \in Servers,
             Receive(p, a, i) \/ ReceiveDefective(p, a, i)
      PROVE  BaseInv'
  <2>1. PICK q, bars : AnsweredWith(p, a, q, bars)
    BY <1>0, <1>3, Answered DEF Shaped
  <2>. QED  BY <1>0, <2>1, BaseAnswered
<1>4. ASSUME NEW p \in Processes, NEW a \in Assets, ProvidersDown(p, a)  PROVE BaseInv'
  BY <1>0, <1>4, BaseDown
<1>5. ASSUME NEW p \in Processes, NEW a \in Assets, Flush(p, a)  PROVE BaseInv'
  BY <1>0, <1>5, BaseFlush
<1>6. ASSUME NEW p \in Processes, Commit(p)  PROVE BaseInv'
  BY <1>0, <1>6, BaseCommit
<1>7. ASSUME NEW p \in Processes, Collide(p) \/ Fail(p)  PROVE BaseInv'
  <2>1. run' = [run EXCEPT ![p] = Idle] /\ UNCHANGED <<prices, issues, heard, asked, now>>
        /\ regimes' = regimes
    BY <1>7 DEF Collide, Fail
  <2>2. regimes' \subseteq [at : Nat, closes : Nat]
    BY <2>1 DEF BaseInv, TypeOK
  <2>. QED  BY <1>0, <2>1, <2>2, BaseEnd
<1>8. ASSUME NEW p \in Processes, UpdateRegime(p)  PROVE BaseInv'
  <2>1. run' = [run EXCEPT ![p] = Idle] /\ UNCHANGED <<prices, issues, heard, asked, now>>
    BY <1>8 DEF UpdateRegime
  <2>2. Closes \in Nat
    <3>1. {row \in prices : row.asset = Benchmark} \in SUBSET prices
      OBVIOUS
    <3>. QED  BY <3>1, FS_Subset, FS_CardinalityType DEF Closes, BaseInv
  <2>3. run[p].cycle \in Nat /\ regimes \subseteq [at : Nat, closes : Nat]
    BY RunTypesFacts DEF BaseInv, TypeOK
  <2>4. regimes' \subseteq [at : Nat, closes : Nat]
    BY <1>8, <2>2, <2>3 DEF UpdateRegime
  <2>. QED  BY <1>0, <2>1, <2>4, BaseEnd
<1>9. CASE Tick
  <2>1. UNCHANGED <<prices, issues, regimes, heard, asked, run, faults>> /\ now' \in 0..MaxTime
        /\ now' = now + 1 /\ now \in Nat
    BY <1>9, MarketAssumption DEF Tick, BaseInv, TypeOK
  <2>2. TypeOK'
    BY <2>1 DEF BaseInv, TypeOK
  <2>3. \A p \in Processes : run[p].cycle \in Nat
    BY RunTypesFacts DEF BaseInv, TypeOK
  <2>4. \A p \in Processes : Shaped(p)'
    BY <2>1, <2>3 DEF BaseInv, Shaped
  <2>5. \A p \in Processes : Placed(p)' /\ Apart(p)'
    BY <2>1 DEF BaseInv, Placed, Apart, Current
  <2>6. \A p, r \in Processes : p # r => TxApart(p, r)'
    BY <2>1 DEF BaseInv, TxApart
  <2>. QED  BY <2>1, <2>2, <2>4, <2>5, <2>6 DEF BaseInv
<1>10. CASE UNCHANGED vars
  BY <1>10 DEF vars, BaseInv, TypeOK, Shaped, Placed, Apart, TxApart, Current
<1>. QED  BY <1>1, <1>2, <1>3, <1>4, <1>5, <1>6, <1>7, <1>8, <1>9, <1>10 DEF Next, Step

(***************************************************************************)
(* Of two runs that wait for each other, each would have inserted a row of *)
(* an asset the other still has to do, before it came to its own.          *)
(***************************************************************************)
LEMMA BaseNoDeadlock == BaseInv => NoDeadlock
<1>. SUFFICES ASSUME BaseInv, NEW p \in Processes, NEW q \in Processes,
                     WaitsFor(p, q), WaitsFor(q, p)
              PROVE  FALSE
  BY DEF NoDeadlock
<1>1. PICK r \in run[p].batch, s \in run[q].tx.prices : r.asset = s.asset
  BY DEF WaitsFor, Keys
<1>2. PICK u \in run[q].batch, v \in run[p].tx.prices : u.asset = v.asset
  BY DEF WaitsFor, Keys
<1>3. r.asset \in run[p].todo /\ u.asset \in run[q].todo
  BY DEF BaseInv, Placed, Current
<1>4. Rank[s.asset] < Rank[u.asset] /\ Rank[v.asset] < Rank[r.asset]
  BY <1>3 DEF BaseInv, Placed
<1>5. r.asset \in Assets /\ u.asset \in Assets
  BY <1>3, RunTypesFacts DEF BaseInv, TypeOK
<1>. QED  BY <1>1, <1>2, <1>4, <1>5, MarketAssumption

-----------------------------------------------------------------------------
(***************************************************************************)
(* What a run holds is real, and accounts for what it has heard.           *)
(***************************************************************************)
Real(row, t) ==
    /\ row.close # 0
    /\ row.ts <= t + FutureTolerance
    /\ row.made => Candidates[1] \in Synthetic

Held(p) == run[p].tx.prices \cup run[p].batch

HoldsReal(p) == \A row \in Held(p) : Real(row, run[p].cycle)

Accounts(p) ==
    \A bar \in run[p].tx.heard :
      Accounted(bar, run[p].tx.issues, prices \cup Held(p))

HeldInv == BarsAccounted /\ \A p \in Processes : HoldsReal(p) /\ Accounts(p)

\* p asks for its next asset.
Asks(p, a) ==
    /\ Current(p, a)
    /\ run'[p].start \in WindowStart(p, a) /\ run'[p].start <= WindowEnd(p)
    /\ run'[p].cycle = run[p].cycle /\ run'[p].todo = run[p].todo

\* A step of p that neither answers, inserts nor commits: its transaction stays
\* as it is, or is over.
Steady(p) ==
    /\ Moves(p) /\ UNCHANGED <<prices, issues, heard, asked, now>>
    /\ \/ /\ run'[p].tx = run[p].tx /\ run'[p].batch = run[p].batch
          /\ run'[p].cycle = run[p].cycle
       \/ run'[p].tx = NoTx /\ run'[p].batch = {}
    /\ \/ run'[p].pc = "idle"
       \/ run[p].pc # "idle" /\ run'[p].cycle = run[p].cycle
       \/ run'[p].cycle = now
    /\ run'[p].pc = "wait" => \E a \in Assets : Asks(p, a)

LEMMA SteadySteps ==
    ASSUME BaseInv, NEW p \in Processes,
           \/ Begin(p) \/ Collide(p) \/ Fail(p) \/ UpdateRegime(p)
           \/ \E a \in Assets : Request(p, a) \/ ProvidersDown(p, a)
    PROVE  Steady(p)
<1>1. TypeOK /\ Idle.tx = NoTx /\ Idle.batch = {} /\ Idle.pc = "idle"
  BY DEF BaseInv, Idle
<1>2. CASE Begin(p)
  BY <1>1, <1>2, BeginMoves DEF Steady, Tables
<1>3. CASE Collide(p) \/ Fail(p) \/ UpdateRegime(p)
  <2>1. run' = [run EXCEPT ![p] = Idle] /\ UNCHANGED <<prices, issues, heard, asked, now>>
    BY <1>3, Zenon DEF Collide, Fail, UpdateRegime
  <2>2. Moves(p) /\ run'[p] = Idle
    BY <1>1, <2>1, EndMoves
  <2>. QED  BY <1>1, <2>1, <2>2 DEF Steady
<1>4. ASSUME NEW a \in Assets, Request(p, a)  PROVE Steady(p)
  BY <1>1, <1>4, RequestMoves DEF Steady, Asks, Tables
<1>5. ASSUME NEW a \in Assets, ProvidersDown(p, a)  PROVE Steady(p)
  BY <1>1, <1>5, DownMoves DEF Steady, Tables
<1>. QED  BY <1>2, <1>3, <1>4, <1>5

LEMMA Steps ==
    ASSUME BaseInv, [Next]_vars
    PROVE  \/ \E p \in Processes : Steady(p) \/ Commit(p)
           \/ \E p \in Processes, a \in Assets :
                Flush(p, a) \/ \E q, bars : AnsweredWith(p, a, q, bars)
           \/ /\ UNCHANGED <<prices, issues, heard, asked, run>>
              /\ now' = now \/ now' = now + 1
<1>0. TypeOK /\ \A p \in Processes : Shaped(p)
  BY DEF BaseInv
<1>1. ASSUME NEW p \in Processes, Begin(p) \/ Collide(p) \/ Fail(p) \/ UpdateRegime(p)
      PROVE  Steady(p)
  BY <1>1, SteadySteps
<1>2. ASSUME NEW p \in Processes, NEW a \in Assets, Request(p, a) \/ ProvidersDown(p, a)
      PROVE  Steady(p)
  BY <1>2, SteadySteps
<1>3. ASSUME NEW p \in Processes, NEW a \in Assets, NEW i \in Servers,
             Receive(p, a, i) \/ ReceiveDefective(p, a, i)
      PROVE  \E q, bars : AnsweredWith(p, a, q, bars)
  BY <1>0, <1>3, Answered DEF Shaped
<1>4. CASE Tick
  BY <1>4 DEF Tick
<1>5. CASE UNCHANGED vars
  BY <1>5 DEF vars
<1>. QED  BY <1>1, <1>2, <1>3, <1>4, <1>5 DEF Next, Step

LEMMA MoreAccounted ==
    ASSUME NEW bar, NEW I, NEW J, NEW R, NEW S, Accounted(bar, I, R), I \subseteq J, R \subseteq S
    PROVE  Accounted(bar, J, S)
BY DEF Accounted

LEMMA LaterReal ==
    ASSUME NEW row \in PriceRows, NEW t \in Int, NEW u \in Int, t <= u, Real(row, t)
    PROVE  Real(row, u)
<1>1. row.ts \in Int /\ FutureTolerance \in Int
  BY DayLengthAssumption DEF PriceRows, FutureTolerance
<1>. QED  BY <1>1 DEF Real

LEMMA AccountedReal ==
    BarsAccounted <=> /\ \A bar \in heard : Accounted(bar, issues, prices)
                      /\ \A row \in prices : Real(row, now)
BY DEF BarsAccounted, NothingDroppedSilently, StoredBarsAreReal, Accounted, Real

LEMMA HeldInit == Init => HeldInv
<1>. SUFFICES ASSUME Init PROVE HeldInv
  OBVIOUS
<1>1. prices = {} /\ heard = {} /\ \A p \in Processes : run[p] = Idle
  BY DEF Init
<1>2. ASSUME NEW p \in Processes  PROVE Held(p) = {} /\ run[p].tx.heard = {}
  BY <1>1 DEF Held, Idle, NoTx
<1>. QED  BY <1>1, <1>2, AccountedReal DEF HeldInv, HoldsReal, Accounts

LEMMA HeldOthers ==
    ASSUME HeldInv, NEW p \in Processes, Moves(p), prices \subseteq prices',
           NEW r \in Processes \ {p}
    PROVE  (HoldsReal(r) /\ Accounts(r))'
<1>1. run'[r] = run[r] /\ HoldsReal(r) /\ Accounts(r)
  BY DEF Moves, HeldInv
<1>2. HoldsReal(r)'
  BY <1>1 DEF HoldsReal, Held
<1>3. Accounts(r)'
  BY <1>1, MoreAccounted DEF Accounts, Held
<1>. QED  BY <1>2, <1>3

LEMMA HeldSteady ==
    ASSUME BaseInv, HeldInv, NEW p \in Processes, Steady(p)
    PROVE  HeldInv'
<1>1. Moves(p) /\ UNCHANGED <<prices, issues, heard, asked, now>>
  BY DEF Steady
<1>4. HoldsReal(p)' /\ Accounts(p)'
  <2>1. CASE /\ run'[p].tx = run[p].tx /\ run'[p].batch = run[p].batch
             /\ run'[p].cycle = run[p].cycle
    BY <1>1, <2>1 DEF HeldInv, HoldsReal, Accounts, Held
  <2>2. CASE run'[p].tx = NoTx /\ run'[p].batch = {}
    <3>1. Held(p)' = {} /\ run'[p].tx.heard = {}
      BY <2>2 DEF Held, NoTx
    <3>. QED  BY <3>1 DEF HoldsReal, Accounts
  <2>. QED  BY <2>1, <2>2 DEF Steady
<1>5. BarsAccounted'
  BY <1>1 DEF HeldInv, BarsAccounted, NothingDroppedSilently, StoredBarsAreReal
<1>6. \A r \in Processes \ {p} : (HoldsReal(r) /\ Accounts(r))'
  BY <1>1, HeldOthers
<1>. QED  BY <1>4, <1>5, <1>6 DEF HeldInv

LEMMA HeldAnswered ==
    ASSUME BaseInv, HeldInv, NEW p \in Processes, NEW a \in Assets, NEW q, NEW bars,
           AnsweredWith(p, a, q, bars)
    PROVE  HeldInv'
<1>1. /\ Response(p, q, bars) /\ (q \in Synthetic => q = Candidates[1])
      /\ Moves(p) /\ UNCHANGED <<Tables, now>> /\ run[p].pc = "wait"
      /\ run'[p].cycle = run[p].cycle
      /\ run'[p].batch = NewRows(p, a, bars) /\ run'[p].tx.prices = run[p].tx.prices
      /\ run'[p].tx.issues = run[p].tx.issues \cup IssuesOf(a, bars, run[p].cycle)
      /\ run'[p].tx.heard = run[p].tx.heard \cup HeardIn(p, a, bars)
  BY DEF AnsweredWith
<1>2. run[p].batch = {} /\ run[p].cycle \in Nat
  BY <1>1, RunTypesFacts DEF BaseInv, Shaped, TypeOK
<1>3. Held(p)' = run[p].tx.prices \cup NewRows(p, a, bars) /\ Held(p) = run[p].tx.prices
  BY <1>1, <1>2 DEF Held
<1>4. UNCHANGED <<prices, issues, heard, now>>
  BY <1>1 DEF Tables
<1>5. HoldsReal(p)'
  <2>1. \A row \in run[p].tx.prices : Real(row, run[p].cycle)
    BY <1>3 DEF HeldInv, HoldsReal
  <2>2. ASSUME NEW row \in NewRows(p, a, bars)  PROVE Real(row, run[p].cycle)
    <3>1. /\ row.close # 0 /\ row.ts <= run[p].cycle + FutureTolerance
          /\ row.made => q \in Synthetic
      BY <1>1, <1>2, KeptRows DEF NewRows
    <3>2. q \in Synthetic => Candidates[1] \in Synthetic
      BY <1>1, Zenon
    <3>. QED  BY <3>1, <3>2, Zenon DEF Real
  <2>. QED  BY <1>1, <1>3, <2>1, <2>2 DEF HoldsReal
<1>6. ASSUME NEW bar \in run[p].tx.heard
      PROVE  Accounted(bar, run'[p].tx.issues, prices \cup Held(p)')
  <2>1. Accounted(bar, run[p].tx.issues, prices \cup Held(p))
    BY DEF HeldInv, Accounts
  <2>2. /\ run[p].tx.issues \subseteq run'[p].tx.issues
        /\ prices \cup Held(p) \subseteq prices \cup Held(p)'
    BY <1>1, <1>3
  <2>. QED  BY <2>1, <2>2 DEF Accounted
<1>7. ASSUME NEW bar \in HeardIn(p, a, bars)
      PROVE  Accounted(bar, run'[p].tx.issues, prices \cup Held(p)')
  <2>1. Accounted(bar, IssuesOf(a, bars, run[p].cycle), NewRows(p, a, bars))
    BY HeardAccounted
  <2>2. /\ IssuesOf(a, bars, run[p].cycle) \subseteq run'[p].tx.issues
        /\ NewRows(p, a, bars) \subseteq prices \cup Held(p)'
    BY <1>1, <1>3
  <2>. QED  BY <2>1, <2>2 DEF Accounted
<1>8. Accounts(p)'
  BY <1>1, <1>4, <1>6, <1>7 DEF Accounts
<1>9. BarsAccounted'
  BY <1>4 DEF HeldInv, BarsAccounted, NothingDroppedSilently, StoredBarsAreReal
<1>10. \A r \in Processes \ {p} : (HoldsReal(r) /\ Accounts(r))'
  BY <1>1, <1>4, HeldOthers
<1>. QED  BY <1>5, <1>8, <1>9, <1>10 DEF HeldInv

LEMMA HeldFlush ==
    ASSUME BaseInv, HeldInv, NEW p \in Processes, NEW a \in Assets, Flush(p, a)
    PROVE  HeldInv'
<1>1. /\ Moves(p) /\ UNCHANGED <<Tables, now>>
      /\ run'[p].cycle = run[p].cycle /\ run'[p].batch = {}
      /\ run'[p].tx.prices = run[p].tx.prices \cup run[p].batch
      /\ run'[p].tx.issues = run[p].tx.issues /\ run'[p].tx.heard = run[p].tx.heard
  BY FlushMoves DEF BaseInv
<1>2. Held(p)' = Held(p)
  BY <1>1 DEF Held
<1>3. UNCHANGED <<prices, issues, heard, now>>
  BY <1>1 DEF Tables
<1>4. HoldsReal(p)' /\ Accounts(p)'
  BY <1>1, <1>2, <1>3 DEF HeldInv, HoldsReal, Accounts
<1>5. BarsAccounted'
  BY <1>3 DEF HeldInv, BarsAccounted, NothingDroppedSilently, StoredBarsAreReal
<1>6. \A r \in Processes \ {p} : (HoldsReal(r) /\ Accounts(r))'
  BY <1>1, <1>3, HeldOthers
<1>. QED  BY <1>4, <1>5, <1>6 DEF HeldInv

LEMMA HeldCommit ==
    ASSUME BaseInv, HeldInv, NEW p \in Processes, Commit(p)
    PROVE  HeldInv'
<1>1. /\ Moves(p) /\ now' = now /\ run[p].pc = "next"
      /\ prices' = prices \cup run[p].tx.prices /\ issues' = issues \cup run[p].tx.issues
      /\ heard' = heard \cup run[p].tx.heard
      /\ run'[p].batch = run[p].batch /\ run'[p].tx = NoTx
  BY CommitMoves DEF BaseInv
<1>2. run[p].batch = {} /\ run[p].cycle \in Nat /\ run[p].cycle <= now /\ now \in Nat
      /\ run[p].tx.prices \subseteq PriceRows
  BY <1>1, RunTypesFacts DEF BaseInv, Shaped, TypeOK
<1>3. Held(p) = run[p].tx.prices /\ Held(p)' = {} /\ run'[p].tx.heard = {}
  BY <1>1, <1>2 DEF Held, NoTx
<1>4. HoldsReal(p)' /\ Accounts(p)'
  BY <1>3 DEF HoldsReal, Accounts
<1>5. \A row \in prices' : Real(row, now)
  <2>1. \A row \in run[p].tx.prices : Real(row, now)
    BY <1>2, <1>3, LaterReal DEF HeldInv, HoldsReal
  <2>. QED  BY <1>1, <2>1, AccountedReal DEF HeldInv
<1>6. \A bar \in heard' : Accounted(bar, issues', prices')
  <2>1. \A bar \in heard : Accounted(bar, issues', prices')
    BY <1>1, AccountedReal, MoreAccounted DEF HeldInv
  <2>2. run[p].tx.issues \subseteq issues' /\ prices \cup Held(p) \subseteq prices'
    BY <1>1, <1>3
  <2>3. \A bar \in run[p].tx.heard : Accounted(bar, issues', prices')
    BY <2>2, MoreAccounted DEF HeldInv, Accounts
  <2>. QED  BY <1>1, <2>1, <2>3
<1>7. BarsAccounted'
  BY <1>1, <1>5, <1>6
     DEF BarsAccounted, NothingDroppedSilently, StoredBarsAreReal, Accounted, Real
<1>8. \A r \in Processes \ {p} : (HoldsReal(r) /\ Accounts(r))'
  BY <1>1, HeldOthers
<1>. QED  BY <1>4, <1>7, <1>8 DEF HeldInv

LEMMA HeldNext == BaseInv /\ HeldInv /\ [Next]_vars => HeldInv'
<1>. SUFFICES ASSUME BaseInv, HeldInv, [Next]_vars PROVE HeldInv'
  OBVIOUS
<1>1. CASE /\ UNCHANGED <<prices, issues, heard, asked, run>>
           /\ now' = now \/ now' = now + 1
  <2>1. now \in Int /\ now <= now' /\ now' \in Int /\ prices \subseteq PriceRows
    BY <1>1 DEF BaseInv, TypeOK
  <2>2. \A row \in prices : Real(row, now')
    BY <2>1, LaterReal, AccountedReal DEF HeldInv
  <2>3. BarsAccounted'
    BY <1>1, <2>2 DEF HeldInv, BarsAccounted, NothingDroppedSilently, StoredBarsAreReal, Real
  <2>4. \A p \in Processes : (HoldsReal(p) /\ Accounts(p))'
    BY <1>1 DEF HeldInv, HoldsReal, Accounts, Held
  <2>. QED  BY <2>3, <2>4 DEF HeldInv
<1>. QED  BY <1>1, Steps, HeldSteady, HeldAnswered, HeldFlush, HeldCommit

-----------------------------------------------------------------------------
(***************************************************************************)
(* Days asked about.  D and W are what two runs, of the days e and c, have *)
(* asked about and not yet committed; K is what has been committed, and    *)
(* rows are stored bars.                                                   *)
(***************************************************************************)
\* Whoever asks about a day asks about all from there to the day of its run.
Upward(D, e) ==
    \A a \in Assets, d \in Int :
      <<a, d>> \in D => d <= e /\ \A x \in d..e : <<a, x>> \in D

\* A day a run left out lies before a stored bar, or before any backfill.
Founded(D, e, rows) ==
    \A a \in Assets, d \in Int, x \in Int :
      <<a, d>> \in D /\ x <= d /\ <<a, x>> \notin D =>
        \/ \E row \in rows : row.asset = a /\ x < Date(row.ts)
        \/ x < e - Backfill

\* The days between a stored bar and one the run asks about.
Bridged(D, rows, K) ==
    \A a \in Assets, d \in Int, row \in rows :
      <<a, d>> \in D /\ row.asset = a =>
        \A x \in Date(row.ts)..d : <<a, x>> \in K \cup D

Sound(D, e, rows, K) == Upward(D, e) /\ Founded(D, e, rows) /\ Bridged(D, rows, K)

\* A bar is stored for a day asked about, or for the day after one.
Anchored(rows, K) ==
    \A row \in rows :
      <<row.asset, Date(row.ts)>> \in K \/ <<row.asset, Date(row.ts) - 1>> \in K

\* Nothing is passed over between day e and a later day asked about.
Reached(e, K) ==
    \A a \in Assets, d \in Int :
      <<a, d>> \in K => \A x \in (e + 1)..d : <<a, x>> \in K

RowFacts(rows) == \A row \in rows : row.asset \in Assets /\ Date(row.ts) \in Int

LEMMA RowTypes ==
    ASSUME NEW rows, rows \subseteq PriceRows
    PROVE  RowFacts(rows) /\ \A row \in rows : row.ts \in Nat
BY DateType DEF RowFacts, PriceRows

LEMMA SoundUnion ==
    ASSUME NEW D, NEW W, NEW e \in Int, NEW rows, NEW K,
           Sound(D, e, rows, K), Sound(W, e, rows, K)
    PROVE  Sound(D \cup W, e, rows, K)
<1>1. Upward(D \cup W, e)
  BY DEF Sound, Upward
<1>2. Founded(D \cup W, e, rows)
  BY DEF Sound, Founded
<1>3. Bridged(D \cup W, rows, K)
  BY DEF Sound, Bridged
<1>. QED  BY <1>1, <1>2, <1>3 DEF Sound

LEMMA SoundEmpty ==
    ASSUME NEW e, NEW rows, NEW K
    PROVE  Sound({}, e, rows, K)
BY DEF Sound, Upward, Founded, Bridged

\* Where a bar of P lies, given that its run commits W and asked to the end.
LEMMA AnchorDay ==
    ASSUME NEW P, NEW W, RowFacts(P), Anchored(P, W), NEW row \in P
    PROVE  \E y \in Int : /\ y = Date(row.ts) \/ y = Date(row.ts) - 1
                          /\ <<row.asset, y>> \in W
<1>1. Date(row.ts) \in Int /\ Date(row.ts) - 1 \in Int
  BY DEF RowFacts
<1>. QED  BY <1>1 DEF Anchored

LEMMA JoinedCommit ==
    ASSUME NEW W, NEW c \in Int, NEW P, NEW rows, NEW K, RowFacts(P), RowFacts(rows),
           Sound(W, c, rows, K), Anchored(P, W), Reached(c, K), Bridged(K, rows, {})
    PROVE  Bridged(K \cup W, rows \cup P, {})
<1>. SUFFICES ASSUME NEW a \in Assets, NEW d \in Int, NEW row \in rows \cup P,
                     <<a, d>> \in K \cup W, row.asset = a,
                     NEW x \in Date(row.ts)..d
              PROVE  <<a, x>> \in K \cup W
  BY DEF Bridged
<1>0. Date(row.ts) \in Int /\ x \in Int /\ Date(row.ts) <= x /\ x <= d
  BY DEF RowFacts
<1>1. CASE row \in rows
  BY <1>1 DEF Sound, Bridged
<1>2. CASE row \in P
  <2>1. PICK y \in Int : (y = Date(row.ts) \/ y = Date(row.ts) - 1) /\ <<a, y>> \in W
    BY <1>2, AnchorDay
  <2>2. y <= x
    BY <1>0, <2>1
  <2>3. CASE x <= c
    <3>1. x \in y..c
      BY <1>0, <2>2, <2>3
    <3>. QED  BY <2>1, <3>1 DEF Sound, Upward
  <2>4. CASE ~(x <= c)
    <3>1. x \in (c + 1)..d
      BY <1>0, <2>4
    <3>2. <<a, d>> \in K
      BY <1>0, <2>4 DEF Sound, Upward
    <3>. QED  BY <3>1, <3>2 DEF Reached
  <2>. QED  BY <2>3, <2>4
<1>. QED  BY <1>1, <1>2

\* A day left out by a run of day e, after the day c of another run that did not
\* begin more than a backfill earlier, has been asked about since.
LEMMA LeftOut ==
    ASSUME NEW D, NEW e \in Int, NEW c \in Int, NEW rows, NEW K, RowFacts(rows),
           Founded(D, e, rows), Anchored(rows, K), Reached(c, K), e <= c + Backfill,
           NEW a \in Assets, NEW d \in Int, <<a, d>> \in D,
           NEW x \in Int, x <= d, c < x, <<a, x>> \notin D
    PROVE  <<a, x>> \in K
<1>1. Backfill \in Nat
  BY MarketAssumption
<1>2. ~(x < e - Backfill)
  BY <1>1
<1>3. PICK row \in rows : row.asset = a /\ x < Date(row.ts)
  BY <1>2 DEF Founded
<1>4. PICK z \in Int : (z = Date(row.ts) \/ z = Date(row.ts) - 1) /\ <<a, z>> \in K
  BY <1>3, AnchorDay
<1>5. x <= z
  BY <1>3, <1>4 DEF RowFacts
<1>6. x \in (c + 1)..z
  BY <1>5
<1>. QED  BY <1>4, <1>6 DEF Reached

LEMMA SoundCommit ==
    ASSUME NEW D, NEW e \in Int, NEW W, NEW c \in Int, NEW P, NEW rows, NEW K,
           RowFacts(P), RowFacts(rows),
           Sound(D, e, rows, K), Sound(W, c, rows, K), Anchored(P, W), Anchored(rows, K),
           Reached(c, K), e <= c + Backfill
    PROVE  Sound(D, e, rows \cup P, K \cup W)
<1>1. Upward(D, e) /\ Founded(D, e, rows \cup P)
  BY DEF Sound, Founded
<1>2. Bridged(D, rows \cup P, K \cup W)
  <2>. SUFFICES ASSUME NEW a \in Assets, NEW d \in Int, NEW row \in rows \cup P,
                       <<a, d>> \in D, row.asset = a, NEW x \in Date(row.ts)..d
                PROVE  <<a, x>> \in K \cup W \cup D
    BY DEF Bridged
  <2>0. Date(row.ts) \in Int /\ x \in Int /\ Date(row.ts) <= x /\ x <= d
    BY DEF RowFacts
  <2>1. CASE row \in rows
    BY <2>1 DEF Sound, Bridged
  <2>2. CASE row \in P
    <3>1. PICK y \in Int : (y = Date(row.ts) \/ y = Date(row.ts) - 1) /\ <<a, y>> \in W
      BY <2>2, AnchorDay
    <3>2. CASE x <= c
      <4>1. x \in y..c
        BY <2>0, <3>1, <3>2
      <4>. QED  BY <3>1, <4>1 DEF Sound, Upward
    <3>3. CASE ~(x <= c)
      <4>1. c < x
        BY <2>0, <3>3
      <4>2. CASE <<a, x>> \notin D
        <5>1. <<a, x>> \in K
          BY <2>0, <4>1, <4>2, LeftOut DEF Sound
        <5>. QED  BY <5>1
      <4>. QED  BY <4>2
    <3>. QED  BY <3>2, <3>3
  <2>. QED  BY <2>1, <2>2
<1>. QED  BY <1>1, <1>2 DEF Sound

LEMMA ReachedCommit ==
    ASSUME NEW e \in Int, NEW W, NEW c \in Int, NEW rows, NEW K, RowFacts(rows),
           Sound(W, c, rows, K), Anchored(rows, K), Reached(e, K), c <= e + Backfill
    PROVE  Reached(e, K \cup W)
<1>. SUFFICES ASSUME NEW a \in Assets, NEW d \in Int, <<a, d>> \in K \cup W,
                     NEW x \in (e + 1)..d
              PROVE  <<a, x>> \in K \cup W
  BY DEF Reached
<1>1. CASE <<a, d>> \in K
  BY <1>1 DEF Reached
<1>2. CASE <<a, d>> \in W /\ <<a, x>> \notin W
  <2>1. x \in Int /\ x <= d /\ e < x
    OBVIOUS
  <2>2. <<a, x>> \in K
    BY <1>2, <2>1, LeftOut DEF Sound
  <2>. QED  BY <2>2
<1>. QED  BY <1>1, <1>2

(***************************************************************************)
(* The window that starts at s and ends at e.  Without a stored bar it is  *)
(* the backfill, with one it starts at or before the newest.               *)
(***************************************************************************)
Window(a, s, e) == {<<a, d>> : d \in s..e}

LEMMA WindowSound ==
    ASSUME NEW a \in Assets, NEW s \in Int, NEW e \in Int, NEW rows, NEW K, RowFacts(rows),
           Anchored(rows, K), Bridged(K, rows, {}),
           \/ (\A row \in rows : row.asset # a) /\ s = e - Backfill
           \/ \E newest \in rows :
                /\ newest.asset = a /\ s <= Date(newest.ts)
                /\ \A row \in rows : row.asset = a => Date(row.ts) <= Date(newest.ts)
    PROVE  Sound(Window(a, s, e), e, rows, K)
<1>0. \A b, d : <<b, d>> \in Window(a, s, e) <=> b = a /\ d \in s..e
  BY DEF Window
<1>1. Upward(Window(a, s, e), e)
  <2>. SUFFICES ASSUME NEW d \in s..e, NEW x \in d..e  PROVE <<a, x>> \in Window(a, s, e)
    BY <1>0 DEF Upward
  <2>1. x \in s..e
    OBVIOUS
  <2>. QED  BY <1>0, <2>1
<1>2. Founded(Window(a, s, e), e, rows)
  <2>. SUFFICES ASSUME NEW d \in s..e, NEW x \in Int, x <= d, <<a, x>> \notin Window(a, s, e)
                PROVE  \/ \E row \in rows : row.asset = a /\ x < Date(row.ts)
                       \/ x < e - Backfill
    BY <1>0 DEF Founded
  <2>1. x < s
    <3>1. ~(x \in s..e)
      BY <1>0
    <3>. QED  BY <3>1
  <2>2. CASE s = e - Backfill
    BY <2>1, <2>2
  <2>3. ASSUME NEW newest \in rows, newest.asset = a, s <= Date(newest.ts)
        PROVE  x < Date(newest.ts)
    BY <2>1, <2>3 DEF RowFacts
  <2>. QED  BY <2>2, <2>3
<1>3. Bridged(Window(a, s, e), rows, K)
  <2>. SUFFICES ASSUME NEW d \in s..e, NEW row \in rows, row.asset = a,
                       NEW x \in Date(row.ts)..d
                PROVE  <<a, x>> \in K \cup Window(a, s, e)
    BY <1>0 DEF Bridged
  <2>0. Date(row.ts) \in Int /\ x \in Int /\ Date(row.ts) <= x /\ x <= d
    BY DEF RowFacts
  <2>1. CASE s <= x
    <3>1. x \in s..e
      BY <2>0, <2>1
    <3>. QED  BY <1>0, <3>1
  <2>2. CASE x < s
    <3>1. PICK newest \in rows : newest.asset = a /\ s <= Date(newest.ts)
      OBVIOUS
    <3>2. PICK z \in Int : (z = Date(newest.ts) \/ z = Date(newest.ts) - 1) /\ <<a, z>> \in K
      BY <3>1, AnchorDay
    <3>3. x \in Date(row.ts)..z
      <4>1. Date(newest.ts) \in Int
        BY DEF RowFacts
      <4>2. x <= z
        BY <2>0, <2>2, <3>1, <3>2, <4>1
      <4>. QED  BY <2>0, <4>2
    <3>4. <<a, x>> \in K
      BY <3>2, <3>3 DEF Bridged
    <3>. QED  BY <3>4
  <2>. QED  BY <2>0, <2>1, <2>2
<1>. QED  BY <1>1, <1>2, <1>3 DEF Sound

-----------------------------------------------------------------------------
(***************************************************************************)
(* What the runs have asked about.                                         *)
(***************************************************************************)
\* No run goes on for longer than a backfill, 400 days in the code.
Prompt ==
    \A p \in Processes : run[p].pc # "idle" => Date(now) <= WindowEnd(p) + Backfill

Covers(p) ==
    /\ Anchored(Held(p), run[p].tx.asked)
    /\ Sound(run[p].tx.asked, WindowEnd(p), prices, asked)
    /\ run[p].pc # "idle" => Reached(WindowEnd(p), asked)
    /\ run[p].pc = "wait" =>
         \A a \in Assets : Current(p, a) => Sound(AskedFor(p, a), WindowEnd(p), prices, asked)

CoverInv ==
    /\ Anchored(prices, asked)
    /\ Bridged(asked, prices, {})
    /\ \A a \in Assets, d \in Int : <<a, d>> \in asked => d <= Date(now)
    /\ \A p \in Processes : Covers(p)

LEMMA CoverFacts ==
    ASSUME BaseInv, NEW p \in Processes
    PROVE  /\ run[p].cycle \in Nat /\ WindowEnd(p) \in Int /\ now \in Nat /\ Date(now) \in Int
           /\ WindowEnd(p) <= Date(now)
           /\ RowFacts(prices) /\ RowFacts(run[p].tx.prices) /\ RowFacts(Held(p))
           /\ prices \subseteq PriceRows /\ Held(p) \subseteq PriceRows
           /\ asked \subseteq Assets \X Int
<1>1. /\ run[p].cycle \in Nat /\ now \in Nat /\ run[p].cycle <= now
      /\ prices \subseteq PriceRows /\ run[p].tx.prices \subseteq PriceRows
      /\ run[p].batch \subseteq PriceRows /\ asked \subseteq Assets \X Int
  BY RunTypesFacts DEF BaseInv, Shaped, TypeOK
<1>2. Held(p) \subseteq PriceRows
  BY <1>1 DEF Held
<1>3. Date(run[p].cycle) \in Int /\ Date(now) \in Int /\ Date(run[p].cycle) <= Date(now)
  BY <1>1, DateType, DateMonotone
<1>. QED  BY <1>1, <1>2, <1>3, RowTypes DEF WindowEnd

LEMMA CoverInit == Init => CoverInv
<1>. SUFFICES ASSUME Init PROVE CoverInv
  OBVIOUS
<1>1. prices = {} /\ asked = {} /\ \A p \in Processes : run[p] = Idle
  BY DEF Init
<1>2. ASSUME NEW p \in Processes  PROVE Covers(p)
  <2>1. Held(p) = {} /\ run[p].tx.asked = {} /\ run[p].pc = "idle"
    BY <1>1 DEF Held, Idle, NoTx
  <2>. QED  BY <2>1, SoundEmpty DEF Covers, Anchored
<1>. QED  BY <1>1, <1>2 DEF CoverInv, Anchored, Bridged

\* The runs of others, while the tables of bars and days stay as they are.
LEMMA CoverOthers ==
    ASSUME CoverInv, NEW p \in Processes, Moves(p), UNCHANGED <<prices, asked>>,
           NEW r \in Processes \ {p}
    PROVE  Covers(r)'
<1>1. run'[r] = run[r] /\ Covers(r)
  BY DEF Moves, CoverInv
<1>2. Held(r)' = Held(r) /\ WindowEnd(r)' = WindowEnd(r)
      /\ \A a \in Assets : AskedFor(r, a)' = AskedFor(r, a) /\ (Current(r, a)' <=> Current(r, a))
  BY <1>1 DEF Held, WindowEnd, AskedFor, Current
<1>. QED  BY <1>1, <1>2 DEF Covers

LEMMA Greatest ==
    ASSUME NEW T, T \subseteq Nat, T # {}, NEW m \in Nat, \A t \in T : t <= m
    PROVE  \E t \in T : \A u \in T : u <= t
<1>. DEFINE gaps == {m - t : t \in T}
<1>1. gaps \subseteq Nat /\ gaps # {}
  <2>1. \A t \in T : m - t \in Nat
    OBVIOUS
  <2>. QED  BY <2>1
<1>2. PICK g \in gaps : \A h \in gaps : ~(<<h, g>> \in OpToRel(<, Nat))
  BY <1>1, NatLessThanWellFounded, WFMin
<1>3. PICK t \in T : g = m - t
  OBVIOUS
<1>4. ASSUME NEW u \in T, t < u  PROVE FALSE
  <2>1. m - u \in gaps /\ m - u \in Nat /\ g \in Nat
    BY <1>1
  <2>2. <<m - u, g>> \in Nat \X Nat /\ <<m - u, g>>[1] < <<m - u, g>>[2]
    BY <1>3, <1>4, <2>1
  <2>3. <<m - u, g>> \in OpToRel(<, Nat)
    BY <2>2, Zenon DEF OpToRel
  <2>. QED  BY <1>2, <2>1, <2>3
<1>5. ASSUME NEW u \in T  PROVE u <= t
  <2>1. u \in Int /\ t \in Int /\ ~(t < u)
    BY <1>4
  <2>. QED  BY <2>1
<1>. QED  BY <1>5

\* The window a run asks for (get_latest_bar_ts sees what it has inserted, but
\* of this asset that is nothing).
LEMMA AsksSound ==
    ASSUME BaseInv, HeldInv, CoverInv, NEW p \in Processes, NEW a \in Assets, Asks(p, a)
    PROVE  Sound(Window(a, run'[p].start, WindowEnd(p)), WindowEnd(p), prices, asked)
<1>1. PICK s : s = run'[p].start /\ s \in WindowStart(p, a)
  BY DEF Asks
<1>2. PICK e \in Int : e = WindowEnd(p) /\ e = Date(run[p].cycle)
  BY CoverFacts DEF WindowEnd
<1>3. /\ RowFacts(prices) /\ prices \subseteq PriceRows
      /\ \A row \in prices : row.ts \in Nat
      /\ Overlap \in Nat /\ Backfill \in Nat
  BY CoverFacts, RowTypes, MarketAssumption
<1>4. \A row \in Visible(p) : row.asset = a => row \in prices
  <2>1. ASSUME NEW row \in run[p].tx.prices, row.asset = a  PROVE FALSE
    <3>1. Rank[row.asset] < Rank[a]
      BY DEF BaseInv, Placed, Asks, Current
    <3>2. Rank[a] \in Nat
      BY MarketAssumption
    <3>. QED  BY <2>1, <3>1, <3>2
  <2>. QED  BY <2>1 DEF Visible
<1>5. \A t : t \in StampsOf(Visible(p), a) <=> \E row \in prices : row.asset = a /\ row.ts = t
  BY <1>4 DEF StampsOf, Visible
<1>6. CASE Latest(p, a) = {}
  <2>1. s = e - Backfill
    BY <1>1, <1>2, <1>6 DEF WindowStart
  <2>2. \A row \in prices : row.asset # a
    <3>. SUFFICES ASSUME NEW row \in prices, row.asset = a PROVE FALSE
      OBVIOUS
    <3>1. /\ StampsOf(Visible(p), a) \subseteq Nat
          /\ row.ts \in StampsOf(Visible(p), a)
      BY <1>3, <1>5
    <3>2. now + DayLength \in Nat /\ \A t \in StampsOf(Visible(p), a) : t <= now + DayLength
      BY <1>5, AccountedReal, CoverFacts, DayLengthAssumption DEF HeldInv, Real, FutureTolerance
    <3>3. PICK t \in StampsOf(Visible(p), a) : \A u \in StampsOf(Visible(p), a) : u <= t
      BY <3>1, <3>2, Greatest
    <3>. QED  BY <1>6, <3>3 DEF Latest
  <2>3. s \in Int
    BY <1>2, <1>3, <2>1
  <2>. QED  BY <1>1, <1>2, <1>3, <2>1, <2>2, <2>3, WindowSound DEF CoverInv
<1>7. CASE Latest(p, a) # {}
  <2>1. PICK t \in Latest(p, a) : s = Date(t) - Overlap
    BY <1>1, <1>7 DEF WindowStart
  <2>2. PICK newest \in prices : newest.asset = a /\ newest.ts = t
    BY <1>5, <2>1 DEF Latest
  <2>3. ASSUME NEW row \in prices, row.asset = a  PROVE Date(row.ts) <= Date(newest.ts)
    <3>1. row.ts <= newest.ts
      BY <1>5, <2>1, <2>2, <2>3 DEF Latest
    <3>. QED  BY <1>3, <3>1, DateMonotone
  <2>4. s \in Int /\ s <= Date(newest.ts)
    BY <1>3, <2>1, <2>2 DEF RowFacts
  <2>. QED  BY <1>1, <1>2, <1>3, <2>2, <2>3, <2>4, WindowSound DEF CoverInv
<1>. QED  BY <1>6, <1>7

LEMMA CoverSteady ==
    ASSUME BaseInv, HeldInv, CoverInv, NEW p \in Processes, Steady(p)
    PROVE  CoverInv'
<1>1. Moves(p) /\ UNCHANGED <<prices, issues, heard, asked, now>>
  BY DEF Steady
<1>2. \A r \in Processes \ {p} : Covers(r)'
  BY <1>1, CoverOthers
<1>3. Anchored(Held(p)', run'[p].tx.asked)
      /\ Sound(run'[p].tx.asked, WindowEnd(p)', prices, asked)
  <2>1. CASE /\ run'[p].tx = run[p].tx /\ run'[p].batch = run[p].batch
             /\ run'[p].cycle = run[p].cycle
    <3>1. Held(p)' = Held(p) /\ WindowEnd(p)' = WindowEnd(p)
      BY <2>1 DEF Held, WindowEnd
    <3>. QED  BY <2>1, <3>1 DEF CoverInv, Covers
  <2>2. CASE run'[p].tx = NoTx /\ run'[p].batch = {}
    <3>1. Held(p)' = {} /\ run'[p].tx.asked = {}
      BY <2>2 DEF Held, NoTx
    <3>. QED  BY <3>1, SoundEmpty DEF Anchored
  <2>. QED  BY <2>1, <2>2 DEF Steady
<1>4. run'[p].pc # "idle" => Reached(WindowEnd(p)', asked)
  <2>1. CASE run'[p].cycle = now
    <3>1. WindowEnd(p)' = Date(now) /\ Date(now) \in Int
      BY <2>1, CoverFacts DEF WindowEnd
    <3>. QED  BY <3>1 DEF CoverInv, Reached
  <2>2. CASE run[p].pc # "idle" /\ run'[p].cycle = run[p].cycle
    BY <2>2 DEF CoverInv, Covers, WindowEnd
  <2>. QED  BY <2>1, <2>2 DEF Steady
<1>5. ASSUME run'[p].pc = "wait", NEW b \in Assets, Current(p, b)'
      PROVE  Sound(AskedFor(p, b)', WindowEnd(p)', prices, asked)
  <2>1. PICK a \in Assets : Asks(p, a)
    BY <1>5 DEF Steady
  <2>2. /\ b \in run[p].todo /\ \A other \in run[p].todo : Rank[b] <= Rank[other]
        /\ a \in run[p].todo /\ \A other \in run[p].todo : Rank[a] <= Rank[other]
    BY <1>5, <2>1 DEF Asks, Current
  <2>3. a = b
    BY <2>2, MarketAssumption
  <2>4. WindowEnd(p)' = WindowEnd(p) /\ AskedFor(p, a)' = Window(a, run'[p].start, WindowEnd(p))
    BY <2>1 DEF Asks, WindowEnd, AskedFor, Window
  <2>. QED  BY <2>1, <2>3, <2>4, AsksSound
<1>6. Covers(p)'
  BY <1>1, <1>3, <1>4, <1>5 DEF Covers
<1>. QED  BY <1>1, <1>2, <1>6 DEF CoverInv

LEMMA CoverAnswered ==
    ASSUME BaseInv, CoverInv, NEW p \in Processes, NEW a \in Assets, NEW q, NEW bars,
           AnsweredWith(p, a, q, bars)
    PROVE  CoverInv'
<1>1. /\ Response(p, q, bars)
      /\ Moves(p) /\ UNCHANGED <<Tables, now>> /\ run[p].pc = "wait" /\ Current(p, a)
      /\ run'[p].pc = "flush" /\ run'[p].cycle = run[p].cycle
      /\ run'[p].batch = NewRows(p, a, bars) /\ run'[p].tx.prices = run[p].tx.prices
      /\ run'[p].tx.asked = run[p].tx.asked \cup AskedFor(p, a)
  BY DEF AnsweredWith
<1>2. UNCHANGED <<prices, asked, now>>
  BY <1>1 DEF Tables
<1>3. \A r \in Processes \ {p} : Covers(r)'
  BY <1>1, <1>2, CoverOthers
<1>4. PICK e \in Int : e = WindowEnd(p) /\ WindowEnd(p)' = e /\ e = Date(run[p].cycle)
  BY <1>1, CoverFacts DEF WindowEnd
<1>5. Sound(run'[p].tx.asked, e, prices, asked)
  <2>1. Sound(run[p].tx.asked, e, prices, asked) /\ Sound(AskedFor(p, a), e, prices, asked)
    BY <1>1, <1>4 DEF CoverInv, Covers
  <2>. QED  BY <1>1, <2>1, SoundUnion
<1>6. Held(p)' = run[p].tx.prices \cup NewRows(p, a, bars) /\ run[p].tx.prices \subseteq Held(p)
  BY <1>1 DEF Held
<1>7. ASSUME NEW row \in NewRows(p, a, bars)
      PROVE  \/ <<row.asset, Date(row.ts)>> \in AskedFor(p, a)
             \/ <<row.asset, Date(row.ts) - 1>> \in AskedFor(p, a)
  <2>1. run[p].cycle \in Nat /\ row \in RowsOf(a, bars, run[p].cycle)
    BY CoverFacts DEF NewRows
  <2>2. /\ row.asset = a /\ row \in PriceRows /\ run[p].start <= Date(row.ts)
        /\ row.ts <= run[p].cycle + FutureTolerance
    BY <1>1, <2>1, KeptRows
  <2>3. PICK y \in Int : y = Date(row.ts)
    BY <2>2, DateType DEF PriceRows
  <2>4. y <= e + 1
    <3>1. row.ts \in Int /\ run[p].cycle + DayLength \in Int
      BY <2>1, <2>2, DayLengthAssumption DEF PriceRows
    <3>2. Date(row.ts) <= Date(run[p].cycle + DayLength)
      BY <2>2, <3>1, DateMonotone DEF FutureTolerance
    <3>. QED  BY <1>4, <2>1, <2>3, <3>2, NextDay
  <2>5. run[p].start \in Int /\ run[p].start <= e
    <3>1. run[p].start \in Int
      BY RunTypesFacts DEF BaseInv, TypeOK
    <3>2. run[p].start <= e
      BY <1>1, <1>4 DEF BaseInv, Shaped
    <3>. QED  BY <3>1, <3>2
  <2>6. y \in run[p].start..e \/ y - 1 \in run[p].start..e
    BY <2>2, <2>3, <2>4, <2>5
  <2>. QED  BY <1>4, <2>2, <2>3, <2>6 DEF AskedFor
<1>8. Anchored(Held(p)', run'[p].tx.asked)
  <2>1. ASSUME NEW row \in run[p].tx.prices
        PROVE  \/ <<row.asset, Date(row.ts)>> \in run[p].tx.asked
               \/ <<row.asset, Date(row.ts) - 1>> \in run[p].tx.asked
    BY <1>6 DEF CoverInv, Covers, Anchored
  <2>. QED  BY <1>1, <1>6, <1>7, <2>1 DEF Anchored
<1>9. Reached(e, asked)
  BY <1>1, <1>4 DEF CoverInv, Covers
<1>10. Covers(p)'
  BY <1>1, <1>2, <1>4, <1>5, <1>8, <1>9 DEF Covers
<1>. QED  BY <1>2, <1>3, <1>10 DEF CoverInv

LEMMA CoverFlush ==
    ASSUME BaseInv, CoverInv, NEW p \in Processes, NEW a \in Assets, Flush(p, a)
    PROVE  CoverInv'
<1>1. /\ Moves(p) /\ UNCHANGED <<Tables, now>>
      /\ run[p].pc = "flush" /\ run'[p].pc = "next"
      /\ run'[p].cycle = run[p].cycle /\ run'[p].batch = {}
      /\ run'[p].tx.prices = run[p].tx.prices \cup run[p].batch
      /\ run'[p].tx.asked = run[p].tx.asked
  BY FlushMoves DEF BaseInv
<1>2. UNCHANGED <<prices, asked, now>> /\ Held(p)' = Held(p) /\ WindowEnd(p)' = WindowEnd(p)
  BY <1>1 DEF Tables, Held, WindowEnd
<1>3. \A r \in Processes \ {p} : Covers(r)'
  BY <1>1, <1>2, CoverOthers
<1>4. Covers(p)'
  BY <1>1, <1>2 DEF CoverInv, Covers
<1>. QED  BY <1>2, <1>3, <1>4 DEF CoverInv

LEMMA CoverCommit ==
    ASSUME BaseInv, CoverInv, Prompt, NEW q \in Processes, Commit(q)
    PROVE  CoverInv'
<1>1. /\ Moves(q) /\ now' = now /\ run[q].pc = "next"
      /\ prices' = prices \cup run[q].tx.prices /\ asked' = asked \cup run[q].tx.asked
      /\ run'[q].pc = "regime" /\ run'[q].cycle = run[q].cycle
      /\ run'[q].batch = run[q].batch /\ run'[q].tx = NoTx
  BY CommitMoves DEF BaseInv
<1>2. run[q].batch = {}
  BY <1>1 DEF BaseInv, Shaped
<1>3. Held(q) = run[q].tx.prices /\ Held(q)' = {} /\ run'[q].tx.asked = {}
      /\ WindowEnd(q)' = WindowEnd(q)
  BY <1>1, <1>2 DEF Held, NoTx, WindowEnd
<1>4. PICK c \in Int : c = WindowEnd(q)
  BY CoverFacts
<1>. PICK P, W : P = run[q].tx.prices /\ W = run[q].tx.asked
  OBVIOUS
<1>5. /\ RowFacts(P) /\ RowFacts(prices) /\ Sound(W, c, prices, asked) /\ Anchored(P, W)
      /\ Reached(c, asked) /\ Bridged(asked, prices, {}) /\ Anchored(prices, asked)
      /\ prices' = prices \cup P /\ asked' = asked \cup W
  BY <1>1, <1>3, <1>4, CoverFacts DEF CoverInv, Covers
<1>6. Anchored(prices', asked')
  BY <1>5 DEF Anchored
<1>7. Bridged(asked', prices', {})
  BY <1>5, JoinedCommit
<1>8. Date(now) \in Int /\ c <= Date(now) /\ Backfill \in Nat
  BY <1>4, CoverFacts, MarketAssumption
<1>9. ASSUME NEW a \in Assets, NEW d \in Int, <<a, d>> \in asked'  PROVE d <= Date(now)
  <2>1. <<a, d>> \in W => d <= c
    BY <1>5 DEF Sound, Upward
  <2>2. <<a, d>> \in asked => d <= Date(now)
    BY DEF CoverInv
  <2>. QED  BY <1>5, <1>8, <1>9, <2>1, <2>2
<1>10. Covers(q)'
  <2>1. Reached(c, asked')
    <3>1. c <= c + Backfill
      BY <1>8
    <3>. QED  BY <1>5, <3>1, ReachedCommit
  <2>. QED  BY <1>1, <1>3, <1>4, <2>1, SoundEmpty DEF Covers, Anchored
<1>11. ASSUME NEW p \in Processes \ {q}  PROVE Covers(p)'
  <2>1. run'[p] = run[p] /\ Covers(p)
    BY <1>1 DEF Moves, CoverInv
  <2>2. Held(p)' = Held(p) /\ WindowEnd(p)' = WindowEnd(p)
        /\ \A a \in Assets : AskedFor(p, a)' = AskedFor(p, a) /\ (Current(p, a)' <=> Current(p, a))
    BY <2>1 DEF Held, WindowEnd, AskedFor, Current
  <2>3. PICK e \in Int : e = WindowEnd(p) /\ e <= Date(now)
    BY CoverFacts
  <2>4. Date(now) <= c + Backfill /\ (run[p].pc # "idle" => Date(now) <= e + Backfill)
    BY <1>1, <1>4, <2>3 DEF Prompt
  <2>5. e <= c + Backfill /\ (run[p].pc # "idle" => c <= e + Backfill)
    BY <1>8, <2>3, <2>4
  <2>6. ASSUME NEW D, Sound(D, e, prices, asked)  PROVE Sound(D, e, prices', asked')
    BY <1>5, <2>5, <2>6, SoundCommit
  <2>7. run[p].pc # "idle" => Reached(e, asked')
    BY <1>5, <2>1, <2>3, <2>5, ReachedCommit DEF Covers
  <2>. QED  BY <2>1, <2>2, <2>3, <2>6, <2>7 DEF Covers
<1>. QED  BY <1>1, <1>6, <1>7, <1>9, <1>10, <1>11 DEF CoverInv

LEMMA CoverNext == BaseInv /\ HeldInv /\ CoverInv /\ Prompt /\ [Next]_vars => CoverInv'
<1>. SUFFICES ASSUME BaseInv, HeldInv, CoverInv, Prompt, [Next]_vars PROVE CoverInv'
  OBVIOUS
<1>1. CASE /\ UNCHANGED <<prices, issues, heard, asked, run>>
           /\ now' = now \/ now' = now + 1
  <2>1. now \in Int /\ now <= now' /\ now' \in Int
    BY <1>1 DEF BaseInv, TypeOK
  <2>2. Date(now) \in Int /\ Date(now') \in Int /\ Date(now) <= Date(now')
    BY <2>1, DateType, DateMonotone
  <2>3. \A p \in Processes : Covers(p)'
    BY <1>1 DEF CoverInv, Covers, Held, WindowEnd, AskedFor, Current
  <2>4. \A a \in Assets, d \in Int : <<a, d>> \in asked => d <= Date(now')
    BY <2>2 DEF CoverInv
  <2>. QED  BY <1>1, <2>3, <2>4 DEF CoverInv
<1>. QED  BY <1>1, Steps, CoverSteady, CoverAnswered, CoverFlush, CoverCommit

-----------------------------------------------------------------------------
(***************************************************************************)
(* The theorems.                                                           *)
(***************************************************************************)
LEMMA NothingPassedOver == BaseInv /\ CoverInv => NoDayPassedOver
<1>. SUFFICES ASSUME BaseInv, CoverInv, NEW row \in prices, NEW request \in asked,
                     row.asset = request[1], NEW x \in Date(row.ts)..request[2]
              PROVE  <<row.asset, x>> \in asked
  BY DEF NoDayPassedOver
<1>1. request \in Assets \X Int
  BY DEF BaseInv, TypeOK
<1>2. request = <<request[1], request[2]>> /\ request[1] \in Assets /\ request[2] \in Int
  BY <1>1
<1>. QED  BY <1>2 DEF CoverInv, Bridged

\* Whatever the newest bar a run sees, its own or a stored one, it is no later
\* than tomorrow.
LEMMA WindowsUpright == BaseInv /\ HeldInv => NoInvertedWindow
<1>. SUFFICES ASSUME BaseInv, HeldInv, NEW p \in Processes, NEW a \in Assets,
                     Date(now) + 1 - Overlap <= WindowEnd(p), NEW s \in WindowStart(p, a)
              PROVE  s <= WindowEnd(p)
  BY DEF NoInvertedWindow, WindowEnd
<1>1. /\ now \in Nat /\ Date(now) \in Int /\ WindowEnd(p) \in Int /\ prices \subseteq PriceRows
      /\ Held(p) \subseteq PriceRows /\ run[p].cycle \in Nat /\ run[p].cycle <= now
      /\ Overlap \in Nat /\ Backfill \in Nat /\ DayLength \in Nat
  BY CoverFacts, MarketAssumption, DayLengthAssumption DEF BaseInv, Shaped
<1>2. CASE Latest(p, a) = {}
  BY <1>1, <1>2 DEF WindowStart, WindowEnd
<1>3. CASE Latest(p, a) # {}
  <2>1. PICK t \in Latest(p, a) : s = Date(t) - Overlap
    BY <1>3 DEF WindowStart
  <2>2. PICK row \in Visible(p) : row.ts = t
    BY DEF Latest, StampsOf
  <2>3. t \in Nat /\ t <= now + DayLength
    <3>1. CASE row \in prices
      BY <1>1, <2>2, <3>1, AccountedReal DEF HeldInv, Real, FutureTolerance, PriceRows
    <3>2. CASE row \in Held(p)
      <4>1. t \in Nat /\ t <= run[p].cycle + DayLength
        BY <1>1, <2>2, <3>2 DEF HeldInv, HoldsReal, Real, FutureTolerance, PriceRows
      <4>. QED  BY <1>1, <4>1
    <3>. QED  BY <2>2, <3>1, <3>2 DEF Visible, Held
  <2>4. Date(t) <= Date(now + DayLength) /\ Date(t) \in Int
    BY <1>1, <2>3, DateMonotone, DateType
  <2>5. Date(now + DayLength) = Date(now) + 1
    BY <1>1, NextDay
  <2>. QED  BY <1>1, <2>1, <2>4, <2>5
<1>. QED  BY <1>2, <1>3

\* Every value keeps its type, and no bar is stored twice for an asset and a
\* timestamp, whoever runs the update at the same time (price_repository.py
\* add_many, the unique key of prices).
THEOREM MarketTypes == Spec => []TypeOK
<1>1. BaseInv => TypeOK
  BY DEF BaseInv
<1>. QED  BY <1>1, BaseInit, BaseNext, PTL DEF Spec

\* Two runs never wait for each other's rows (daily_market.py run: both insert in
\* ticker order).
THEOREM NoRunsDeadlock == Spec => []NoDeadlock
BY BaseInit, BaseNext, BaseNoDeadlock, PTL DEF Spec

\* Every notable bar a committed run received (one of a timestamp that was not in
\* the table, or a malformed one) is in the table with the close that was heard or
\* has an issue, and what is in
\* the table is well-formed, of today at the latest but for a day's tolerance, and
\* generated only where the primary is a generator (validation.py, registry.py).
THEOREM BarsAreAccounted == Spec => []BarsAccounted
<1>1. HeldInv => BarsAccounted
  BY DEF HeldInv
<1>. QED  BY <1>1, BaseInit, BaseNext, HeldInit, HeldNext, PTL DEF Spec

\* A bar stamped ahead of its time cannot wedge the job, however long a run of
\* another process lasts (daily_market.py _update_asset).
THEOREM NoWindowInverts == Spec => []NoInvertedWindow
BY BaseInit, BaseNext, HeldInit, HeldNext, WindowsUpright, PTL DEF Spec

\* As long as no run goes on for longer than a backfill, no day between a stored
\* bar and a later day asked about is passed over (daily_market.py _update_asset).
THEOREM WindowsCoverTheDays == Spec /\ []Prompt => []WindowsCover
<1>1. BaseInv /\ HeldInv /\ CoverInv => WindowsCover
  BY NothingPassedOver, WindowsUpright DEF WindowsCover
<1>. QED  BY <1>1, BaseInit, BaseNext, HeldInit, HeldNext, CoverInit, CoverNext, PTL DEF Spec
=============================================================================
