--------------------------- MODULE AIGatewayProofs ----------------------------
(***************************************************************************)
(* The gateway's chain, proved for every number of threads, requests,      *)
(* models and limits: types, single flight, no leaked claim, the request   *)
(* policy at the moment a provider is called, governance state that        *)
(* forgets nothing that still counts, audit rows and cached answers that   *)
(* are true to what the caller was told, and the refinement of             *)
(* AnswerService.                                                          *)
(*                                                                         *)
(* The inductive invariant has one part per thread (ThreadOK) and one for  *)
(* the shared state.  A step of thread t leaves every other thread's       *)
(* variables alone and never changes the request of a call, so ThreadOK of *)
(* the others is kept for free; what remains is ThreadOK(t)', the          *)
(* component the step touches, and who holds which claim.                  *)
(***************************************************************************)
EXTENDS AIGateway, AIPolicyProofs

USE PricingAssumption, GatewayAssumption

BeforeCall == {"idle", "rate", "lookup", "claim", "route", "budget", "admit", "get"}

Decided == {"budget", "admit", "get", "call"}

ThreadTypes ==
    /\ pc \in [Threads -> PCs]
    /\ job \in [Threads -> Nat]
    /\ dec \in [Threads -> Decisions]
    /\ att \in [Threads -> 0..MAX_ATTEMPTS_CEILING]
    /\ err \in [Threads -> ErrorKinds \cup {None}]

\* What a thread's position in the chain says about its own variables.
ThreadOK(t) ==
    /\ pc[t] # "idle" => job[t] \in DOMAIN calls
    /\ pc[t] = "fail" => err[t] # None
    /\ pc[t] \in BeforeCall => att[t] = 0
    /\ pc[t] = "call" => att[t] < Req(t).attempts
    /\ pc[t] \in Decided => dec[t].model # 0 /\ RouteOK(Req(t), dec[t])

RateOK == RateTypeOK /\ NoHitForgotten

LedgerOK == LedgerTypeOK /\ NoSpendForgotten

SharedOK ==
    /\ ClockTypeOK /\ RateOK /\ LedgerOK /\ CacheTypeOK
    /\ calls \in Seq(Calls)
    /\ disabled \subseteq Providers
    /\ restarts \in Nat

ClaimsOK == NoLeakedClaim /\ SingleFlight

IInv ==
    /\ ThreadTypes
    /\ SharedOK
    /\ \A t \in Threads : ThreadOK(t)
    /\ ClaimsOK

-----------------------------------------------------------------------------
(***************************************************************************)
(* Steps that keep the history of requests.                                *)
(***************************************************************************)
CallsKept ==
    /\ calls' \in Seq(Calls)
    /\ \A i \in DOMAIN calls : i \in DOMAIN calls' /\ calls'[i].req = calls[i].req

LEMMA CallTypes ==
    ASSUME calls \in Seq(Calls), NEW i \in DOMAIN calls
    PROVE  /\ i \in 1..Len(calls) /\ i \in Nat
           /\ calls[i] \in Calls
           /\ calls[i].req \in Requests
<1>1. i \in 1..Len(calls) /\ i \in Nat
  BY LenProperties
<1>2. calls[i] \in Calls
  BY <1>1, ElementOfSeq, Zenon
<1>. QED  BY <1>1, <1>2 DEF Calls

LEMMA CallsUnchanged ==
    ASSUME calls \in Seq(Calls), calls' = calls
    PROVE  CallsKept
BY Zenon DEF CallsKept

LEMMA SeqUpdated ==
    ASSUME NEW S, NEW s \in Seq(S), NEW j \in DOMAIN s, NEW e \in S
    PROVE  /\ [s EXCEPT ![j] = e] \in Seq(S)
           /\ DOMAIN [s EXCEPT ![j] = e] = DOMAIN s
           /\ \A i \in DOMAIN s : [s EXCEPT ![j] = e][i] = IF i = j THEN e ELSE s[i]
OBVIOUS

LEMMA CallUpdated ==
    ASSUME calls \in Seq(Calls), NEW j \in DOMAIN calls, NEW c \in Calls,
           c.req = calls[j].req, calls' = [calls EXCEPT ![j] = c]
    PROVE  CallsKept
<1>1. /\ [calls EXCEPT ![j] = c] \in Seq(Calls)
      /\ DOMAIN [calls EXCEPT ![j] = c] = DOMAIN calls
      /\ \A i \in DOMAIN calls : [calls EXCEPT ![j] = c][i] = IF i = j THEN c ELSE calls[i]
  BY SeqUpdated
<1>2. /\ calls' \in Seq(Calls)
      /\ DOMAIN calls' = DOMAIN calls
      /\ \A i \in DOMAIN calls : calls'[i] = IF i = j THEN c ELSE calls[i]
  BY <1>1
<1>. QED  BY <1>2, Zenon DEF CallsKept

LEMMA CallAppended ==
    ASSUME calls \in Seq(Calls), NEW c \in Calls, calls' = Append(calls, c)
    PROVE  /\ CallsKept
           /\ Len(calls) + 1 \in DOMAIN calls'
           /\ calls'[Len(calls) + 1] = c
<1>. DEFINE S == Calls
<1>. HIDE DEF S
<1>1. calls \in Seq(S) /\ c \in S
  BY DEF S
<1>2. /\ calls' \in Seq(S)
      /\ DOMAIN calls = 1..Len(calls) /\ Len(calls) \in Nat
      /\ DOMAIN calls' = 1..(Len(calls) + 1)
      /\ calls'[Len(calls) + 1] = c
      /\ \A i \in 1..Len(calls) : calls'[i] = calls[i]
  BY <1>1
<1>3. 1..Len(calls) \subseteq 1..(Len(calls) + 1) /\ Len(calls) + 1 \in 1..(Len(calls) + 1)
  BY <1>2
<1>. QED  BY <1>2, <1>3, Zenon DEF CallsKept, S

(***************************************************************************)
(* A step of thread t: nobody else's variables change.                     *)
(***************************************************************************)
OthersKept(t) ==
    \A u \in Threads \ {t} :
        /\ pc'[u] = pc[u] /\ job'[u] = job[u] /\ dec'[u] = dec[u]
        /\ att'[u] = att[u] /\ err'[u] = err[u]

LEMMA OthersOK ==
    ASSUME NEW t \in Threads, NEW u \in Threads \ {t}, ThreadOK(u), OthersKept(t), CallsKept
    PROVE  ThreadOK(u)'
<1>1. pc'[u] = pc[u] /\ job'[u] = job[u] /\ dec'[u] = dec[u] /\ att'[u] = att[u] /\ err'[u] = err[u]
  BY DEF OthersKept
<1>2. CASE pc[u] = "idle"
  BY <1>1, <1>2 DEF ThreadOK, BeforeCall, Decided
<1>3. CASE pc[u] # "idle"
  <2>1. job[u] \in DOMAIN calls
    BY <1>3 DEF ThreadOK
  <2>2. job[u] \in DOMAIN calls' /\ calls'[job[u]].req = calls[job[u]].req
    BY <2>1 DEF CallsKept
  <2>. QED  BY <1>1, <2>2 DEF ThreadOK, Req, RouteOK
<1>. QED  BY <1>2, <1>3

(***************************************************************************)
(* Claims are kept by a step that neither takes nor gives back a claim.    *)
(***************************************************************************)
LEMMA ClaimsKept ==
    ASSUME ThreadTypes, \A u \in Threads : ThreadOK(u), ClaimsOK, CallsKept,
           NEW t \in Threads, OthersKept(t), inFlight' = inFlight,
           pc[t] \in Holding <=> pc'[t] \in Holding,
           pc[t] \in Holding => job'[t] = job[t]
    PROVE  ClaimsOK'
<1>1. \A u \in Threads : pc[u] \in Holding <=> pc'[u] \in Holding
  BY DEF OthersKept
<1>2. ASSUME NEW u \in Threads, pc[u] \in Holding
      PROVE  Fp(u)' = Fp(u)
  <2>1. job'[u] = job[u]
    BY <1>2 DEF OthersKept
  <2>2. job[u] \in DOMAIN calls
    BY <1>2 DEF ThreadOK, Holding
  <2>3. calls'[job[u]].req = calls[job[u]].req
    BY <2>2 DEF CallsKept
  <2>. QED  BY <2>1, <2>3 DEF Fp, Req
<1>3. SingleFlight'
  BY <1>1, <1>2 DEF ClaimsOK, SingleFlight
<1>4. NoLeakedClaim'
  BY <1>1, <1>2 DEF ClaimsOK, NoLeakedClaim
<1>. QED  BY <1>3, <1>4 DEF ClaimsOK
(***************************************************************************)
(* What a step of thread t has to show.                                    *)
(***************************************************************************)
LEMMA Assemble ==
    ASSUME IInv, NEW t \in Threads, Touch(t), Frame, OthersKept(t), CallsKept,
           ThreadTypes', ThreadOK(t)', RateOK', LedgerOK', CacheTypeOK', ClaimsOK'
    PROVE  IInv'
<1>1. ClockTypeOK'
  BY TouchClock DEF IInv, SharedOK
<1>2. SharedOK'
  BY <1>1 DEF IInv, SharedOK, Frame, CallsKept
<1>3. \A u \in Threads : ThreadOK(u)'
  <2>1. ASSUME NEW u \in Threads \ {t}  PROVE ThreadOK(u)'
    BY OthersOK DEF IInv
  <2>. QED  BY <2>1
<1>. QED  BY <1>2, <1>3 DEF IInv

LEMMA RateSame ==
    ASSUME IInv, NEW t \in Threads, Touch(t), UNCHANGED rateVars
    PROVE  RateOK'
BY DEF IInv, SharedOK, RateOK, RateTypeOK, NoHitForgotten, rateVars, Touch

LEMMA LedgerSame ==
    ASSUME IInv, NEW t \in Threads, Touch(t), UNCHANGED ledgerVars
    PROVE  LedgerOK'
BY DEF IInv, SharedOK, LedgerOK, LedgerTypeOK, NoSpendForgotten, ledgerVars, Touch, Duration

LEMMA CacheSame ==
    ASSUME IInv, UNCHANGED cacheVars
    PROVE  CacheTypeOK' /\ inFlight' = inFlight
BY DEF IInv, SharedOK, CacheTypeOK, cacheVars

LEMMA AtTimes ==
    ASSUME IInv, NEW t \in Threads, NEW at \in Stamps(t), Touch(t)
    PROVE  now \in 0..MaxTime /\ at \in 0..MaxTime /\ at <= now /\ UNCHANGED now
BY StampTimes, TouchClock DEF IInv, SharedOK, ClockTypeOK

LEMMA LedgerChecked ==
    ASSUME IInv, NEW t \in Threads, NEW at \in Stamps(t), Touch(t), NEW cost,
           LedgerCheck(cost, at)
    PROVE  LedgerOK'
BY AtTimes, LedgerCheckKeeps DEF IInv, SharedOK, LedgerOK

LEMMA ReqFacts ==
    ASSUME IInv, NEW t \in Threads, pc[t] # "idle"
    PROVE  /\ job[t] \in DOMAIN calls /\ job[t] \in Nat
           /\ calls[job[t]] \in Calls
           /\ Req(t) \in Requests /\ RequestOK(Req(t))
           /\ RateKey(t) \in RateKeys
           /\ Fp(t) \in Fingerprints
<1>1. job[t] \in DOMAIN calls /\ calls \in Seq(Calls)
  BY DEF IInv, ThreadOK, SharedOK
<1>2. calls[job[t]] \in Calls /\ job[t] \in Nat /\ Req(t) \in Requests
  BY <1>1, CallTypes DEF Req
<1>. QED  BY <1>1, <1>2, RequestsAssumption DEF RateKey, Fp

(***************************************************************************)
(* Updates of a call's answer, rows and outcome keep its type and request. *)
(***************************************************************************)
LEMMA AnswerUpdate ==
    ASSUME NEW c \in Calls, NEW a \in Answers
    PROVE  [c EXCEPT !.answer = a] \in Calls /\ [c EXCEPT !.answer = a].req = c.req
BY DEF Calls

LEMMA RowsUpdate ==
    ASSUME NEW c \in Calls, NEW rows \in Seq(Rows)
    PROVE  [c EXCEPT !.rows = rows] \in Calls /\ [c EXCEPT !.rows = rows].req = c.req
BY DEF Calls

LEMMA OutcomeUpdate ==
    ASSUME NEW c \in Calls, NEW cost \in Costs, NEW d \in Decisions
    PROVE  /\ [c EXCEPT !.cost = cost, !.route = d] \in Calls
           /\ [c EXCEPT !.cost = cost, !.route = d].req = c.req
BY DEF Calls

LEMMA RecordedType ==
    ASSUME NEW t \in Threads, calls[job[t]] \in Calls,
           NEW kind \in ErrorKinds \cup {"success"}, NEW cost \in Costs,
           NEW rows \in Recorded(t, kind, cost)
    PROVE  rows \in Seq(Rows)
<1>. DEFINE S == Rows
            row(b) == [kind |-> kind, cost |-> cost, stored |-> b]
            old == calls[job[t]].rows
<1>1. old \in Seq(S) /\ \A b \in BOOLEAN : row(b) \in S
  BY DEF Rows, Calls
<1>2. \E b \in BOOLEAN : rows = Append(old, row(b))
  BY DEF Recorded
<1>. HIDE DEF S, row, old
<1>3. rows \in Seq(S)
  BY <1>1, <1>2
<1>. QED  BY <1>3 DEF S

-----------------------------------------------------------------------------
(***************************************************************************)
(* One lemma per action.                                                   *)
(***************************************************************************)
LEMMA CheckRateStep ==
    ASSUME IInv, NEW t \in Threads, CheckRate(t)
    PROVE  IInv'
<1>0. pc[t] = "rate" /\ Touch(t) /\ Frame /\ UNCHANGED <<ledgerVars, cacheVars, job, dec, att, calls>>
  BY DEF CheckRate
<1>1. PICK at \in Stamps(t) :
        /\ RateCheck(RateKey(t), at)
        /\ IF WithinLimits(RateKey(t), at)
             THEN Goto(t, "lookup") /\ UNCHANGED err
             ELSE Raise(t, "rate_limit_exceeded", "fail")
  BY DEF CheckRate
<1>2. RateOK'
  BY <1>0, <1>1, AtTimes, ReqFacts, RateCheckKeeps DEF IInv, SharedOK, RateOK
<1>3. LedgerOK' /\ CacheTypeOK' /\ inFlight' = inFlight /\ CallsKept
  BY <1>0, LedgerSame, CacheSame, CallsUnchanged DEF IInv, SharedOK
<1>4. /\ ThreadTypes' /\ OthersKept(t)
      /\ \/ pc'[t] = "lookup" /\ err'[t] = err[t]
         \/ pc'[t] = "fail" /\ err'[t] = "rate_limit_exceeded"
  BY <1>0, <1>1 DEF IInv, ThreadTypes, OthersKept, Goto, Raise, PCs, ErrorKinds
<1>5. ThreadOK(t)'
  BY <1>0, <1>4 DEF IInv, ThreadOK, BeforeCall, Decided, None
<1>6. ClaimsOK'
  BY <1>0, <1>3, <1>4, ClaimsKept DEF IInv, Holding
<1>. QED  BY <1>0, <1>2, <1>3, <1>4, <1>5, <1>6, Assemble

LEMMA SubmitStep ==
    ASSUME IInv, NEW t \in Threads, NEW r \in Requests, Submit(t, r)
    PROVE  IInv'
<1>. DEFINE c == [req |-> r, created |-> now, rows |-> <<>>,
                  answer |-> NoAnswer, cost |-> Unknown, route |-> NoRoute]
<1>0. /\ pc[t] = "idle" /\ calls' = Append(calls, c)
      /\ job' = [job EXCEPT ![t] = Len(calls) + 1]
      /\ IF AiEnabled THEN Goto(t, "rate") /\ UNCHANGED err
                      ELSE Raise(t, "provider_unavailable", "fail")
      /\ Touch(t) /\ Frame /\ UNCHANGED <<rateVars, ledgerVars, cacheVars, dec, att>>
  BY DEF Submit
<1>1. c \in Calls /\ c.req = r
  <2>1. NoRoute \in Decisions
    BY ModelListAssumption DEF NoRoute, Decisions
  <2>2. Unknown \in Costs
    BY DEF Unknown, Costs
  <2>3. NoAnswer \in Answers
    BY DEF NoAnswer, Answers
  <2>4. now \in 0..MaxTime /\ <<>> \in Seq(Rows)
    BY DEF IInv, SharedOK, ClockTypeOK
  <2>. QED  BY <2>1, <2>2, <2>3, <2>4 DEF Calls
<1>. HIDE DEF c
<1>2. CallsKept /\ Len(calls) + 1 \in DOMAIN calls' /\ Len(calls) \in Nat
  BY <1>0, <1>1, CallAppended, LenProperties DEF IInv, SharedOK
<1>3. RateOK' /\ LedgerOK' /\ CacheTypeOK' /\ inFlight' = inFlight
  BY <1>0, RateSame, LedgerSame, CacheSame
<1>. DEFINE n == Len(calls) + 1
<1>a. n \in Nat /\ job' = [job EXCEPT ![t] = n]
  BY <1>0, <1>2
<1>. HIDE DEF n
<1>4. /\ ThreadTypes' /\ OthersKept(t)
      /\ job'[t] = n
      /\ \/ pc'[t] = "rate" /\ err'[t] = err[t]
         \/ pc'[t] = "fail" /\ err'[t] = "provider_unavailable"
  <2>1. ThreadTypes
    BY DEF IInv
  <2>2. /\ job'[t] = n
        /\ \/ pc'[t] = "rate" /\ err'[t] = err[t]
           \/ pc'[t] = "fail" /\ err'[t] = "provider_unavailable"
    BY <1>0, <1>a, <2>1 DEF ThreadTypes, Goto, Raise
  <2>3. OthersKept(t)
    BY <1>0, <1>a, <2>1 DEF ThreadTypes, OthersKept, Goto, Raise
  <2>4. ThreadTypes'
    BY <1>0, <1>a, <2>1 DEF ThreadTypes, Goto, Raise, PCs, ErrorKinds
  <2>. QED  BY <2>2, <2>3, <2>4
<1>5. ThreadOK(t)'
  BY <1>0, <1>2, <1>4 DEF n, IInv, ThreadOK, BeforeCall, Decided, None
<1>6. ClaimsOK'
  BY <1>0, <1>2, <1>3, <1>4, ClaimsKept DEF IInv, Holding
<1>. QED  BY <1>0, <1>2, <1>3, <1>4, <1>5, <1>6, Assemble

LEMMA ReturnFacts ==
    ASSUME IInv, NEW t \in Threads, Return(t)
    PROVE  /\ ThreadTypes' /\ OthersKept(t) /\ pc'[t] = "idle"
           /\ ThreadOK(t)'
<1>1. NoRoute \in Decisions
  BY ModelListAssumption DEF NoRoute, Decisions
<1>2. ThreadTypes' /\ OthersKept(t) /\ pc'[t] = "idle" /\ att'[t] = 0
  BY <1>1 DEF Return, IInv, ThreadTypes, OthersKept, PCs, MAX_ATTEMPTS_CEILING
<1>3. ThreadOK(t)'
  BY <1>2 DEF ThreadOK, BeforeCall, Decided
<1>. QED  BY <1>2, <1>3

LEMMA CacheGetTypes ==
    ASSUME CacheTypeOK, NEW f \in Fingerprints, NEW at, CacheGet(f, at)
    PROVE  CacheTypeOK' /\ inFlight' = inFlight
<1>1. NoEntry \in [by : Nat, expires : Nat]
  BY DEF NoEntry
<1>. QED  BY <1>1 DEF CacheGet, CacheTypeOK

LEMMA LookupStep ==
    ASSUME IInv, NEW t \in Threads, Lookup(t)
    PROVE  IInv'
<1>0. pc[t] = "lookup" /\ Touch(t) /\ Frame /\ UNCHANGED <<rateVars, ledgerVars>>
  BY DEF Lookup
<1>. DEFINE a == [kind |-> "cached", by |-> entries[Fp(t)].by, expires |-> entries[Fp(t)].expires]
<1>1. PICK at \in Stamps(t) :
        /\ CacheGet(Fp(t), at)
        /\ IF Hit(Fp(t), at)
             THEN calls' = [calls EXCEPT ![job[t]].answer = a] /\ Return(t)
             ELSE Goto(t, "claim") /\ UNCHANGED <<job, dec, att, err, calls>>
  BY DEF Lookup
<1>2. /\ job[t] \in DOMAIN calls /\ calls[job[t]] \in Calls /\ Fp(t) \in Fingerprints
  BY <1>0, ReqFacts
<1>3. RateOK' /\ LedgerOK'
  BY <1>0, RateSame, LedgerSame
<1>4. CacheTypeOK' /\ inFlight' = inFlight
  BY <1>1, <1>2, CacheGetTypes DEF IInv, SharedOK
<1>5. a \in Answers
  <2>1. entries[Fp(t)] \in [by : Nat, expires : Nat]
    BY <1>2 DEF IInv, SharedOK, CacheTypeOK
  <2>. QED  BY <2>1 DEF Answers
<1>. HIDE DEF a
<1>6. CASE Hit(Fp(t), at)
  <2>1. calls' = [calls EXCEPT ![job[t]] = [calls[job[t]] EXCEPT !.answer = a]] /\ Return(t)
    BY <1>1, <1>6
  <2>2. CallsKept
    BY <1>2, <1>5, <2>1, AnswerUpdate, CallUpdated DEF IInv, SharedOK
  <2>3. ThreadTypes' /\ OthersKept(t) /\ pc'[t] = "idle" /\ ThreadOK(t)'
    BY <2>1, ReturnFacts
  <2>4. ClaimsOK'
    BY <1>0, <1>4, <2>2, <2>3, ClaimsKept DEF IInv, Holding
  <2>. QED  BY <1>0, <1>3, <1>4, <2>2, <2>3, <2>4, Assemble
<1>7. CASE ~Hit(Fp(t), at)
  <2>1. Goto(t, "claim") /\ UNCHANGED <<job, dec, att, err, calls>>
    BY <1>1, <1>7
  <2>2. CallsKept
    BY <2>1, CallsUnchanged DEF IInv, SharedOK
  <2>3. ThreadTypes' /\ OthersKept(t) /\ pc'[t] = "claim"
    BY <2>1 DEF IInv, ThreadTypes, OthersKept, Goto, PCs
  <2>4. ThreadOK(t)'
    BY <1>0, <2>1, <2>3 DEF IInv, ThreadOK, BeforeCall, Decided
  <2>5. ClaimsOK'
    BY <1>0, <1>4, <2>2, <2>3, ClaimsKept DEF IInv, Holding
  <2>. QED  BY <1>0, <1>3, <1>4, <2>2, <2>3, <2>4, <2>5, Assemble
<1>. QED  BY <1>6, <1>7

LEMMA ClaimStep ==
    ASSUME IInv, NEW t \in Threads, Claim(t)
    PROVE  IInv'
<1>0. /\ pc[t] = "claim" /\ Touch(t) /\ Frame
      /\ UNCHANGED <<rateVars, ledgerVars, job, dec, att, calls>>
  BY DEF Claim
<1>1. Fp(t) \in Fingerprints /\ job[t] \in DOMAIN calls
  BY <1>0, ReqFacts
<1>2. RateOK' /\ LedgerOK' /\ CallsKept
  BY <1>0, RateSame, LedgerSame, CallsUnchanged DEF IInv, SharedOK
<1>3. CASE CacheBegin(Fp(t)) /\ Goto(t, "route") /\ UNCHANGED err
  <2>1. /\ Fp(t) \notin inFlight /\ inFlight' = inFlight \cup {Fp(t)} /\ entries' = entries
        /\ pc' = [pc EXCEPT ![t] = "route"] /\ UNCHANGED err
    BY <1>3 DEF CacheBegin, Goto
  <2>2. CacheTypeOK'
    BY <1>1, <2>1 DEF IInv, SharedOK, CacheTypeOK
  <2>3. ThreadTypes' /\ OthersKept(t) /\ pc'[t] = "route"
    BY <1>0, <2>1 DEF IInv, ThreadTypes, OthersKept, PCs, Holding
  <2>4. ThreadOK(t)'
    BY <1>0, <1>1, <2>3 DEF IInv, ThreadOK, BeforeCall, Decided
  <2>5. /\ \A u \in Threads : Fp(u)' = Fp(u)
        /\ \A u \in Threads : pc'[u] \in Holding <=> pc[u] \in Holding \/ u = t
    BY <1>0, <2>3 DEF Fp, Req, OthersKept, Holding
  <2>6. NoLeakedClaim'
    BY <2>1, <2>5 DEF IInv, ClaimsOK, NoLeakedClaim
  <2>7. SingleFlight'
    BY <2>1, <2>5 DEF IInv, ClaimsOK, NoLeakedClaim, SingleFlight
  <2>. QED  BY <1>0, <1>2, <2>2, <2>3, <2>4, <2>6, <2>7, Assemble DEF ClaimsOK
<1>4. CASE /\ Fp(t) \in inFlight
           /\ Raise(t, "provider_unavailable", "fail")
           /\ UNCHANGED cacheVars
  <2>1. CacheTypeOK' /\ inFlight' = inFlight
    BY <1>4, CacheSame
  <2>2. ThreadTypes' /\ OthersKept(t) /\ pc'[t] = "fail" /\ err'[t] = "provider_unavailable"
    BY <1>0, <1>4 DEF IInv, ThreadTypes, OthersKept, Raise, Goto, PCs, ErrorKinds
  <2>3. ThreadOK(t)'
    BY <1>0, <1>1, <2>2 DEF ThreadOK, BeforeCall, Decided, None
  <2>4. ClaimsOK'
    BY <1>0, <1>2, <2>1, <2>2, ClaimsKept DEF IInv, Holding
  <2>. QED  BY <1>0, <1>2, <2>1, <2>2, <2>3, <2>4, Assemble
<1>. QED  BY <1>3, <1>4 DEF Claim

(***************************************************************************)
(* What a thread that holds its claim, and goes on holding it for the same *)
(* request, still has to show.                                             *)
(***************************************************************************)
LEMMA HeldStep ==
    ASSUME IInv, NEW t \in Threads, pc[t] \in Holding, pc'[t] \in Holding,
           Touch(t), Frame, job' = job, inFlight' = inFlight, CallsKept, OthersKept(t),
           RateOK', LedgerOK', CacheTypeOK', ThreadTypes',
           pc'[t] \in BeforeCall => att'[t] = 0,
           pc'[t] = "call" => att'[t] < Req(t).attempts,
           pc'[t] \in Decided => dec'[t].model # 0 /\ RouteOK(Req(t), dec'[t])
    PROVE  IInv'
<1>1. job[t] \in DOMAIN calls
  BY ReqFacts DEF Holding
<1>2. job[t] \in DOMAIN calls' /\ Req(t)' = Req(t)
  BY <1>1 DEF CallsKept, Req
<1>3. ThreadOK(t)'
  BY <1>2 DEF ThreadOK, RouteOK, Holding
<1>4. ClaimsOK'
  BY ClaimsKept DEF IInv
<1>. QED  BY <1>3, <1>4, Assemble

LEMMA RouteRequestStep ==
    ASSUME IInv, NEW t \in Threads, RouteRequest(t)
    PROVE  IInv'
<1>0. /\ pc[t] = "route" /\ Touch(t) /\ Frame
      /\ UNCHANGED <<rateVars, cacheVars, job, att, calls>>
  BY DEF RouteRequest
<1>1. PICK at \in Stamps(t) :
         LET d == Route(Req(t), Degraded(at), disabled)
         IN  /\ LedgerCheck(Unknown, at)
             /\ IF d.model = 0
                 THEN Raise(t, "no_route", "release") /\ UNCHANGED dec
                 ELSE /\ dec' = [dec EXCEPT ![t] = d]
                      /\ IF /\ ~AllowUnpriced
                            /\ ~Project(ModelList[d.model].name, Req(t).size, Req(t).maxOut).known
                         THEN Raise(t, "budget_exceeded", "release")
                         ELSE Goto(t, "budget") /\ UNCHANGED err
  BY DEF RouteRequest
<1>. DEFINE d == Route(Req(t), Degraded(at), disabled)
<1>2. RouteOK(Req(t), d) /\ d \in Decisions
  <2>1. RequestOK(Req(t)) /\ Degraded(at) \in BOOLEAN
    BY <1>0, ReqFacts DEF Degraded
  <2>. QED  BY <2>1, RouteFacts
<1>3. LedgerOK'
  BY <1>0, <1>1, LedgerChecked
<1>4. /\ \/ d.model = 0 /\ Raise(t, "no_route", "release") /\ UNCHANGED dec
         \/ /\ d.model # 0 /\ dec' = [dec EXCEPT ![t] = d]
            /\ \/ Raise(t, "budget_exceeded", "release")
               \/ Goto(t, "budget") /\ UNCHANGED err
  BY <1>1
<1>. HIDE DEF d
<1>5. /\ ThreadTypes' /\ OthersKept(t)
      /\ \/ pc'[t] = "release"
         \/ pc'[t] = "budget" /\ d.model # 0 /\ dec'[t] = d
  BY <1>0, <1>2, <1>4 DEF IInv, ThreadTypes, OthersKept, Raise, Goto, PCs, ErrorKinds, Holding
<1>6. RateOK' /\ CacheTypeOK' /\ inFlight' = inFlight /\ CallsKept
  BY <1>0, RateSame, CacheSame, CallsUnchanged DEF IInv, SharedOK
<1>7. att'[t] = 0
  BY <1>0 DEF IInv, ThreadOK, BeforeCall
<1>. QED  BY <1>0, <1>2, <1>3, <1>5, <1>6, <1>7, HeldStep DEF Holding, BeforeCall, Decided

LEMMA CheckBudgetStep ==
    ASSUME IInv, NEW t \in Threads, CheckBudget(t)
    PROVE  IInv'
<1>0. /\ pc[t] = "budget" /\ Touch(t) /\ Frame
      /\ UNCHANGED <<rateVars, cacheVars, job, dec, att>>
  BY DEF CheckBudget
<1>1. PICK at \in Stamps(t) :
         /\ LedgerCheck(Projected(t), at)
         /\ IF BudgetState(Projected(t), at) = "exceeded"
              THEN /\ \E rows \in Recorded(t, "budget_exceeded", Unknown) :
                         calls' = [calls EXCEPT ![job[t]].rows = rows]
                   /\ Raise(t, "budget_exceeded", "release")
              ELSE Goto(t, "admit") /\ UNCHANGED <<err, calls>>
  BY DEF CheckBudget
<1>2. LedgerOK'
  BY <1>0, <1>1, LedgerChecked
<1>3. job[t] \in DOMAIN calls /\ calls[job[t]] \in Calls /\ calls \in Seq(Calls)
  BY <1>0, ReqFacts DEF IInv, SharedOK
<1>4. CallsKept
  <2>1. CASE calls' = calls
    BY <1>3, <2>1, CallsUnchanged
  <2>2. ASSUME NEW rows \in Recorded(t, "budget_exceeded", Unknown),
               calls' = [calls EXCEPT ![job[t]].rows = rows]
        PROVE  CallsKept
    <3>1. Unknown \in Costs
      BY DEF Unknown, Costs
    <3>2. rows \in Seq(Rows)
      BY <1>3, <3>1, RecordedType DEF ErrorKinds
    <3>3. calls' = [calls EXCEPT ![job[t]] = [calls[job[t]] EXCEPT !.rows = rows]]
      BY <2>2
    <3>. QED  BY <1>3, <3>2, <3>3, RowsUpdate, CallUpdated
  <2>. QED  BY <1>1, <2>1, <2>2
<1>5. /\ ThreadTypes' /\ OthersKept(t)
      /\ pc'[t] \in {"release", "admit"}
  BY <1>0, <1>1 DEF IInv, ThreadTypes, OthersKept, Raise, Goto, PCs, ErrorKinds, Holding
<1>6. RateOK' /\ CacheTypeOK' /\ inFlight' = inFlight
  BY <1>0, RateSame, CacheSame
<1>7. att'[t] = 0 /\ dec'[t].model # 0 /\ RouteOK(Req(t), dec'[t])
  BY <1>0 DEF IInv, ThreadOK, BeforeCall, Decided
<1>. QED  BY <1>0, <1>2, <1>4, <1>5, <1>6, <1>7, HeldStep DEF Holding, BeforeCall, Decided

LEMMA AdmitStep ==
    ASSUME IInv, NEW t \in Threads, Admit(t)
    PROVE  IInv'
<1>0. /\ pc[t] = "admit" /\ Touch(t) /\ Frame /\ Goto(t, "get")
      /\ UNCHANGED <<ledgerVars, cacheVars, job, dec, att, err, calls>>
  BY DEF Admit
<1>1. PICK at \in Stamps(t) : RateRecord(RateKey(t), at)
  BY DEF Admit
<1>2. RateOK'
  BY <1>0, <1>1, AtTimes, ReqFacts, RateRecordKeeps DEF IInv, SharedOK, RateOK
<1>3. LedgerOK' /\ CacheTypeOK' /\ inFlight' = inFlight /\ CallsKept
  BY <1>0, LedgerSame, CacheSame, CallsUnchanged DEF IInv, SharedOK
<1>4. ThreadTypes' /\ OthersKept(t) /\ pc'[t] = "get"
  BY <1>0 DEF IInv, ThreadTypes, OthersKept, Goto, PCs, Holding
<1>5. att'[t] = 0 /\ dec'[t].model # 0 /\ RouteOK(Req(t), dec'[t])
  BY <1>0 DEF IInv, ThreadOK, BeforeCall, Decided
<1>. QED  BY <1>0, <1>2, <1>3, <1>4, <1>5, HeldStep DEF Holding, BeforeCall, Decided

LEMMA GetProviderStep ==
    ASSUME IInv, NEW t \in Threads, GetProvider(t)
    PROVE  IInv'
<1>0. /\ pc[t] = "get" /\ Touch(t) /\ Frame
      /\ \/ Raise(t, "no_route", "release")
         \/ Goto(t, "call") /\ UNCHANGED err
      /\ UNCHANGED <<rateVars, ledgerVars, cacheVars, job, dec, att, calls>>
  BY DEF GetProvider
<1>1. RateOK' /\ LedgerOK' /\ CacheTypeOK' /\ inFlight' = inFlight /\ CallsKept
  BY <1>0, RateSame, LedgerSame, CacheSame, CallsUnchanged DEF IInv, SharedOK
<1>2. ThreadTypes' /\ OthersKept(t) /\ pc'[t] \in {"release", "call"}
  BY <1>0 DEF IInv, ThreadTypes, OthersKept, Raise, Goto, PCs, ErrorKinds, Holding
<1>3. att'[t] = 0 /\ dec'[t].model # 0 /\ RouteOK(Req(t), dec'[t])
  BY <1>0 DEF IInv, ThreadOK, BeforeCall, Decided
<1>4. 0 < Req(t).attempts
  BY <1>0, ReqFacts DEF RequestOK, MAX_ATTEMPTS_CEILING
<1>. QED  BY <1>0, <1>1, <1>2, <1>3, <1>4, HeldStep DEF Holding, BeforeCall, Decided

(***************************************************************************)
(* Pricing: an estimate is a cost, whatever usage the provider reports.    *)
(***************************************************************************)
LEMMA EstimateType ==
    ASSUME NEW model, NEW usage \in Usage
    PROVE  Estimate(model, usage) \in Costs
<1>1. Unknown \in Costs
  BY DEF Unknown, Costs
<1>2. ASSUME model \in DOMAIN Pricing,
             Missing \notin {usage.input, usage.output},
             ~(Reported(usage.cacheRead) /\ Pricing[model].cacheRead = Missing),
             ~(Reported(usage.cacheWrite) /\ Pricing[model].cacheWrite = Missing)
      PROVE  Estimate(model, usage) \in Costs
  <2>. DEFINE p == Pricing[model]
              read == IF Reported(usage.cacheRead) THEN usage.cacheRead * p.cacheRead ELSE 0
              write == IF Reported(usage.cacheWrite) THEN usage.cacheWrite * p.cacheWrite ELSE 0
  <2>1. /\ p \in Rates
        /\ p.input \in Nat /\ p.output \in Nat
        /\ p.cacheRead \in Nat \cup {Missing} /\ p.cacheWrite \in Nat \cup {Missing}
        /\ usage.input \in Nat /\ usage.output \in Nat
        /\ usage.cacheRead \in Nat \cup {Missing} /\ usage.cacheWrite \in Nat \cup {Missing}
    BY <1>2 DEF Rates, Usage
  <2>2. Estimate(model, usage) = Known(usage.input * p.input + usage.output * p.output + read + write)
    BY <1>2 DEF Estimate
  <2>3. read \in Nat
    BY <1>2, <2>1 DEF Reported
  <2>4. write \in Nat
    BY <1>2, <2>1 DEF Reported
  <2>5. usage.input * p.input \in Nat /\ usage.output * p.output \in Nat
    BY <2>1
  <2>. DEFINE total == usage.input * p.input + usage.output * p.output + read + write
  <2>6. total \in Nat
    <3>. HIDE DEF read, write, p
    <3>. QED  BY <2>3, <2>4, <2>5
  <2>. HIDE DEF total
  <2>7. Known(total) \in Costs
    BY <2>6 DEF Known, Costs
  <2>. QED  BY <2>2, <2>7 DEF total
<1>. QED  BY <1>1, <1>2 DEF Estimate

LEMMA CallSucceedsStep ==
    ASSUME IInv, NEW t \in Threads, NEW usage \in Usages, CallSucceeds(t, usage)
    PROVE  IInv'
<1>. DEFINE cost == Estimate(ModelOf(t).name, usage)
<1>0. /\ pc[t] = "call" /\ Touch(t) /\ Frame /\ Goto(t, "account")
      /\ att' = [att EXCEPT ![t] = att[t] + 1]
      /\ calls' = [calls EXCEPT ![job[t]] = [calls[job[t]] EXCEPT !.cost = cost, !.route = dec[t]]]
      /\ UNCHANGED <<rateVars, ledgerVars, cacheVars, job, dec, err>>
  BY DEF CallSucceeds, Attempt
<1>1. cost \in Costs
  BY EstimateType
<1>. HIDE DEF cost
<1>2. /\ job[t] \in DOMAIN calls /\ calls[job[t]] \in Calls
      /\ att[t] \in 0..2 /\ dec[t] \in Decisions
  <2>1. job[t] \in DOMAIN calls /\ calls[job[t]] \in Calls /\ RequestOK(Req(t))
    BY <1>0, ReqFacts
  <2>2. att[t] \in 0..MAX_ATTEMPTS_CEILING /\ dec[t] \in Decisions /\ att[t] < Req(t).attempts
    BY <1>0 DEF IInv, ThreadOK, ThreadTypes
  <2>3. att[t] \in 0..2
    <3>1. Req(t).attempts \in 1..3 /\ att[t] \in 0..3 /\ att[t] < Req(t).attempts
      BY <2>1, <2>2 DEF RequestOK, MAX_ATTEMPTS_CEILING
    <3>. QED  BY <3>1
  <2>. QED  BY <2>1, <2>2, <2>3
<1>3. CallsKept
  <2>. DEFINE old == calls[job[t]]  new == [old EXCEPT !.cost = cost, !.route = dec[t]]
  <2>1. new \in Calls /\ new.req = old.req
    BY <1>1, <1>2, OutcomeUpdate
  <2>2. calls' = [calls EXCEPT ![job[t]] = new] /\ calls \in Seq(Calls)
    BY <1>0 DEF IInv, SharedOK
  <2>. HIDE DEF new
  <2>. QED  BY <1>2, <2>1, <2>2, CallUpdated
<1>4. RateOK' /\ LedgerOK' /\ CacheTypeOK' /\ inFlight' = inFlight
  BY <1>0, RateSame, LedgerSame, CacheSame
<1>5. ThreadTypes' /\ OthersKept(t) /\ pc'[t] = "account"
  BY <1>0, <1>2 DEF IInv, ThreadTypes, OthersKept, Goto, PCs, Holding, MAX_ATTEMPTS_CEILING
<1>. QED  BY <1>0, <1>3, <1>4, <1>5, HeldStep DEF Holding, BeforeCall, Decided

(***************************************************************************)
(* Both ways a provider attempt can fail.                                  *)
(***************************************************************************)
LEMMA AttemptFailedStep ==
    ASSUME IInv, NEW t \in Threads, NEW kind \in ErrorKinds,
           CallFails(t, kind) \/ CallRefused(t, kind)
    PROVE  IInv'
<1>0. /\ pc[t] = "call" /\ Touch(t) /\ Frame
      /\ att' = [att EXCEPT ![t] = att[t] + 1]
      /\ \/ att[t] + 1 < Req(t).attempts /\ UNCHANGED <<pc, err>>
         \/ Raise(t, kind, "release")
      /\ UNCHANGED <<rateVars, ledgerVars, cacheVars, job, dec, calls>>
  BY DEF CallFails, CallRefused, Attempt
<1>2. /\ att[t] \in 0..2
      /\ dec[t].model # 0 /\ RouteOK(Req(t), dec[t])
  BY <1>0, ReqFacts DEF IInv, ThreadOK, ThreadTypes, RequestOK, MAX_ATTEMPTS_CEILING, Decided
<1>3. RateOK' /\ LedgerOK' /\ CacheTypeOK' /\ inFlight' = inFlight /\ CallsKept
  BY <1>0, RateSame, LedgerSame, CacheSame, CallsUnchanged DEF IInv, SharedOK
<1>4. /\ ThreadTypes' /\ OthersKept(t)
      /\ att'[t] = att[t] + 1
      /\ \/ pc'[t] = "call" /\ att[t] + 1 < Req(t).attempts
         \/ pc'[t] = "release"
  BY <1>0, <1>2 DEF IInv, ThreadTypes, OthersKept, Raise, Goto, PCs, Holding, MAX_ATTEMPTS_CEILING
<1>. QED  BY <1>0, <1>2, <1>3, <1>4, HeldStep DEF Holding, BeforeCall, Decided

LEMMA AccountStep ==
    ASSUME IInv, NEW t \in Threads, Account(t)
    PROVE  IInv'
<1>0. /\ pc[t] = "account" /\ Touch(t) /\ Frame /\ Goto(t, "store")
      /\ UNCHANGED <<rateVars, cacheVars, job, dec, att, err, calls>>
  BY DEF Account
<1>1. PICK at \in Stamps(t) : LedgerRecord(calls[job[t]].cost, at)
  BY DEF Account
<1>2. calls[job[t]].cost.amount \in Nat
  BY <1>0, ReqFacts DEF Calls, Costs
<1>3. LedgerOK'
  BY <1>0, <1>1, <1>2, AtTimes, LedgerRecordKeeps DEF IInv, SharedOK, LedgerOK
<1>4. RateOK' /\ CacheTypeOK' /\ inFlight' = inFlight /\ CallsKept
  BY <1>0, RateSame, CacheSame, CallsUnchanged DEF IInv, SharedOK
<1>5. ThreadTypes' /\ OthersKept(t) /\ pc'[t] = "store"
  BY <1>0 DEF IInv, ThreadTypes, OthersKept, Goto, PCs, Holding
<1>. QED  BY <1>0, <1>3, <1>4, <1>5, HeldStep DEF Holding, BeforeCall, Decided

LEMMA StoreStep ==
    ASSUME IInv, NEW t \in Threads, Store(t)
    PROVE  IInv'
<1>0. /\ pc[t] = "store" /\ Touch(t) /\ Frame /\ Goto(t, "audit")
      /\ UNCHANGED <<rateVars, ledgerVars, job, dec, att, err, calls>>
  BY DEF Store
<1>1. PICK at \in Stamps(t) : CachePut(Fp(t), job[t], Ttl[Req(t).task], at)
  BY DEF Store
<1>2. /\ Fp(t) \in Fingerprints /\ job[t] \in Nat
      /\ Ttl[Req(t).task] \in Nat /\ at \in 0..MaxTime
  BY <1>0, ReqFacts, AtTimes DEF RequestOK
<1>3. CacheTypeOK' /\ inFlight' = inFlight
  <2>. DEFINE e == [by |-> job[t], expires |-> at + Ttl[Req(t).task]]
  <2>1. e \in [by : Nat, expires : Nat]
    BY <1>2
  <2>2. entries' \in {entries, [entries EXCEPT ![Fp(t)] = e]} /\ inFlight' = inFlight
    BY <1>1 DEF CachePut
  <2>. HIDE DEF e
  <2>. QED  BY <1>2, <2>1, <2>2 DEF IInv, SharedOK, CacheTypeOK
<1>4. RateOK' /\ LedgerOK' /\ CallsKept
  BY <1>0, RateSame, LedgerSame, CallsUnchanged DEF IInv, SharedOK
<1>5. ThreadTypes' /\ OthersKept(t) /\ pc'[t] = "audit"
  BY <1>0 DEF IInv, ThreadTypes, OthersKept, Goto, PCs, Holding
<1>. QED  BY <1>0, <1>3, <1>4, <1>5, HeldStep DEF Holding, BeforeCall, Decided

LEMMA AuditStep ==
    ASSUME IInv, NEW t \in Threads, Audit(t)
    PROVE  IInv'
<1>0. /\ pc[t] = "audit" /\ Touch(t) /\ Frame /\ Goto(t, "release")
      /\ UNCHANGED <<rateVars, ledgerVars, cacheVars, job, dec, att, err>>
  BY DEF Audit
<1>1. PICK rows \in Recorded(t, "success", calls[job[t]].cost) :
         calls' = [calls EXCEPT ![job[t]] = [calls[job[t]] EXCEPT !.rows = rows]]
  BY DEF Audit
<1>2. job[t] \in DOMAIN calls /\ calls[job[t]] \in Calls /\ calls[job[t]].cost \in Costs
  BY <1>0, ReqFacts DEF Calls
<1>3. rows \in Seq(Rows)
  BY <1>2, RecordedType
<1>4. CallsKept
  BY <1>1, <1>2, <1>3, RowsUpdate, CallUpdated DEF IInv, SharedOK
<1>5. RateOK' /\ LedgerOK' /\ CacheTypeOK' /\ inFlight' = inFlight
  BY <1>0, RateSame, LedgerSame, CacheSame
<1>6. ThreadTypes' /\ OthersKept(t) /\ pc'[t] = "release"
  BY <1>0 DEF IInv, ThreadTypes, OthersKept, Goto, PCs, Holding
<1>. QED  BY <1>0, <1>4, <1>5, <1>6, HeldStep DEF Holding, BeforeCall, Decided

LEMMA ReleaseStep ==
    ASSUME IInv, NEW t \in Threads, Release(t)
    PROVE  IInv'
<1>0. /\ pc[t] = "release" /\ Touch(t) /\ Frame
      /\ inFlight' = inFlight \ {Fp(t)} /\ entries' = entries
      /\ UNCHANGED <<rateVars, ledgerVars>>
  BY DEF Release, CacheEnd
<1>1. RateOK' /\ LedgerOK'
  BY <1>0, RateSame, LedgerSame
<1>2. CacheTypeOK'
  BY <1>0 DEF IInv, SharedOK, CacheTypeOK
<1>3. job[t] \in DOMAIN calls /\ job[t] \in Nat /\ calls[job[t]] \in Calls
  BY <1>0, ReqFacts
<1>4. CallsKept /\ ThreadTypes' /\ OthersKept(t) /\ ThreadOK(t)' /\ pc'[t] \notin Holding
  <2>1. CASE err[t] = None
    <3>. DEFINE a == [kind |-> "provider", by |-> job[t], expires |-> 0]
    <3>1. calls' = [calls EXCEPT ![job[t]] = [calls[job[t]] EXCEPT !.answer = a]] /\ Return(t)
      BY <2>1 DEF Release
    <3>2. a \in Answers
      BY <1>3 DEF Answers
    <3>. HIDE DEF a
    <3>3. CallsKept
      BY <1>3, <3>1, <3>2, AnswerUpdate, CallUpdated DEF IInv, SharedOK
    <3>. QED  BY <3>1, <3>3, ReturnFacts DEF Holding
  <2>2. CASE err[t] # None
    <3>1. Goto(t, "fail") /\ UNCHANGED <<job, dec, att, err, calls>>
      BY <2>2 DEF Release
    <3>2. CallsKept
      BY <3>1, CallsUnchanged DEF IInv, SharedOK
    <3>3. ThreadTypes' /\ OthersKept(t) /\ pc'[t] = "fail"
      BY <3>1 DEF IInv, ThreadTypes, OthersKept, Goto, PCs
    <3>4. ThreadOK(t)'
      BY <1>3, <2>2, <3>1, <3>3 DEF ThreadOK, BeforeCall, Decided
    <3>. QED  BY <3>2, <3>3, <3>4 DEF Holding
  <2>. QED  BY <2>1, <2>2
<1>5. ASSUME NEW u \in Threads \ {t}, pc[u] \in Holding
      PROVE  Fp(u)' = Fp(u) /\ Fp(u) # Fp(t)
  <2>1. job'[u] = job[u]
    BY <1>4 DEF OthersKept
  <2>2. job[u] \in DOMAIN calls
    BY <1>5, ReqFacts DEF Holding
  <2>3. Fp(u)' = Fp(u)
    BY <1>4, <2>1, <2>2 DEF CallsKept, Fp, Req
  <2>4. Fp(u) # Fp(t)
    BY <1>0, <1>5 DEF IInv, ClaimsOK, SingleFlight, Holding
  <2>. QED  BY <2>3, <2>4
<1>6. \A u \in Threads : pc'[u] \in Holding <=> pc[u] \in Holding /\ u # t
  BY <1>4 DEF OthersKept
<1>7. SingleFlight'
  BY <1>5, <1>6 DEF IInv, ClaimsOK, SingleFlight
<1>8. NoLeakedClaim'
  <2>1. inFlight = {Fp(u) : u \in {v \in Threads : pc[v] \in Holding}}
    BY DEF IInv, ClaimsOK, NoLeakedClaim
  <2>2. inFlight' = {Fp(u)' : u \in {v \in Threads : pc'[v] \in Holding}}
    BY <1>0, <1>5, <1>6, <2>1
  <2>. QED  BY <2>2 DEF NoLeakedClaim
<1>. QED  BY <1>0, <1>1, <1>2, <1>4, <1>7, <1>8, Assemble DEF ClaimsOK

LEMMA FailStep ==
    ASSUME IInv, NEW t \in Threads, Fail(t)
    PROVE  IInv'
<1>0. /\ pc[t] = "fail" /\ Touch(t) /\ Frame /\ Return(t)
      /\ UNCHANGED <<rateVars, ledgerVars, cacheVars>>
  BY DEF Fail
<1>. DEFINE a == [NoAnswer EXCEPT !.kind = err[t]]
<1>1. PICK rows \in Recorded(t, err[t], Unknown) :
         calls' = [calls EXCEPT ![job[t]] = [calls[job[t]] EXCEPT !.rows = rows, !.answer = a]]
  BY DEF Fail
<1>2. /\ job[t] \in DOMAIN calls /\ calls[job[t]] \in Calls
      /\ err[t] \in ErrorKinds
  BY <1>0, ReqFacts DEF IInv, ThreadOK, ThreadTypes
<1>3. a \in Answers
  BY <1>2 DEF NoAnswer, Answers
<1>4. rows \in Seq(Rows)
  <2>1. Unknown \in Costs
    BY DEF Unknown, Costs
  <2>. QED  BY <1>2, <2>1, RecordedType
<1>. HIDE DEF a
<1>. DEFINE c == [calls[job[t]] EXCEPT !.rows = rows, !.answer = a]
<1>5. c \in Calls /\ c.req = calls[job[t]].req
  BY <1>2, <1>3, <1>4 DEF Calls
<1>6. CallsKept
  BY <1>1, <1>2, <1>5, CallUpdated DEF IInv, SharedOK
<1>7. RateOK' /\ LedgerOK' /\ CacheTypeOK' /\ inFlight' = inFlight
  BY <1>0, RateSame, LedgerSame, CacheSame
<1>8. ThreadTypes' /\ OthersKept(t) /\ pc'[t] = "idle" /\ ThreadOK(t)'
  BY <1>0, ReturnFacts
<1>9. ClaimsOK'
  BY <1>0, <1>6, <1>7, <1>8, ClaimsKept DEF IInv, Holding
<1>. QED  BY <1>0, <1>6, <1>7, <1>8, <1>9, Assemble

-----------------------------------------------------------------------------
(***************************************************************************)
(* Steps of no thread.                                                     *)
(***************************************************************************)
LEMMA ThreadsUntouched ==
    ASSUME IInv, UNCHANGED <<threadVars, calls, inFlight>>
    PROVE  /\ ThreadTypes' /\ ClaimsOK' /\ calls' \in Seq(Calls)
           /\ \A t \in Threads : ThreadOK(t)'
<1>1. ThreadTypes' /\ calls' \in Seq(Calls)
  BY DEF IInv, ThreadTypes, SharedOK, threadVars
<1>2. ClaimsOK'
  BY DEF IInv, ClaimsOK, NoLeakedClaim, SingleFlight, threadVars, Fp, Req
<1>3. \A t \in Threads : ThreadOK(t)'
  BY DEF IInv, ThreadOK, threadVars, Req, RouteOK
<1>. QED  BY <1>1, <1>2, <1>3

LEMMA StatusStep ==
    ASSUME IInv, NEW t \in Threads, Status(t)
    PROVE  IInv'
<1>0. /\ Touch(t) /\ Frame
      /\ UNCHANGED <<rateVars, cacheVars, threadVars, calls>>
  BY DEF Status
<1>1. PICK at \in Stamps(t) : LedgerSnapshot(at)
  BY DEF Status
<1>2. LedgerOK'
  BY <1>0, <1>1, AtTimes, LedgerSnapshotKeeps DEF IInv, SharedOK, LedgerOK
<1>3. RateOK' /\ CacheTypeOK' /\ inFlight' = inFlight
  BY <1>0, RateSame, CacheSame
<1>4. UNCHANGED <<threadVars, calls, inFlight>>
  BY <1>0, <1>3
<1>5. /\ ThreadTypes' /\ ClaimsOK' /\ calls' \in Seq(Calls)
      /\ \A u \in Threads : ThreadOK(u)'
  BY <1>4, ThreadsUntouched
<1>6. ClockTypeOK' /\ disabled' \subseteq Providers /\ restarts' \in Nat
  BY <1>0, TouchClock DEF IInv, SharedOK, Frame
<1>. QED  BY <1>2, <1>3, <1>5, <1>6 DEF IInv, SharedOK

LEMMA OperatorStep ==
    ASSUME IInv, NEW p \in Operated, Disable(p) \/ Enable(p)
    PROVE  IInv'
<1>1. /\ disabled' \subseteq Providers
      /\ UNCHANGED <<clockVars, rateVars, ledgerVars, cacheVars, threadVars, calls, restarts>>
  BY DEF Disable, Enable, IInv, SharedOK
<1>2. ClockTypeOK' /\ RateOK' /\ LedgerOK' /\ CacheTypeOK' /\ inFlight' = inFlight
  BY <1>1 DEF IInv, SharedOK, ClockTypeOK, RateOK, RateTypeOK, NoHitForgotten,
     LedgerOK, LedgerTypeOK, NoSpendForgotten, Duration, CacheTypeOK,
     clockVars, rateVars, ledgerVars, cacheVars
<1>3. UNCHANGED <<threadVars, calls, inFlight>>
  BY <1>1, <1>2
<1>4. /\ ThreadTypes' /\ ClaimsOK' /\ calls' \in Seq(Calls)
      /\ \A t \in Threads : ThreadOK(t)'
  BY <1>3, ThreadsUntouched
<1>5. restarts' \in Nat
  BY <1>1 DEF IInv, SharedOK
<1>. QED  BY <1>1, <1>2, <1>4, <1>5 DEF IInv, SharedOK

LEMMA TickStep ==
    ASSUME IInv, Tick,
           UNCHANGED <<rateVars, ledgerVars, cacheVars, threadVars, calls, disabled, restarts>>
    PROVE  IInv'
<1>0. ClockTypeOK'
  BY ClockAssumption DEF IInv, SharedOK, ClockTypeOK, Tick
<1>1. ClockTypeOK' /\ CacheTypeOK' /\ inFlight' = inFlight
  BY <1>0, CacheSame
<1>2. RateOK'
  BY RateTick DEF IInv, SharedOK, ClockTypeOK, RateOK
<1>3. LedgerOK'
  BY LedgerTick DEF IInv, SharedOK, ClockTypeOK, LedgerOK
<1>4. UNCHANGED <<threadVars, calls, inFlight>>
  BY <1>1
<1>5. /\ ThreadTypes' /\ ClaimsOK' /\ calls' \in Seq(Calls)
      /\ \A t \in Threads : ThreadOK(t)'
  BY <1>4, ThreadsUntouched
<1>. QED  BY <1>1, <1>2, <1>3, <1>5 DEF IInv, SharedOK

(***************************************************************************)
(* A fresh process: everything in memory is as Init has it, and the calls  *)
(* keep their requests and rows.                                           *)
(***************************************************************************)
LEMMA FreshThreads ==
    IdleThreads => ThreadTypes /\ \A t \in Threads : ThreadOK(t) /\ pc[t] = "idle"
<1>. SUFFICES ASSUME IdleThreads
              PROVE  ThreadTypes /\ \A t \in Threads : ThreadOK(t) /\ pc[t] = "idle"
  OBVIOUS
<1>1. NoRoute \in Decisions
  BY ModelListAssumption DEF NoRoute, Decisions
<1>2. ThreadTypes /\ \A t \in Threads : pc[t] = "idle" /\ att[t] = 0
  BY <1>1 DEF IdleThreads, ThreadTypes, PCs, MAX_ATTEMPTS_CEILING
<1>. QED  BY <1>2 DEF ThreadOK, BeforeCall, Decided

LEMMA FreshGovernance ==
    RateInit /\ LedgerInit /\ CacheInit
        => RateOK /\ LedgerOK /\ CacheTypeOK /\ inFlight = {}
<1>. SUFFICES ASSUME RateInit, LedgerInit, CacheInit
              PROVE  RateOK /\ LedgerOK /\ CacheTypeOK /\ inFlight = {}
  OBVIOUS
<1>1. RateOK
  BY DEF RateInit, RateOK, RateTypeOK, NoHitForgotten
<1>2. LedgerOK
  BY DEF LedgerInit, LedgerOK, LedgerTypeOK, NoSpendForgotten, WindowNames, RollingWindows
<1>3. NoEntry \in [by : Nat, expires : Nat]
  BY DEF NoEntry
<1>. QED  BY <1>1, <1>2, <1>3 DEF CacheInit, CacheTypeOK

LEMMA FreshClaims ==
    (\A t \in Threads : pc[t] = "idle") /\ inFlight = {} => ClaimsOK
BY DEF ClaimsOK, NoLeakedClaim, SingleFlight, Holding

LEMMA RestartStep ==
    ASSUME IInv, Restart
    PROVE  IInv'
<1>1. ClockTypeOK' /\ disabled' \subseteq Providers /\ restarts' \in Nat
  BY DEF IInv, SharedOK, ClockTypeOK, Restart
<1>2. IdleThreads' /\ RateInit' /\ LedgerInit' /\ CacheInit'
  BY DEF Restart, IdleThreads, RateInit, LedgerInit, CacheInit
<1>3. RateOK' /\ LedgerOK' /\ CacheTypeOK' /\ (inFlight = {})'
  BY <1>2, FreshGovernance, PTL
<1>4. ThreadTypes' /\ (\A t \in Threads : ThreadOK(t) /\ pc[t] = "idle")'
  BY <1>2, FreshThreads, PTL
<1>a. (\A t \in Threads : pc[t] = "idle")'
  BY <1>4
<1>5. ClaimsOK'
  BY <1>3, <1>a, FreshClaims, PTL
<1>6. calls' \in Seq(Calls)
  <2>. DEFINE lost(c) == [c EXCEPT !.answer.kind = "lost"]
              after(c) == IF c.answer.kind = "pending" THEN lost(c) ELSE c
  <2>1. calls' = [i \in DOMAIN calls |-> after(calls[i])]
    BY DEF Restart
  <2>2. ASSUME NEW i \in DOMAIN calls  PROVE after(calls[i]) \in Calls
    <3>1. calls[i] \in Calls
      BY CallTypes DEF IInv, SharedOK
    <3>2. [calls[i].answer EXCEPT !.kind = "lost"] \in Answers
      BY <3>1 DEF Calls, Answers
    <3>3. lost(calls[i]) = [calls[i] EXCEPT !.answer = [calls[i].answer EXCEPT !.kind = "lost"]]
      OBVIOUS
    <3>4. lost(calls[i]) \in Calls
      BY <3>1, <3>2, <3>3, AnswerUpdate
    <3>. QED  BY <3>1, <3>4
  <2>. HIDE DEF after
  <2>3. Len(calls) \in Nat /\ DOMAIN calls = 1..Len(calls)
    BY LenProperties DEF IInv, SharedOK
  <2>4. calls' \in [1..Len(calls) -> Calls]
    BY <2>1, <2>2, <2>3
  <2>. QED  BY <2>3, <2>4, SeqDef
<1>. QED  BY <1>1, <1>3, <1>4, <1>5, <1>6 DEF IInv, SharedOK

LEMMA InitIInv == Init => IInv
<1>. SUFFICES ASSUME Init PROVE IInv
  OBVIOUS
<1>1. ClockTypeOK /\ disabled \subseteq Providers /\ restarts \in Nat /\ calls \in Seq(Calls)
  BY ClockAssumption DEF Init, ClockInit, ClockTypeOK
<1>2. RateOK /\ LedgerOK /\ CacheTypeOK /\ inFlight = {}
  BY FreshGovernance DEF Init
<1>3. ThreadTypes /\ \A t \in Threads : ThreadOK(t) /\ pc[t] = "idle"
  BY FreshThreads DEF Init
<1>4. ClaimsOK
  BY <1>2, <1>3, FreshClaims
<1>. QED  BY <1>1, <1>2, <1>3, <1>4 DEF IInv, SharedOK

LEMMA StutterStep ==
    ASSUME IInv, UNCHANGED vars
    PROVE  IInv'
<1>1. UNCHANGED <<clockVars, rateVars, ledgerVars, cacheVars, threadVars, calls, inFlight, disabled, restarts>>
  BY DEF vars, clockVars, rateVars, ledgerVars, cacheVars, threadVars
<1>2. /\ ThreadTypes' /\ ClaimsOK' /\ calls' \in Seq(Calls)
      /\ \A t \in Threads : ThreadOK(t)'
  BY <1>1, ThreadsUntouched
<1>3. SharedOK'
  BY <1>1 DEF IInv, SharedOK, ClockTypeOK, RateOK, RateTypeOK, NoHitForgotten,
     LedgerOK, LedgerTypeOK, NoSpendForgotten, Duration, CacheTypeOK,
     clockVars, rateVars, ledgerVars, cacheVars
<1>. QED  BY <1>2, <1>3 DEF IInv

LEMMA NextIInv == IInv /\ [Next]_vars => IInv'
<1>. SUFFICES ASSUME IInv, [Next]_vars PROVE IInv'
  OBVIOUS
<1>1. ASSUME NEW t \in Threads, Step(t)
      PROVE  IInv'
  <2>1. ASSUME NEW kind \in Transient \cup Fatal, CallFails(t, kind) \/ CallRefused(t, kind)
        PROVE  IInv'
    <3>1. kind \in ErrorKinds
      BY DEF Transient, Fatal, ErrorKinds
    <3>. QED  BY <2>1, <3>1, AttemptFailedStep
  <2>. QED  BY <1>1, <2>1, CheckRateStep, LookupStep, ClaimStep, RouteRequestStep,
               CheckBudgetStep, AdmitStep, GetProviderStep, CallSucceedsStep, AccountStep,
               StoreStep, AuditStep, ReleaseStep, FailStep DEF Step
<1>2. ASSUME NEW t \in Threads, NEW r \in Requests, Submit(t, r)
      PROVE  IInv'
  BY <1>2, SubmitStep
<1>5. ASSUME NEW t \in Threads, Status(t)
      PROVE  IInv'
  BY <1>5, StatusStep
<1>3. CASE Environment
  <2>1. CASE Quiet
    BY <2>1, StutterStep DEF Quiet
  <2>2. ASSUME NEW p \in Operated, Disable(p) \/ Enable(p)
        PROVE  IInv'
    BY <2>2, OperatorStep
  <2>3. CASE Tick /\ UNCHANGED <<rateVars, ledgerVars, cacheVars, threadVars, calls,
                                 disabled, restarts>>
    BY <2>3, TickStep
  <2>4. CASE Restart
    BY <2>4, RestartStep
  <2>. QED  BY <1>3, <2>1, <2>2, <2>3, <2>4 DEF Environment
<1>4. CASE UNCHANGED vars
  BY <1>4, StutterStep
<1>. QED  BY <1>1, <1>2, <1>3, <1>4, <1>5 DEF Next

-----------------------------------------------------------------------------
LEMMA IInvTypes == IInv => TypeOK
BY DEF IInv, ThreadTypes, SharedOK, RateOK, LedgerOK, ThreadOK, TypeOK

(***************************************************************************)
(* For every number of threads, requests and models, every limit and every *)
(* schedule of restarts and provider outages, the gateway's state is       *)
(* well-typed (AIGateway.invoke).                                          *)
(***************************************************************************)
THEOREM GatewayTypes == Spec => []TypeOK
<1>. QED  BY InitIInv, NextIInv, IInvTypes, PTL DEF Spec

(***************************************************************************)
(* At most one thread at a time works on a fingerprint (ResponseCache.begin*)
(* and end around AIGateway._routed_invoke).                               *)
(***************************************************************************)
THEOREM OneFlightPerQuestion == Spec => []SingleFlight
<1>1. IInv => SingleFlight
  BY DEF IInv, ClaimsOK
<1>. QED  BY <1>1, InitIInv, NextIInv, PTL DEF Spec

(***************************************************************************)
(* No refusal, retry, exception or restart leaves a claim behind or takes  *)
(* one away from its holder (the `finally: cache.end` of _invoke).         *)
(***************************************************************************)
THEOREM ClaimsAreExact == Spec => []NoLeakedClaim
<1>1. IInv => NoLeakedClaim
  BY DEF IInv, ClaimsOK
<1>. QED  BY <1>1, InitIInv, NextIInv, PTL DEF Spec

(***************************************************************************)
(* A provider is only ever called with a model the request's policy        *)
(* admits, within the attempts it grants, whatever happened since the      *)
(* request was routed (AIRouter.route to AIGateway._call_provider).        *)
(***************************************************************************)
THEOREM PolicyHolds == Spec => []PolicyHeldAtCall
<1>1. IInv => PolicyHeldAtCall
  BY DEF IInv, ThreadOK, Decided, PolicyHeldAtCall, RouteOK, ModelOf
<1>. QED  BY <1>1, InitIInv, NextIInv, PTL DEF Spec

(***************************************************************************)
(* The rate limiter never drops a hit that still counts, in whatever order *)
(* threads with lagging clocks check and record (RateLimiter.check).       *)
(***************************************************************************)
THEOREM HitsAreKept == Spec => []NoHitForgotten
<1>1. IInv => NoHitForgotten
  BY DEF IInv, SharedOK, RateOK
<1>. QED  BY <1>1, InitIInv, NextIInv, PTL DEF Spec

(***************************************************************************)
(* The budget ledger never drops an expense that still counts              *)
(* (BudgetLedger.check and snapshot, _Window.prune).                       *)
(***************************************************************************)
THEOREM SpendIsKept == Spec => []NoSpendForgotten
<1>1. IInv => NoSpendForgotten
  BY DEF IInv, SharedOK, LedgerOK
<1>. QED  BY <1>1, InitIInv, NextIInv, PTL DEF Spec

-----------------------------------------------------------------------------
(***************************************************************************)
(* What the answers say.  The history needs an invariant of its own: what  *)
(* is already written about a request at every place in the chain, and     *)
(* that a cache entry belongs to a request that was, or is about to be,    *)
(* answered by a provider.                                                 *)
(***************************************************************************)
\* No two requests in the chain are the same one.
JobsApart ==
    \A t, u \in Threads : pc[t] # "idle" /\ pc[u] # "idle" /\ job[t] = job[u] => t = u

\* The rows handed over so far for the request a thread works on.
RowsSoFar(t) ==
    LET rows == calls[job[t]].rows
        one(kind) == Len(rows) = 1 /\ rows[1].kind = kind
    IN  /\ pc[t] = "release" /\ err[t] = None => one("success")
        /\ pc[t] \in {"release", "fail"} /\ err[t] # None =>
             rows = <<>> \/ (err[t] = "budget_exceeded" /\ one("budget_exceeded"))
        /\ pc[t] \notin {"release", "fail"} => rows = <<>>

\* What a thread's position says about the request it works on.
ChainOK(t) ==
    /\ err[t] # None => pc[t] \in {"release", "fail"}
    /\ pc[t] # "idle" =>
        /\ calls[job[t]].answer.kind = "pending"
        /\ calls[job[t]].created <= since[t]
        /\ pc[t] \in {"account", "store"} => calls[job[t]].route.model # 0
        /\ RowsSoFar(t)

\* Request j was answered by a provider, to the question with fingerprint f ...
SourceOK(j, f) ==
    /\ j \in DOMAIN calls
    /\ Fingerprint(calls[j].req) = f
    /\ calls[j].route.model # 0

\* ... and its caller has that answer, or is about to.
Delivered(j) ==
    \/ calls[j].answer.kind = "provider"
    \/ \E t \in Threads : job[t] = j /\ pc[t] \in {"audit", "release"} /\ err[t] = None

EntryOK(f) ==
    Present(f) => SourceOK(entries[f].by, f) /\ Delivered(entries[f].by)

\* The audit rows of an answered request are what AnswersAudited wants them to be.
Truthful(c) ==
    LET kinds == {c.rows[j].kind : j \in DOMAIN c.rows}
    IN  /\ c.answer.kind = "provider" => kinds = {"success"} /\ Len(c.rows) = 1
        /\ c.answer.kind \in ErrorKinds =>
             /\ kinds = {c.answer.kind}
             /\ Len(c.rows) <= (IF c.answer.kind = "budget_exceeded" THEN 2 ELSE 1)

Audited(i) == Truthful(calls[i])

FromCache(i) ==
    calls[i].answer.kind = "cached" =>
        /\ SourceOK(calls[i].answer.by, Fingerprint(calls[i].req))
        /\ calls[i].answer.expires > calls[i].created

\* A request is pending exactly as long as some thread works on it.
Owned(i) ==
    calls[i].answer.kind = "pending" => \E t \in Threads : pc[t] # "idle" /\ job[t] = i

HInv ==
    /\ JobsApart
    /\ \A t \in Threads : ChainOK(t)
    /\ \A i \in DOMAIN calls : Audited(i) /\ FromCache(i) /\ Owned(i)
    /\ \A f \in Fingerprints : EntryOK(f)

-----------------------------------------------------------------------------
\* What a step of thread t may do to the history: change its own request's outcome.
HistoryKept(t) ==
    /\ DOMAIN calls' = DOMAIN calls
    /\ \A i \in DOMAIN calls : i # job[t] => calls'[i] = calls[i]
    /\ calls'[job[t]].req = calls[job[t]].req
    /\ calls'[job[t]].created = calls[job[t]].created
    /\ calls[job[t]].route.model # 0 => calls'[job[t]].route.model # 0

\* ... and to the cache: nothing, drop an entry, or enter the answer it is delivering.
EntriesKept(t, j) ==
    \A f \in Fingerprints : Present(f)' =>
        \/ Present(f) /\ entries'[f].by = entries[f].by
        \/ /\ f = Fp(t) /\ entries'[f].by = j
           /\ calls[j].route.model # 0 /\ Delivered(j)'

LEMMA SourcesKept ==
    ASSUME NEW t \in Threads, HistoryKept(t), NEW j, NEW f, SourceOK(j, f)
    PROVE  SourceOK(j, f)'
<1>1. CASE j = job[t]
  BY <1>1 DEF HistoryKept, SourceOK
<1>2. CASE j # job[t]
  BY <1>2 DEF HistoryKept, SourceOK
<1>. QED  BY <1>1, <1>2

(***************************************************************************)
(* What a step of thread t has to show, where j is the request it works on *)
(* when the step begins.                                                   *)
(***************************************************************************)
LEMMA OwnStep ==
    ASSUME IInv, HInv, NEW t \in Threads, pc[t] # "idle", NEW j, j = job[t],
           OthersKept(t), Touch(t), HistoryKept(t), EntriesKept(t, j),
           pc'[t] # "idle" => job'[t] = j /\ ChainOK(t)',
           pc'[t] = "idle" => /\ err'[t] = None
                              /\ calls'[j].answer.kind # "pending"
                              /\ Audited(j)'
                              /\ FromCache(j)',
           pc[t] \in {"audit", "release"} /\ err[t] = None => Delivered(j)'
    PROVE  HInv'
<1>0. ASSUME NEW u \in Threads \ {t}
      PROVE  /\ pc'[u] = pc[u] /\ job'[u] = job[u] /\ err'[u] = err[u]
             /\ pc[u] # "idle" => job[u] # job[t] /\ job[u] \in DOMAIN calls
  BY DEF OthersKept, HInv, JobsApart, IInv, ThreadOK
<1>a. job[t] \in DOMAIN calls /\ calls[job[t]].answer.kind = "pending"
  BY DEF IInv, ThreadOK, HInv, ChainOK
<1>1. JobsApart'
  BY <1>0 DEF HInv, JobsApart
<1>2. ASSUME NEW u \in Threads  PROVE ChainOK(u)'
  <2>1. CASE u = t
    BY <2>1 DEF ChainOK
  <2>2. CASE u # t /\ pc[u] # "idle"
    <3>1. calls'[job'[u]] = calls[job[u]] /\ pc'[u] = pc[u] /\ err'[u] = err[u]
      BY <1>0, <2>2 DEF HistoryKept
    <3>2. since'[u] = since[u]
      BY <2>2 DEF Touch, IInv, SharedOK, ClockTypeOK
    <3>. QED  BY <3>1, <3>2 DEF HInv, ChainOK, RowsSoFar
  <2>3. CASE u # t /\ pc[u] = "idle"
    BY <1>0, <2>3 DEF HInv, ChainOK
  <2>. QED  BY <2>1, <2>2, <2>3
<1>3. ASSUME NEW i \in DOMAIN calls'
      PROVE  Audited(i)' /\ FromCache(i)' /\ Owned(i)'
  <2>0. i \in DOMAIN calls
    BY DEF HistoryKept
  <2>1. CASE i # j
    <3>1. calls'[i] = calls[i]
      BY <2>0, <2>1 DEF HistoryKept
    <3>2. Audited(i) /\ FromCache(i) /\ Owned(i)
      BY <2>0 DEF HInv
    <3>3. FromCache(i)'
      <4>. SUFFICES ASSUME calls[i].answer.kind = "cached"
                    PROVE  SourceOK(calls[i].answer.by, Fingerprint(calls[i].req))'
                           /\ calls[i].answer.expires > calls[i].created
        BY <3>1 DEF FromCache
      <4>. DEFINE by == calls[i].answer.by
                  f == Fingerprint(calls[i].req)
      <4>1. SourceOK(by, f) /\ calls[i].answer.expires > calls[i].created
        BY <3>2 DEF FromCache
      <4>2. PICK b, g : b = by /\ g = f
        OBVIOUS
      <4>3. SourceOK(b, g)'
        BY <4>1, <4>2, SourcesKept
      <4>4. (by = b /\ f = g)'
        BY <3>1, <4>2 DEF Fingerprint
      <4>. QED  BY <4>1, <4>3, <4>4
    <3>4. Owned(i)'
      BY <1>0, <2>1, <3>1, <3>2 DEF Owned
    <3>. QED  BY <3>1, <3>2, <3>3, <3>4 DEF Audited
  <2>2. CASE i = j /\ pc'[t] # "idle"
    <3>1. calls'[i].answer.kind = "pending" /\ job'[t] = i
      BY <2>2 DEF ChainOK
    <3>. QED  BY <2>2, <3>1 DEF Audited, Truthful, FromCache, Owned, ErrorKinds
  <2>3. CASE i = j /\ pc'[t] = "idle"
    BY <2>3 DEF Owned
  <2>. QED  BY <2>1, <2>2, <2>3
<1>4. ASSUME NEW f \in Fingerprints, Present(f)', NEW b, b = entries'[f].by
      PROVE  SourceOK(b, f)' /\ Delivered(b)'
  <2>1. CASE Present(f) /\ b = entries[f].by
    <3>1. SourceOK(b, f) /\ Delivered(b)
      BY <2>1 DEF HInv, EntryOK
    <3>2. SourceOK(b, f)'
      BY <3>1, SourcesKept
    <3>3. CASE calls[b].answer.kind = "provider"
      <4>1. calls'[b] = calls[b]
        BY <1>a, <3>1, <3>3 DEF SourceOK, HistoryKept
      <4>. QED  BY <3>2, <3>3, <4>1 DEF Delivered
    <3>4. CASE \E u \in Threads : job[u] = b /\ pc[u] \in {"audit", "release"} /\ err[u] = None
      <4>1. PICK u \in Threads : job[u] = b /\ pc[u] \in {"audit", "release"} /\ err[u] = None
        BY <3>4
      <4>2. CASE u = t
        BY <3>2, <4>1, <4>2
      <4>3. CASE u # t
        BY <1>0, <3>2, <4>1, <4>3 DEF Delivered
      <4>. QED  BY <4>2, <4>3
    <3>. QED  BY <3>1, <3>3, <3>4 DEF Delivered
  <2>2. CASE f = Fp(t) /\ b = j /\ calls[j].route.model # 0 /\ Delivered(j)'
    BY <1>a, <2>2 DEF SourceOK, HistoryKept, Fp, Req
  <2>. QED  BY <1>4, <2>1, <2>2 DEF EntriesKept
<1>5. ASSUME NEW f \in Fingerprints
      PROVE  EntryOK(f)'
  <2>1. PICK b : b = entries'[f].by
    OBVIOUS
  <2>. QED  BY <1>4, <2>1 DEF EntryOK, SourceOK, Delivered
<1>. QED  BY <1>1, <1>2, <1>3, <1>5 DEF HInv

LEMMA HistorySame ==
    ASSUME NEW t \in Threads, UNCHANGED calls
    PROVE  HistoryKept(t)
BY DEF HistoryKept

LEMMA HistoryUpdated ==
    ASSUME IInv, NEW t \in Threads, job[t] \in DOMAIN calls, NEW c,
           calls' = [calls EXCEPT ![job[t]] = c],
           c.req = calls[job[t]].req, c.created = calls[job[t]].created,
           calls[job[t]].route.model # 0 => c.route.model # 0
    PROVE  HistoryKept(t) /\ calls'[job[t]] = c
BY DEF HistoryKept

LEMMA EntriesSame ==
    ASSUME NEW t \in Threads, NEW j, UNCHANGED entries
    PROVE  EntriesKept(t, j)
BY DEF EntriesKept, Present

(***************************************************************************)
(* A step to another place in the chain that writes no row.                *)
(***************************************************************************)
LEMMA PlainMove ==
    ASSUME IInv, HInv, NEW t \in Threads, OthersKept(t), Touch(t),
           pc[t] \notin {"idle", "audit", "release", "fail"},
           pc'[t] # "idle", job'[t] = job[t], UNCHANGED <<calls, entries>>,
           pc'[t] \in {"account", "store"} => calls[job[t]].route.model # 0,
           \/ pc'[t] \notin {"release", "fail"} /\ err'[t] = err[t]
           \/ pc'[t] \in {"release", "fail"} /\ err'[t] # None
    PROVE  HInv'
<1>1. PICK j : j = job[t]
  OBVIOUS
<1>2. HistoryKept(t) /\ EntriesKept(t, j)
  BY HistorySame, EntriesSame
<1>3. since[t] <= since'[t] /\ since[t] \in Nat /\ since'[t] \in Nat
  BY DEF Touch, IInv, SharedOK, ClockTypeOK
<1>4. ChainOK(t)'
  <2>1. calls[job[t]].created \in Nat
    BY CallTypes DEF IInv, ThreadOK, SharedOK, Calls
  <2>2. ChainOK(t)
    BY DEF HInv
  <2>. QED  BY <1>3, <2>1, <2>2 DEF ChainOK, RowsSoFar
<1>. QED  BY <1>1, <1>2, <1>4, OwnStep

LEMMA CheckRateHistory ==
    ASSUME IInv, HInv, NEW t \in Threads, CheckRate(t)
    PROVE  HInv'
<1>1. /\ pc[t] = "rate" /\ Touch(t) /\ UNCHANGED <<cacheVars, job, dec, att, calls>>
      /\ \/ Goto(t, "lookup") /\ UNCHANGED err
         \/ Raise(t, "rate_limit_exceeded", "fail")
  BY DEF CheckRate
<1>2. /\ OthersKept(t)
      /\ \/ pc'[t] = "lookup" /\ err'[t] = err[t]
         \/ pc'[t] = "fail" /\ err'[t] # None
  BY <1>1 DEF Goto, Raise, OthersKept, IInv, ThreadTypes, None
<1>. QED  BY <1>1, <1>2, PlainMove DEF cacheVars

LEMMA ClaimHistory ==
    ASSUME IInv, HInv, NEW t \in Threads, Claim(t)
    PROVE  HInv'
<1>1. /\ pc[t] = "claim" /\ Touch(t) /\ UNCHANGED <<entries, job, dec, att, calls>>
      /\ \/ Goto(t, "route") /\ UNCHANGED err
         \/ Raise(t, "provider_unavailable", "fail")
  BY DEF Claim, CacheBegin, cacheVars
<1>2. /\ OthersKept(t)
      /\ \/ pc'[t] = "route" /\ err'[t] = err[t]
         \/ pc'[t] = "fail" /\ err'[t] # None
  BY <1>1 DEF Goto, Raise, OthersKept, IInv, ThreadTypes, None
<1>. QED  BY <1>1, <1>2, PlainMove

LEMMA RouteRequestHistory ==
    ASSUME IInv, HInv, NEW t \in Threads, RouteRequest(t)
    PROVE  HInv'
<1>1. /\ pc[t] = "route" /\ Touch(t) /\ UNCHANGED <<cacheVars, job, att, calls>>
      /\ \/ Goto(t, "budget") /\ UNCHANGED err
         \/ \E kind \in {"no_route", "budget_exceeded"} : Raise(t, kind, "release")
      /\ UNCHANGED dec \/ \E d : dec' = [dec EXCEPT ![t] = d]
  BY DEF RouteRequest
<1>2. /\ OthersKept(t)
      /\ \/ pc'[t] = "budget" /\ err'[t] = err[t]
         \/ pc'[t] = "release" /\ err'[t] # None
  BY <1>1 DEF Goto, Raise, OthersKept, IInv, ThreadTypes, None
<1>. QED  BY <1>1, <1>2, PlainMove DEF cacheVars

LEMMA AdmitHistory ==
    ASSUME IInv, HInv, NEW t \in Threads, Admit(t)
    PROVE  HInv'
<1>1. /\ pc[t] = "admit" /\ Touch(t) /\ Goto(t, "get")
      /\ UNCHANGED <<cacheVars, job, dec, att, err, calls>>
  BY DEF Admit
<1>2. OthersKept(t) /\ pc'[t] = "get"
  BY <1>1 DEF Goto, OthersKept, IInv, ThreadTypes
<1>. QED  BY <1>1, <1>2, PlainMove DEF cacheVars

LEMMA GetProviderHistory ==
    ASSUME IInv, HInv, NEW t \in Threads, GetProvider(t)
    PROVE  HInv'
<1>1. /\ pc[t] = "get" /\ Touch(t) /\ UNCHANGED <<cacheVars, job, dec, att, calls>>
      /\ \/ Goto(t, "call") /\ UNCHANGED err
         \/ Raise(t, "no_route", "release")
  BY DEF GetProvider
<1>2. /\ OthersKept(t)
      /\ \/ pc'[t] = "call" /\ err'[t] = err[t]
         \/ pc'[t] = "release" /\ err'[t] # None
  BY <1>1 DEF Goto, Raise, OthersKept, IInv, ThreadTypes, None
<1>. QED  BY <1>1, <1>2, PlainMove DEF cacheVars

LEMMA AttemptFailedHistory ==
    ASSUME IInv, HInv, NEW t \in Threads, NEW kind \in ErrorKinds,
           CallFails(t, kind) \/ CallRefused(t, kind)
    PROVE  HInv'
<1>1. /\ pc[t] = "call" /\ Touch(t) /\ Attempt(t) /\ UNCHANGED <<cacheVars, job, dec, calls>>
      /\ UNCHANGED <<pc, err>> \/ Raise(t, kind, "release")
  BY DEF CallFails, CallRefused
<1>2. kind # None
  BY DEF ErrorKinds, None
<1>3. /\ OthersKept(t)
      /\ \/ pc'[t] = "call" /\ err'[t] = err[t]
         \/ pc'[t] = "release" /\ err'[t] # None
  BY <1>1, <1>2 DEF Goto, Raise, Attempt, OthersKept, IInv, ThreadTypes
<1>. QED  BY <1>1, <1>3, PlainMove DEF cacheVars

LEMMA AccountHistory ==
    ASSUME IInv, HInv, NEW t \in Threads, Account(t)
    PROVE  HInv'
<1>1. /\ pc[t] = "account" /\ Touch(t) /\ Goto(t, "store")
      /\ UNCHANGED <<cacheVars, job, dec, att, err, calls>>
  BY DEF Account
<1>2. OthersKept(t) /\ pc'[t] = "store"
  BY <1>1 DEF Goto, OthersKept, IInv, ThreadTypes
<1>3. calls[job[t]].route.model # 0
  BY <1>1 DEF HInv, ChainOK
<1>. QED  BY <1>1, <1>2, <1>3, PlainMove DEF cacheVars

(***************************************************************************)
(* Steps that add to the request's history.                                *)
(***************************************************************************)
LEMMA CreatedBefore ==
    ASSUME IInv, HInv, NEW t \in Threads, pc[t] # "idle", Touch(t)
    PROVE  /\ calls[job[t]].created <= since'[t]
           /\ calls[job[t]].created <= since[t]
           /\ calls[job[t]].created \in Nat /\ since[t] \in Nat
<1>1. calls[job[t]].created \in Nat
  BY CallTypes DEF IInv, ThreadOK, SharedOK, Calls
<1>2. calls[job[t]].created <= since[t] /\ since[t] <= since'[t]
      /\ since[t] \in Nat /\ since'[t] \in Nat
  BY DEF HInv, ChainOK, Touch, IInv, SharedOK, ClockTypeOK
<1>. QED  BY <1>1, <1>2

LEMMA RecordedRows ==
    ASSUME NEW t \in Threads, calls[job[t]] \in Calls, NEW kind, NEW cost,
           NEW rows \in Recorded(t, kind, cost)
    PROVE  /\ calls[job[t]].rows = <<>> => Len(rows) = 1 /\ rows[1].kind = kind
           /\ Len(calls[job[t]].rows) = 1 =>
                Len(rows) = 2 /\ rows[1] = calls[job[t]].rows[1] /\ rows[2].kind = kind
           /\ DOMAIN rows = 1..Len(rows)
<1>. DEFINE old == calls[job[t]].rows
            handed(b) == [kind |-> kind, cost |-> cost, stored |-> b]
<1>0. PICK b : rows = Append(old, handed(b))
  BY DEF Recorded
<1>1. PICK row : rows = Append(old, row) /\ row.kind = kind
  BY <1>0, handed(b).kind = kind
<1>2. old \in Seq(Rows)
  BY DEF Calls
<1>. HIDE DEF old
<1>. PICK S : S = Rows \cup {row}
  OBVIOUS
<1>3. old \in Seq(S) /\ row \in S
  <2>1. Rows \subseteq S
    OBVIOUS
  <2>. QED  BY <1>2, <2>1
<1>4. /\ old = <<>> => Len(rows) = 1 /\ rows[1] = row
      /\ Len(old) = 1 => Len(rows) = 2 /\ rows[1] = old[1] /\ rows[2] = row
      /\ DOMAIN rows = 1..Len(rows)
  BY <1>1, <1>3
<1>. QED  BY <1>1, <1>4 DEF old

LEMMA CheckBudgetHistory ==
    ASSUME IInv, HInv, NEW t \in Threads, CheckBudget(t)
    PROVE  HInv'
<1>0. /\ pc[t] = "budget" /\ Touch(t) /\ UNCHANGED <<cacheVars, job, dec, att>>
      /\ \/ Goto(t, "admit") /\ UNCHANGED <<err, calls>>
         \/ /\ Raise(t, "budget_exceeded", "release")
            /\ \E rows \in Recorded(t, "budget_exceeded", Unknown) :
                 calls' = [calls EXCEPT ![job[t]].rows = rows]
  BY DEF CheckBudget
<1>1. CASE Goto(t, "admit") /\ UNCHANGED <<err, calls>>
  <2>1. OthersKept(t) /\ pc'[t] = "admit" /\ err'[t] = err[t]
    BY <1>0, <1>1 DEF Goto, OthersKept, IInv, ThreadTypes
  <2>. QED  BY <1>0, <1>1, <2>1, PlainMove DEF cacheVars
<1>2. CASE /\ Raise(t, "budget_exceeded", "release")
           /\ \E rows \in Recorded(t, "budget_exceeded", Unknown) :
                calls' = [calls EXCEPT ![job[t]].rows = rows]
  <2>1. PICK rows \in Recorded(t, "budget_exceeded", Unknown) :
               calls' = [calls EXCEPT ![job[t]] = [calls[job[t]] EXCEPT !.rows = rows]]
    BY <1>2
  <2>2. PICK j : j = job[t]
    OBVIOUS
  <2>3. job[t] \in DOMAIN calls /\ calls[job[t]] \in Calls
    BY <1>0, ReqFacts
  <2>. DEFINE c == [calls[job[t]] EXCEPT !.rows = rows]
  <2>4. /\ c.req = calls[job[t]].req /\ c.created = calls[job[t]].created
        /\ c.route = calls[job[t]].route /\ c.answer = calls[job[t]].answer /\ c.rows = rows
    BY <2>3 DEF Calls
  <2>. HIDE DEF c
  <2>5. HistoryKept(t) /\ calls'[job[t]] = c
    BY <2>1, <2>3, <2>4, HistoryUpdated DEF c
  <2>6. /\ OthersKept(t) /\ pc'[t] = "release" /\ err'[t] = "budget_exceeded"
        /\ err[t] = None /\ job'[t] = job[t]
    BY <1>0, <1>2 DEF Goto, Raise, OthersKept, IInv, ThreadTypes, HInv, ChainOK
  <2>7. Len(rows) = 1 /\ rows[1].kind = "budget_exceeded"
    BY <1>0, <2>3, RecordedRows DEF HInv, ChainOK, RowsSoFar
  <2>8. ChainOK(t)'
    BY <1>0, <2>4, <2>5, <2>6, <2>7, CreatedBefore DEF ChainOK, RowsSoFar, HInv, None
  <2>. QED  BY <1>0, <2>2, <2>5, <2>6, <2>8, OwnStep, EntriesSame DEF cacheVars
<1>. QED  BY <1>0, <1>1, <1>2

LEMMA CallSucceedsHistory ==
    ASSUME IInv, HInv, NEW t \in Threads, NEW usage \in Usages, CallSucceeds(t, usage)
    PROVE  HInv'
<1>. DEFINE cost == Estimate(ModelOf(t).name, usage)
            c == [calls[job[t]] EXCEPT !.cost = cost, !.route = dec[t]]
<1>0. /\ pc[t] = "call" /\ Touch(t) /\ Attempt(t) /\ Goto(t, "account")
      /\ UNCHANGED <<cacheVars, job, dec, err>>
      /\ calls' = [calls EXCEPT ![job[t]] = c]
  BY DEF CallSucceeds
<1>1. PICK j : j = job[t]
  OBVIOUS
<1>2. job[t] \in DOMAIN calls /\ calls[job[t]] \in Calls /\ dec[t].model # 0
  BY <1>0, ReqFacts DEF IInv, ThreadOK, Decided
<1>3. /\ c.req = calls[job[t]].req /\ c.created = calls[job[t]].created /\ c.route = dec[t]
      /\ c.answer = calls[job[t]].answer /\ c.rows = calls[job[t]].rows
  BY <1>2 DEF Calls
<1>. HIDE DEF c
<1>4. HistoryKept(t) /\ calls'[job[t]] = c
  BY <1>0, <1>2, <1>3, HistoryUpdated
<1>5. OthersKept(t) /\ pc'[t] = "account" /\ err'[t] = err[t] /\ job'[t] = job[t]
  BY <1>0 DEF Goto, Attempt, OthersKept, IInv, ThreadTypes
<1>6. ChainOK(t)'
  BY <1>0, <1>2, <1>3, <1>4, <1>5, CreatedBefore DEF ChainOK, RowsSoFar, HInv
<1>. QED  BY <1>0, <1>1, <1>4, <1>5, <1>6, OwnStep, EntriesSame DEF cacheVars

LEMMA StoreHistory ==
    ASSUME IInv, HInv, NEW t \in Threads, Store(t)
    PROVE  HInv'
<1>0. /\ pc[t] = "store" /\ Touch(t) /\ Goto(t, "audit")
      /\ UNCHANGED <<job, dec, att, err, calls>>
      /\ \E at, ttl : CachePut(Fp(t), job[t], ttl, at)
  BY DEF Store
<1>1. PICK j : j = job[t]
  OBVIOUS
<1>2. OthersKept(t) /\ pc'[t] = "audit" /\ err'[t] = err[t] /\ job'[t] = job[t]
  BY <1>0 DEF Goto, OthersKept, IInv, ThreadTypes
<1>3. ChainOK(t)' /\ err[t] = None
  BY <1>0, <1>2, CreatedBefore DEF ChainOK, RowsSoFar, HInv
<1>4. Delivered(j)'
  BY <1>0, <1>1, <1>2, <1>3 DEF Delivered
<1>5. Fp(t) \in Fingerprints /\ calls[j].route.model # 0
  BY <1>0, <1>1, ReqFacts DEF HInv, ChainOK
<1>6. EntriesKept(t, j)
  <2>1. \A f \in Fingerprints : entries'[f] = entries[f] \/ (f = Fp(t) /\ entries'[f].by = j)
    BY <1>0, <1>1 DEF CachePut, IInv, SharedOK, CacheTypeOK
  <2>. QED  BY <1>4, <1>5, <2>1 DEF EntriesKept, Present
<1>. QED  BY <1>0, <1>1, <1>2, <1>3, <1>6, OwnStep, HistorySame

LEMMA AuditHistory ==
    ASSUME IInv, HInv, NEW t \in Threads, Audit(t)
    PROVE  HInv'
<1>0. /\ pc[t] = "audit" /\ Touch(t) /\ Goto(t, "release")
      /\ UNCHANGED <<cacheVars, job, dec, att, err>>
  BY DEF Audit
<1>1. PICK rows \in Recorded(t, "success", calls[job[t]].cost) :
             calls' = [calls EXCEPT ![job[t]] = [calls[job[t]] EXCEPT !.rows = rows]]
  BY DEF Audit
<1>2. PICK j : j = job[t]
  OBVIOUS
<1>3. job[t] \in DOMAIN calls /\ calls[job[t]] \in Calls
  BY <1>0, ReqFacts
<1>. DEFINE c == [calls[job[t]] EXCEPT !.rows = rows]
<1>4. /\ c.req = calls[job[t]].req /\ c.created = calls[job[t]].created
      /\ c.route = calls[job[t]].route /\ c.answer = calls[job[t]].answer /\ c.rows = rows
  BY <1>3 DEF Calls
<1>. HIDE DEF c
<1>5. HistoryKept(t) /\ calls'[job[t]] = c
  BY <1>1, <1>3, <1>4, HistoryUpdated DEF c
<1>6. OthersKept(t) /\ pc'[t] = "release" /\ err'[t] = err[t] /\ job'[t] = job[t]
  BY <1>0 DEF Goto, OthersKept, IInv, ThreadTypes
<1>7. Len(rows) = 1 /\ rows[1].kind = "success" /\ err[t] = None
  BY <1>0, <1>3, RecordedRows DEF HInv, ChainOK, RowsSoFar
<1>8. ChainOK(t)'
  BY <1>0, <1>4, <1>5, <1>6, <1>7, CreatedBefore DEF ChainOK, RowsSoFar, HInv
<1>9. Delivered(j)'
  BY <1>2, <1>6, <1>7 DEF Delivered
<1>. QED  BY <1>0, <1>2, <1>5, <1>6, <1>8, <1>9, OwnStep, EntriesSame DEF cacheVars

LEMMA ReleaseHistory ==
    ASSUME IInv, HInv, NEW t \in Threads, Release(t)
    PROVE  HInv'
<1>0. pc[t] = "release" /\ Touch(t) /\ UNCHANGED entries
  BY DEF Release, CacheEnd
<1>1. PICK j : j = job[t]
  OBVIOUS
<1>2. job[t] \in DOMAIN calls /\ calls[job[t]] \in Calls
  BY <1>0, ReqFacts
<1>3. CASE err[t] = None
  <2>. DEFINE a == [kind |-> "provider", by |-> job[t], expires |-> 0]
              c == [calls[job[t]] EXCEPT !.answer = a]
  <2>1. calls' = [calls EXCEPT ![job[t]] = c] /\ Return(t)
    BY <1>3 DEF Release
  <2>2. /\ c.req = calls[job[t]].req /\ c.created = calls[job[t]].created
        /\ c.route = calls[job[t]].route /\ c.rows = calls[job[t]].rows
        /\ c.answer.kind = "provider"
    BY <1>2 DEF Calls
  <2>. HIDE DEF c
  <2>3. HistoryKept(t) /\ calls'[job[t]] = c
    BY <1>2, <2>1, <2>2, HistoryUpdated
  <2>4. OthersKept(t) /\ pc'[t] = "idle" /\ err'[t] = None
    BY <2>1, ReturnFacts DEF Return, IInv, ThreadTypes
  <2>5. Len(c.rows) = 1 /\ c.rows[1].kind = "success" /\ DOMAIN c.rows = 1..1
    <3>1. c.rows \in Seq(Rows)
      BY <1>2, <2>2 DEF Calls
    <3>. QED  BY <1>0, <1>3, <2>2, <3>1, LenProperties DEF HInv, ChainOK, RowsSoFar
  <2>6. Truthful(c)
    <3>1. {c.rows[n].kind : n \in DOMAIN c.rows} = {"success"}
      BY <2>5
    <3>. QED  BY <2>2, <2>5, <3>1 DEF Truthful, ErrorKinds
  <2>7. /\ calls'[j].answer.kind = "provider"
        /\ Audited(j)'
        /\ FromCache(j)'
        /\ Delivered(j)'
    BY <1>1, <2>2, <2>3, <2>6 DEF Audited, FromCache, Delivered
  <2>. QED  BY <1>0, <1>1, <2>3, <2>4, <2>7, OwnStep, EntriesSame
<1>4. CASE err[t] # None
  <2>1. Goto(t, "fail") /\ UNCHANGED <<job, dec, att, err, calls>>
    BY <1>4 DEF Release
  <2>2. OthersKept(t) /\ pc'[t] = "fail" /\ err'[t] = err[t] /\ job'[t] = job[t]
    BY <2>1 DEF Goto, OthersKept, IInv, ThreadTypes
  <2>3. ChainOK(t)'
    BY <1>0, <1>4, <2>1, <2>2, CreatedBefore DEF ChainOK, RowsSoFar, HInv
  <2>. QED  BY <1>0, <1>1, <1>4, <2>1, <2>2, <2>3, OwnStep, EntriesSame, HistorySame
<1>. QED  BY <1>3, <1>4

LEMMA FailHistory ==
    ASSUME IInv, HInv, NEW t \in Threads, Fail(t)
    PROVE  HInv'
<1>. DEFINE a == [NoAnswer EXCEPT !.kind = err[t]]
<1>0. pc[t] = "fail" /\ Touch(t) /\ Return(t) /\ UNCHANGED cacheVars
  BY DEF Fail
<1>1. PICK rows \in Recorded(t, err[t], Unknown) :
         calls' = [calls EXCEPT ![job[t]] = [calls[job[t]] EXCEPT !.rows = rows, !.answer = a]]
  BY DEF Fail
<1>2. PICK j : j = job[t]
  OBVIOUS
<1>3. /\ job[t] \in DOMAIN calls /\ calls[job[t]] \in Calls
      /\ err[t] \in ErrorKinds /\ err[t] # None
  BY <1>0, ReqFacts DEF IInv, ThreadOK, ThreadTypes
<1>. DEFINE c == [calls[job[t]] EXCEPT !.rows = rows, !.answer = a]
<1>4. /\ c.req = calls[job[t]].req /\ c.created = calls[job[t]].created
      /\ c.route = calls[job[t]].route /\ c.rows = rows /\ c.answer.kind = err[t]
  BY <1>3 DEF Calls, NoAnswer
<1>. HIDE DEF c
<1>5. HistoryKept(t) /\ calls'[job[t]] = c
  BY <1>1, <1>3, <1>4, HistoryUpdated DEF c
<1>6. OthersKept(t) /\ pc'[t] = "idle" /\ err'[t] = None
  BY <1>0, ReturnFacts DEF Return, IInv, ThreadTypes
<1>7. Truthful(c)
  <2>1. \/ Len(rows) = 1 /\ rows[1].kind = err[t]
        \/ /\ err[t] = "budget_exceeded" /\ Len(rows) = 2
           /\ rows[1].kind = err[t] /\ rows[2].kind = err[t]
    BY <1>0, <1>3, RecordedRows DEF HInv, ChainOK, RowsSoFar
  <2>2. DOMAIN rows = 1..Len(rows)
    BY <1>3, RecordedRows
  <2>3. {rows[n].kind : n \in DOMAIN rows} = {err[t]}
    <3>1. CASE Len(rows) = 1 /\ rows[1].kind = err[t]
      BY <2>2, <3>1
    <3>2. CASE Len(rows) = 2 /\ rows[1].kind = err[t] /\ rows[2].kind = err[t]
      BY <2>2, <3>2
    <3>. QED  BY <2>1, <3>1, <3>2
  <2>4. {c.rows[n].kind : n \in DOMAIN c.rows} = {err[t]}
    BY <1>4, <2>3
  <2>5. err[t] \notin {"provider", "cached"}
    BY <1>3 DEF ErrorKinds
  <2>6. Len(c.rows) <= (IF c.answer.kind = "budget_exceeded" THEN 2 ELSE 1)
    <3>1. CASE Len(rows) = 1
      BY <1>4, <3>1
    <3>2. CASE Len(rows) = 2 /\ err[t] = "budget_exceeded"
      BY <1>4, <3>2
    <3>. QED  BY <2>1, <3>1, <3>2
  <2>. QED  BY <1>4, <2>4, <2>5, <2>6, Zenon DEF Truthful
<1>8. /\ calls'[j].answer.kind # "pending"
      /\ Audited(j)'
      /\ FromCache(j)'
  BY <1>2, <1>3, <1>4, <1>5, <1>7 DEF Audited, FromCache, ErrorKinds
<1>. QED  BY <1>0, <1>2, <1>5, <1>6, <1>8, OwnStep, EntriesSame DEF cacheVars

LEMMA LookupHistory ==
    ASSUME IInv, HInv, NEW t \in Threads, Lookup(t)
    PROVE  HInv'
<1>0. pc[t] = "lookup" /\ Touch(t)
  BY DEF Lookup
<1>. DEFINE a == [kind |-> "cached", by |-> entries[Fp(t)].by, expires |-> entries[Fp(t)].expires]
<1>1. PICK at \in Stamps(t) :
        /\ CacheGet(Fp(t), at)
        /\ IF Hit(Fp(t), at)
             THEN calls' = [calls EXCEPT ![job[t]].answer = a] /\ Return(t)
             ELSE Goto(t, "claim") /\ UNCHANGED <<job, dec, att, err, calls>>
  BY DEF Lookup
<1>2. PICK j : j = job[t]
  OBVIOUS
<1>3. job[t] \in DOMAIN calls /\ calls[job[t]] \in Calls /\ Fp(t) \in Fingerprints
  BY <1>0, ReqFacts
<1>4. EntriesKept(t, j)
  <2>1. \A f \in Fingerprints : entries'[f] = entries[f] \/ entries'[f] = NoEntry
    BY <1>1, <1>3 DEF CacheGet, IInv, SharedOK, CacheTypeOK
  <2>. QED  BY <2>1 DEF EntriesKept, Present, NoEntry
<1>5. CASE Hit(Fp(t), at)
  <2>. DEFINE c == [calls[job[t]] EXCEPT !.answer = a]
  <2>1. calls' = [calls EXCEPT ![job[t]] = c] /\ Return(t)
    BY <1>1, <1>5
  <2>2. /\ c.req = calls[job[t]].req /\ c.created = calls[job[t]].created
        /\ c.route = calls[job[t]].route /\ c.rows = calls[job[t]].rows /\ c.answer = a
    BY <1>3 DEF Calls
  <2>3. /\ a.kind = "cached" /\ a.by = entries[Fp(t)].by /\ a.expires = entries[Fp(t)].expires
    OBVIOUS
  <2>. HIDE DEF c, a
  <2>4. HistoryKept(t) /\ calls'[job[t]] = c
    BY <1>3, <2>1, <2>2, HistoryUpdated
  <2>5. OthersKept(t) /\ pc'[t] = "idle" /\ err'[t] = None
    BY <2>1, ReturnFacts DEF Return, IInv, ThreadTypes
  <2>6. Truthful(c)
    BY <2>2, <2>3 DEF Truthful, ErrorKinds
  <2>7. PICK b, f : b = entries[Fp(t)].by /\ f = Fp(t)
    OBVIOUS
  <2>8. SourceOK(b, f)'
    <3>1. SourceOK(b, f)
      BY <1>3, <1>5, <2>7 DEF HInv, EntryOK, Hit
    <3>. QED  BY <2>4, <3>1, SourcesKept
  <2>9. a.expires > c.created
    <3>1. entries[Fp(t)].expires > at /\ entries[Fp(t)].expires \in Nat
      BY <1>3, <1>5 DEF Hit, IInv, SharedOK, CacheTypeOK
    <3>2. at >= since[t] /\ at \in Nat
      BY AtTimes, <1>0 DEF Stamps
    <3>. QED  BY <1>0, <2>2, <2>3, <3>1, <3>2, CreatedBefore
  <2>10. FromCache(j)'
    <3>1. /\ calls'[j].answer.by = b /\ calls'[j].answer.expires = a.expires
          /\ Fingerprint(calls'[j].req) = f /\ calls'[j].created = c.created
      BY <1>2, <2>2, <2>3, <2>4, <2>7 DEF Fp, Req
    <3>. QED  BY <2>8, <2>9, <3>1 DEF FromCache, SourceOK
  <2>11. calls'[j].answer.kind # "pending" /\ Audited(j)'
    BY <1>2, <2>2, <2>3, <2>4, <2>6 DEF Audited
  <2>. QED  BY <1>0, <1>2, <1>4, <2>4, <2>5, <2>10, <2>11, OwnStep
<1>6. CASE ~Hit(Fp(t), at)
  <2>1. Goto(t, "claim") /\ UNCHANGED <<job, dec, att, err, calls>>
    BY <1>1, <1>6
  <2>2. OthersKept(t) /\ pc'[t] = "claim" /\ err'[t] = err[t] /\ job'[t] = job[t]
    BY <2>1 DEF Goto, OthersKept, IInv, ThreadTypes
  <2>3. ChainOK(t)'
    BY <1>0, <2>1, <2>2, CreatedBefore DEF ChainOK, RowsSoFar, HInv
  <2>. QED  BY <1>0, <1>2, <1>4, <2>1, <2>2, <2>3, OwnStep, HistorySame
<1>. QED  BY <1>5, <1>6

-----------------------------------------------------------------------------
(***************************************************************************)
(* A new request, and the steps of no request.                             *)
(***************************************************************************)
LEMMA SubmitHistory ==
    ASSUME IInv, HInv, NEW t \in Threads, NEW r \in Requests, Submit(t, r)
    PROVE  HInv'
<1>. DEFINE c == [req |-> r, created |-> now, rows |-> <<>>,
                  answer |-> NoAnswer, cost |-> Unknown, route |-> NoRoute]
<1>0. /\ pc[t] = "idle" /\ calls' = Append(calls, c)
      /\ job' = [job EXCEPT ![t] = Len(calls) + 1]
      /\ \/ Goto(t, "rate") /\ UNCHANGED err
         \/ Raise(t, "provider_unavailable", "fail")
      /\ Touch(t) /\ UNCHANGED <<entries, dec, att>>
  BY DEF Submit, cacheVars
<1>1. c.answer.kind = "pending" /\ c.created = now /\ c.rows = <<>>
  BY DEF NoAnswer
<1>. HIDE DEF c
<1>2. PICK n : n = Len(calls) + 1
  OBVIOUS
<1>3. /\ DOMAIN calls = 1..Len(calls) /\ Len(calls) \in Nat
      /\ DOMAIN calls' = 1..n /\ calls'[n] = c
      /\ \A i \in DOMAIN calls : calls'[i] = calls[i]
  <2>. PICK S : S = Calls \cup {c}
    OBVIOUS
  <2>1. calls \in Seq(S) /\ c \in S
    <3>1. Calls \subseteq S /\ calls \in Seq(Calls)
      BY DEF IInv, SharedOK
    <3>. QED  BY <3>1
  <2>. QED  BY <1>0, <1>2, <2>1
<1>4. n \notin DOMAIN calls /\ DOMAIN calls' = DOMAIN calls \cup {n} /\ n \in Nat
  BY <1>2, <1>3
<1>5. /\ OthersKept(t) /\ job'[t] = n
      /\ \/ pc'[t] = "rate" /\ err'[t] = err[t]
         \/ pc'[t] = "fail" /\ err'[t] = "provider_unavailable"
  BY <1>0, <1>2 DEF Goto, Raise, OthersKept, IInv, ThreadTypes
<1>6. ASSUME NEW u \in Threads \ {t}
      PROVE  /\ pc'[u] = pc[u] /\ job'[u] = job[u] /\ err'[u] = err[u]
             /\ pc[u] # "idle" => job[u] \in DOMAIN calls /\ calls'[job[u]] = calls[job[u]]
  BY <1>3, <1>5 DEF OthersKept, IInv, ThreadOK
<1>7. JobsApart'
  BY <1>4, <1>5, <1>6 DEF HInv, JobsApart
<1>8. ASSUME NEW u \in Threads  PROVE ChainOK(u)'
  <2>1. CASE u = t
    <3>1. now <= since'[t] /\ err[t] = None
      <4>1. now \in Nat /\ since'[t] = now
        BY <1>0 DEF Touch, IInv, SharedOK, ClockTypeOK
      <4>2. ChainOK(t)
        BY DEF HInv
      <4>3. err[t] = None
        BY <1>0, <4>2 DEF ChainOK
      <4>. QED  BY <4>1, <4>3
    <3>. QED  BY <1>1, <1>3, <1>5, <2>1, <3>1 DEF ChainOK, RowsSoFar, None
  <2>2. CASE u # t
    <3>1. since'[u] = since[u]
      BY <1>0, <2>2 DEF Touch, IInv, SharedOK, ClockTypeOK
    <3>. QED  BY <1>6, <2>2, <3>1 DEF HInv, ChainOK, RowsSoFar
  <2>. QED  BY <2>1, <2>2
<1>9. ASSUME NEW j, NEW f, SourceOK(j, f)
      PROVE  SourceOK(j, f)' /\ calls'[j] = calls[j]
  BY <1>3, <1>4, <1>9 DEF SourceOK
<1>10. ASSUME NEW i \in DOMAIN calls'
       PROVE  Audited(i)' /\ FromCache(i)' /\ Owned(i)'
  <2>1. CASE i = n
    <3>1. calls'[i] = c /\ pc'[t] # "idle"
      BY <1>3, <1>5, <2>1
    <3>. QED  BY <1>1, <1>5, <2>1, <3>1 DEF Audited, Truthful, FromCache, Owned, ErrorKinds
  <2>2. CASE i # n
    <3>1. i \in DOMAIN calls /\ calls'[i] = calls[i]
      BY <1>3, <1>4, <2>2
    <3>2. Audited(i) /\ FromCache(i) /\ Owned(i)
      BY <3>1 DEF HInv
    <3>3. FromCache(i)'
      <4>1. PICK b, f : b = calls[i].answer.by /\ f = Fingerprint(calls[i].req)
        OBVIOUS
      <4>2. (b = calls[i].answer.by /\ f = Fingerprint(calls[i].req))'
        BY <3>1, <4>1
      <4>. QED  BY <1>9, <3>1, <3>2, <4>1, <4>2 DEF FromCache, SourceOK
    <3>4. Owned(i)'
      BY <1>0, <1>6, <3>1, <3>2 DEF Owned
    <3>. QED  BY <3>1, <3>2, <3>3, <3>4 DEF Audited
  <2>. QED  BY <2>1, <2>2
<1>11. ASSUME NEW f \in Fingerprints  PROVE EntryOK(f)'
  <2>1. PICK b : b = entries[f].by
    OBVIOUS
  <2>2. CASE Present(f)
    <3>1. SourceOK(b, f) /\ Delivered(b)
      BY <2>1, <2>2 DEF HInv, EntryOK
    <3>2. SourceOK(b, f)' /\ calls'[b] = calls[b]
      BY <1>9, <3>1
    <3>3. Delivered(b)'
      BY <1>0, <1>6, <3>1, <3>2 DEF Delivered
    <3>. QED  BY <1>0, <2>1, <3>2, <3>3 DEF EntryOK, SourceOK, Delivered
  <2>3. CASE ~Present(f)
    BY <1>0, <2>3 DEF EntryOK, Present
  <2>. QED  BY <2>2, <2>3
<1>. QED  BY <1>7, <1>8, <1>10, <1>11 DEF HInv

LEMMA NoHistoryChange ==
    ASSUME IInv, HInv, UNCHANGED <<threadVars, calls, entries>>,
           \A t \in Threads : since'[t] = since[t] \/ pc[t] = "idle"
    PROVE  HInv'
<1>1. JobsApart' /\ \A t \in Threads : ChainOK(t)'
  BY DEF HInv, JobsApart, ChainOK, RowsSoFar, threadVars
<1>2. \A i \in DOMAIN calls' : Audited(i)' /\ FromCache(i)' /\ Owned(i)'
  BY DEF HInv, Audited, FromCache, SourceOK, Owned, threadVars
<1>3. \A f \in Fingerprints : EntryOK(f)'
  BY DEF HInv, EntryOK, Present, SourceOK, Delivered, threadVars
<1>. QED  BY <1>1, <1>2, <1>3 DEF HInv

LEMMA RestartHistory ==
    ASSUME IInv, HInv, Restart
    PROVE  HInv'
<1>. DEFINE after(c) == IF c.answer.kind = "pending" THEN [c EXCEPT !.answer.kind = "lost"] ELSE c
<1>1. /\ calls' = [i \in DOMAIN calls |-> after(calls[i])]
      /\ pc' = [t \in Threads |-> "idle"]
      /\ entries' = [f \in Fingerprints |-> NoEntry]
      /\ err' = [t \in Threads |-> None]
  BY DEF Restart
<1>2. \A t \in Threads : pc'[t] = "idle" /\ err'[t] = None
  BY <1>1
<1>3. ASSUME NEW i \in DOMAIN calls
      PROVE  /\ calls'[i].req = calls[i].req /\ calls'[i].created = calls[i].created
             /\ calls'[i].route = calls[i].route /\ calls'[i].rows = calls[i].rows
             /\ calls[i].answer.kind # "pending" => calls'[i] = calls[i]
             /\ calls[i].answer.kind = "pending" => calls'[i].answer.kind = "lost"
  <2>1. calls[i] \in Calls
    BY CallTypes DEF IInv, SharedOK
  <2>. QED  BY <1>1, <2>1 DEF Calls, Answers
<1>4. DOMAIN calls' = DOMAIN calls
  BY <1>1
<1>. HIDE DEF after
<1>5. ASSUME NEW i \in DOMAIN calls'
      PROVE  Audited(i)' /\ FromCache(i)' /\ Owned(i)'
  <2>1. CASE calls[i].answer.kind = "pending"
    <3>1. calls'[i].answer.kind = "lost"
      BY <1>3, <1>4, <2>1
    <3>. QED  BY <3>1 DEF Audited, Truthful, FromCache, Owned, ErrorKinds
  <2>2. CASE calls[i].answer.kind # "pending"
    <3>1. calls'[i] = calls[i]
      BY <1>3, <1>4, <2>2
    <3>2. Audited(i) /\ FromCache(i) /\ Owned(i)
      BY <1>4 DEF HInv
    <3>3. FromCache(i)'
      <4>1. PICK b : b = calls[i].answer.by
        OBVIOUS
      <4>2. b = calls'[i].answer.by
        BY <3>1, <4>1
      <4>. QED  BY <1>3, <1>4, <3>1, <3>2, <4>1, <4>2 DEF FromCache, SourceOK
    <3>. QED  BY <2>2, <3>1, <3>2, <3>3 DEF Audited, Owned
  <2>. QED  BY <2>1, <2>2
<1>6. ASSUME NEW f \in Fingerprints  PROVE EntryOK(f)'
  <2>1. entries'[f].by = 0
    BY <1>1 DEF NoEntry
  <2>. QED  BY <2>1 DEF EntryOK, Present
<1>. QED  BY <1>2, <1>5, <1>6 DEF HInv, JobsApart, ChainOK

LEMMA InitHInv == Init => HInv
<1>. SUFFICES ASSUME Init PROVE HInv
  OBVIOUS
<1>1. (\A t \in Threads : pc[t] = "idle" /\ err[t] = None) /\ calls = <<>> /\ \A f \in Fingerprints : entries[f].by = 0
  BY DEF Init, IdleThreads, CacheInit, NoEntry
<1>2. DOMAIN calls = {}
  BY <1>1
<1>. QED  BY <1>1, <1>2 DEF HInv, JobsApart, ChainOK, EntryOK, Present

LEMMA NextHInv == IInv /\ HInv /\ [Next]_vars => HInv'
<1>. SUFFICES ASSUME IInv, HInv, [Next]_vars PROVE HInv'
  OBVIOUS
<1>1. ASSUME NEW t \in Threads, Step(t)
      PROVE  HInv'
  <2>1. ASSUME NEW kind \in Transient \cup Fatal, CallFails(t, kind) \/ CallRefused(t, kind)
        PROVE  HInv'
    <3>1. kind \in ErrorKinds
      BY DEF Transient, Fatal, ErrorKinds
    <3>. QED  BY <2>1, <3>1, AttemptFailedHistory
  <2>. QED  BY <1>1, <2>1, CheckRateHistory, LookupHistory, ClaimHistory, RouteRequestHistory,
               CheckBudgetHistory, AdmitHistory, GetProviderHistory, CallSucceedsHistory,
               AccountHistory, StoreHistory, AuditHistory, ReleaseHistory, FailHistory DEF Step
<1>2. ASSUME NEW t \in Threads, NEW r \in Requests, Submit(t, r)
      PROVE  HInv'
  BY <1>2, SubmitHistory
<1>3. ASSUME NEW t \in Threads, Status(t)
      PROVE  HInv'
  <2>1. /\ UNCHANGED <<threadVars, calls, entries>> /\ pc[t] = "idle"
        /\ \A u \in Threads : since'[u] = since[u] \/ u = t
    BY <1>3 DEF Status, cacheVars, Touch, IInv, SharedOK, ClockTypeOK
  <2>. QED  BY <2>1, NoHistoryChange
<1>4. CASE Environment
  <2>1. CASE Restart
    BY <2>1, RestartHistory
  <2>2. CASE UNCHANGED <<threadVars, calls, entries, since>>
    BY <2>2, NoHistoryChange
  <2>. QED  BY <1>4, <2>1, <2>2 DEF Environment, Quiet, vars, Disable, Enable, clockVars, cacheVars,
                                  threadVars, Tick
<1>5. CASE UNCHANGED vars
  BY <1>5, NoHistoryChange DEF vars, threadVars
<1>. QED  BY <1>1, <1>2, <1>3, <1>4, <1>5 DEF Next

(***************************************************************************)
(* What the gateway tells the audit table of a request that reached a      *)
(* provider or was refused is what it told the caller, in every            *)
(* interleaving of any number of requests, across restarts, and whether or *)
(* not the table takes the rows (AIGateway._record and _fail).             *)
(***************************************************************************)
THEOREM AuditsAreTrue == Spec => []AnswersAudited
<1>1. HInv => AnswersAudited
  BY DEF HInv, Audited, Truthful, AnswersAudited
<1>. QED  BY <1>1, InitIInv, NextIInv, InitHInv, NextHInv, PTL DEF Spec

(***************************************************************************)
(* Whatever thread filled the cache and whoever reads it: a cached answer  *)
(* was produced by a provider for the same fingerprint and had not expired *)
(* when the request it is served to arrived (ResponseCache.get and put).   *)
(***************************************************************************)
THEOREM CacheIsSound == Spec => []CachedAnswerSound
<1>1. HInv => CachedAnswerSound
  BY DEF HInv, FromCache, SourceOK, CachedAnswerSound
<1>. QED  BY <1>1, InitIInv, NextIInv, InitHInv, NextHInv, PTL DEF Spec

-----------------------------------------------------------------------------
(***************************************************************************)
(* The refinement.  What the abstract service sees of a request follows    *)
(* from where the thread that works on it is, or, once no thread does,     *)
(* from the answer it got.                                                 *)
(***************************************************************************)
StateAt(p) ==
    IF p \in Holding THEN "working" ELSE IF p = "fail" THEN "refusing" ELSE "waiting"

Verdict(kind) ==
    IF kind \in {"provider", "cached"} THEN "answered"
    ELSE IF kind = "lost" THEN "lost" ELSE "refused"

Mapped ==
    /\ \A t \in Threads, i \in DOMAIN calls :
         pc[t] # "idle" /\ job[t] = i => Outcome(i) = StateAt(pc[t])
    /\ \A i \in DOMAIN calls : calls[i].answer.kind # "pending" =>
         Outcome(i) = Verdict(calls[i].answer.kind)

LEMMA OutcomesMapped == IInv /\ HInv => Mapped
<1>. SUFFICES ASSUME IInv, HInv PROVE Mapped
  OBVIOUS
<1>1. ASSUME NEW t \in Threads, NEW i \in DOMAIN calls, pc[t] # "idle", job[t] = i
      PROVE  Outcome(i) = StateAt(pc[t])
  <2>. DEFINE Doing(where) == \E u \in Threads : job[u] = i /\ pc[u] \in where
  <2>1. \A where : "idle" \notin where => (Doing(where) <=> pc[t] \in where)
    BY <1>1 DEF HInv, JobsApart
  <2>2. pc[t] \in Holding \/ pc[t] = "fail" \/ pc[t] \in {"rate", "lookup", "claim"}
    BY <1>1 DEF IInv, ThreadTypes, PCs
  <2>3. /\ Doing(Holding) <=> pc[t] \in Holding
        /\ Doing({"fail"}) <=> pc[t] = "fail"
        /\ Doing({"rate", "lookup", "claim"}) <=> pc[t] \in {"rate", "lookup", "claim"}
    BY <2>1 DEF Holding
  <2>4. "fail" \notin Holding /\ {"rate", "lookup", "claim"} \cap Holding = {}
    BY DEF Holding
  <2>. HIDE DEF Doing
  <2>. QED
    <3>1. CASE pc[t] \in Holding
      BY <2>3, <2>4, <3>1, Zenon DEF Outcome, StateAt, Doing
    <3>2. CASE pc[t] = "fail"
      BY <2>3, <2>4, <3>2, Zenon DEF Outcome, StateAt, Doing
    <3>3. CASE pc[t] \in {"rate", "lookup", "claim"}
      BY <2>3, <2>4, <3>3, Zenon DEF Outcome, StateAt, Doing
    <3>. QED  BY <2>2, <3>1, <3>2, <3>3
<1>2. ASSUME NEW i \in DOMAIN calls, calls[i].answer.kind # "pending"
      PROVE  Outcome(i) = Verdict(calls[i].answer.kind)
  <2>. DEFINE Doing(where) == \E u \in Threads : job[u] = i /\ pc[u] \in where
  <2>1. \A t \in Threads : pc[t] # "idle" => job[t] # i
    BY <1>2 DEF HInv, ChainOK
  <2>2. ~Doing(Holding) /\ ~Doing({"fail"}) /\ ~Doing({"rate", "lookup", "claim"})
    BY <2>1 DEF Holding
  <2>. HIDE DEF Doing
  <2>. QED  BY <2>2, Zenon DEF Outcome, Verdict, Doing
<1>. QED  BY <1>1, <1>2 DEF Mapped

\* The abstract variables, as the instance of AnswerService sees them.
Asked == [i \in DOMAIN calls |-> Fingerprint(calls[i].req)]

States == [i \in DOMAIN calls |-> Outcome(i)]

LEMMA MappedAlways == IInv /\ HInv /\ IInv' /\ HInv' => Mapped /\ Mapped'
<1>1. IInv /\ HInv => Mapped
  BY OutcomesMapped
<1>. QED  BY <1>1, PTL

(***************************************************************************)
(* A step of thread t moves the outcome of its own request and of no other.*)
(***************************************************************************)
LEMMA OwnOutcome ==
    ASSUME IInv, HInv, IInv', HInv', NEW t \in Threads, pc[t] # "idle",
           NEW j, j = job[t], OthersKept(t), HistoryKept(t)
    PROVE  /\ j \in DOMAIN calls /\ DOMAIN calls' = DOMAIN calls
           /\ Asked' = Asked
           /\ States' = [States EXCEPT ![j] = Outcome(j)']
           /\ Outcome(j) = StateAt(pc[t])
           /\ pc'[t] # "idle" /\ job'[t] = j => Outcome(j)' = StateAt(pc'[t])
           /\ calls'[j].answer.kind # "pending" => Outcome(j)' = Verdict(calls'[j].answer.kind)
<1>1. Mapped /\ Mapped'
  BY MappedAlways
<1>2. j \in DOMAIN calls /\ DOMAIN calls' = DOMAIN calls
  BY DEF IInv, ThreadOK, HistoryKept
<1>3. Asked' = Asked
  <2>1. ASSUME NEW i \in DOMAIN calls  PROVE Fingerprint(calls'[i].req) = Fingerprint(calls[i].req)
    BY DEF HistoryKept
  <2>2. Asked' = [i \in DOMAIN calls |-> Fingerprint(calls'[i].req)]
    BY <1>2 DEF Asked
  <2>. QED  BY <2>1, <2>2, Zenon DEF Asked
<1>4. ASSUME NEW i \in DOMAIN calls, i # j
      PROVE  Outcome(i)' = Outcome(i)
  <2>1. calls'[i] = calls[i] /\ Owned(i)
    BY <1>4 DEF HistoryKept, HInv
  <2>2. CASE calls[i].answer.kind = "pending"
    <3>1. PICK u \in Threads : pc[u] # "idle" /\ job[u] = i
      BY <2>1, <2>2 DEF Owned
    <3>2. pc'[u] = pc[u] /\ job'[u] = job[u]
      BY <1>4, <3>1 DEF OthersKept
    <3>. QED  BY <1>1, <1>2, <3>1, <3>2 DEF Mapped
  <2>3. CASE calls[i].answer.kind # "pending"
    BY <1>1, <1>2, <2>1, <2>3 DEF Mapped
  <2>. QED  BY <2>2, <2>3
<1>5. States' = [States EXCEPT ![j] = Outcome(j)']
  <2>1. \A i \in DOMAIN calls : States'[i] = IF i = j THEN Outcome(j)' ELSE States[i]
    BY <1>2, <1>4 DEF States
  <2>2. DOMAIN States = DOMAIN calls /\ DOMAIN States' = DOMAIN calls
    BY <1>2 DEF States
  <2>3. States = [i \in DOMAIN States |-> States[i]] /\ States' = [i \in DOMAIN States' |-> States'[i]]
    BY DEF States
  <2>. HIDE DEF States
  <2>. QED  BY <1>2, <2>1, <2>2, <2>3
<1>. QED  BY <1>1, <1>2, <1>3, <1>5 DEF Mapped

\* A step within the same abstract state is a stutter of the service.
LEMMA StaysPut ==
    ASSUME IInv, HInv, IInv', HInv', NEW t \in Threads, pc[t] # "idle",
           OthersKept(t), HistoryKept(t), job'[t] = job[t], pc'[t] # "idle",
           StateAt(pc'[t]) = StateAt(pc[t])
    PROVE  UNCHANGED <<Asked, States>>
<1>1. PICK j : j = job[t]
  OBVIOUS
<1>2. /\ j \in DOMAIN calls
      /\ Asked' = Asked
      /\ States' = [States EXCEPT ![j] = Outcome(j)']
      /\ Outcome(j) = StateAt(pc[t])
      /\ Outcome(j)' = StateAt(pc'[t])
  BY <1>1, OwnOutcome
<1>3. States' = [States EXCEPT ![j] = Outcome(j)]
  BY <1>2
<1>4. States' = States
  BY <1>2, <1>3 DEF States
<1>. QED  BY <1>2, <1>4

LEMMA HistoryOf ==
    ASSUME IInv, NEW t \in Threads, pc[t] # "idle", NEW x,
           \/ UNCHANGED calls
           \/ calls' = [calls EXCEPT ![job[t]].rows = x]
           \/ calls' = [calls EXCEPT ![job[t]].answer = x]
    PROVE  HistoryKept(t)
<1>1. job[t] \in DOMAIN calls /\ calls[job[t]] \in Calls
  BY ReqFacts
<1>2. CASE UNCHANGED calls
  BY <1>2, HistorySame
<1>3. CASE calls' = [calls EXCEPT ![job[t]].rows = x]
  BY <1>1, <1>3 DEF HistoryKept, Calls
<1>4. CASE calls' = [calls EXCEPT ![job[t]].answer = x]
  BY <1>1, <1>4 DEF HistoryKept, Calls
<1>. QED  BY <1>2, <1>3, <1>4

LEMMA WorkingStutters ==
    ASSUME IInv, HInv, IInv', HInv', NEW t \in Threads,
           \/ RouteRequest(t) \/ CheckBudget(t) \/ Admit(t) \/ GetProvider(t)
           \/ \E u \in Usages : CallSucceeds(t, u)
           \/ \E k \in Transient : CallFails(t, k)
           \/ \E k \in Fatal : CallRefused(t, k)
           \/ Account(t) \/ Store(t) \/ Audit(t)
    PROVE  UNCHANGED <<Asked, States>>
<1>1. /\ pc[t] \in Holding /\ job' = job
      /\ UNCHANGED dec \/ \E d : dec' = [dec EXCEPT ![t] = d]
      /\ UNCHANGED att \/ \E d : att' = [att EXCEPT ![t] = d]
      /\ UNCHANGED err \/ \E d : err' = [err EXCEPT ![t] = d]
      /\ UNCHANGED pc \/ \E p \in Holding : pc' = [pc EXCEPT ![t] = p]
      /\ \/ \E x : calls' = calls \/ calls' = [calls EXCEPT ![job[t]].rows = x]
         \/ \E u \in Usages : CallSucceeds(t, u)
  BY Zenon DEF RouteRequest, CheckBudget, Admit, GetProvider, CallSucceeds, CallFails,
            CallRefused, Account, Store, Audit, Attempt, Raise, Goto, Holding
<1>2. OthersKept(t) /\ pc'[t] \in Holding /\ pc[t] # "idle" /\ pc'[t] # "idle"
  BY <1>1 DEF OthersKept, IInv, ThreadTypes, Holding
<1>3. HistoryKept(t)
  <2>1. CASE \E u \in Usages : CallSucceeds(t, u)
    <3>1. job[t] \in DOMAIN calls /\ calls[job[t]] \in Calls /\ dec[t].model # 0
      BY <1>2, <2>1, ReqFacts DEF IInv, ThreadOK, Decided, CallSucceeds
    <3>2. PICK cost : calls' = [calls EXCEPT ![job[t]].cost = cost, ![job[t]].route = dec[t]]
      BY <2>1 DEF CallSucceeds
    <3>. QED  BY <3>1, <3>2 DEF HistoryKept, Calls
  <2>. QED  BY <1>1, <1>2, <2>1, HistoryOf
<1>. QED  BY <1>1, <1>2, <1>3, StaysPut DEF StateAt

(***************************************************************************)
(* The abstract steps of a request, in terms of Asked and States.          *)
(***************************************************************************)
LEMMA ServiceStep ==
    ASSUME NEW i \in DOMAIN calls,
           Service!Start(i) \/ Service!Refuse(i) \/ Service!Answer(i) \/ Service!Reuse(i)
    PROVE  Service!Next
<1>1. i \in DOMAIN [j \in DOMAIN calls |-> Fingerprint(calls[j].req)]
  OBVIOUS
<1>. QED  BY <1>1 DEF Service!Next

LEMMA Steps ==
    ASSUME NEW i \in DOMAIN calls, NEW s,
           Asked' = Asked, States' = [States EXCEPT ![i] = s],
           \/ /\ s = "working" /\ Outcome(i) = "waiting"
              /\ \A j \in DOMAIN calls : Asked[j] = Asked[i] => Outcome(j) # "working"
           \/ s = "refusing" /\ Outcome(i) \in {"waiting", "working"}
           \/ s = "refused" /\ Outcome(i) = "refusing"
           \/ s = "answered" /\ Outcome(i) = "working"
           \/ /\ s = "answered" /\ Outcome(i) = "waiting"
              /\ \E j \in DOMAIN calls :
                   Asked[j] = Asked[i] /\ Outcome(j) \in {"working", "answered"}
    PROVE  Service!Next
<1>1. /\ DOMAIN Asked = DOMAIN calls
      /\ \A j \in DOMAIN calls : States[j] = Outcome(j)
  BY DEF Asked, States
<1>2. CASE /\ s = "working" /\ Outcome(i) = "waiting"
           /\ \A j \in DOMAIN calls : Asked[j] = Asked[i] => Outcome(j) # "working"
  <2>1. Service!Start(i)
    BY <1>1, <1>2 DEF Service!Start, Service!Become, Asked, States
  <2>. QED  BY <2>1, ServiceStep
<1>3. CASE \/ s = "refusing" /\ Outcome(i) \in {"waiting", "working"}
           \/ s = "refused" /\ Outcome(i) = "refusing"
  <2>1. Service!Refuse(i)
    BY <1>1, <1>3 DEF Service!Refuse, Service!Become, Asked, States
  <2>. QED  BY <2>1, ServiceStep
<1>4. CASE s = "answered" /\ Outcome(i) = "working"
  <2>1. Service!Answer(i)
    BY <1>1, <1>4 DEF Service!Answer, Service!Become, Asked, States
  <2>. QED  BY <2>1, ServiceStep
<1>5. CASE /\ s = "answered" /\ Outcome(i) = "waiting"
           /\ \E j \in DOMAIN calls :
                Asked[j] = Asked[i] /\ Outcome(j) \in {"working", "answered"}
  <2>1. Service!Reuse(i)
    BY <1>1, <1>5 DEF Service!Reuse, Service!Become, Asked, States
  <2>. QED  BY <2>1, ServiceStep
<1>. QED  BY <1>2, <1>3, <1>4, <1>5

LEMMA CheckRateImplements ==
    ASSUME IInv, HInv, IInv', HInv', NEW t \in Threads, CheckRate(t)
    PROVE  Service!Next \/ UNCHANGED <<Asked, States>>
<1>1. /\ pc[t] = "rate" /\ UNCHANGED <<job, dec, att, calls>>
      /\ \/ Goto(t, "lookup") /\ UNCHANGED err
         \/ Raise(t, "rate_limit_exceeded", "fail")
  BY DEF CheckRate
<1>2. OthersKept(t) /\ HistoryKept(t) /\ pc'[t] \in {"lookup", "fail"} /\ job'[t] = job[t]
  BY <1>1, HistorySame DEF Goto, Raise, OthersKept, IInv, ThreadTypes
<1>3. CASE pc'[t] = "lookup"
  BY <1>1, <1>2, <1>3, StaysPut DEF StateAt, Holding
<1>4. CASE pc'[t] = "fail"
  <2>1. PICK j : j = job[t]
    OBVIOUS
  <2>2. /\ j \in DOMAIN calls /\ Asked' = Asked
        /\ States' = [States EXCEPT ![j] = Outcome(j)']
        /\ Outcome(j) = "waiting" /\ Outcome(j)' = "refusing"
    BY <1>1, <1>2, <1>4, <2>1, OwnOutcome DEF StateAt, Holding
  <2>. QED  BY <2>2, Steps
<1>. QED  BY <1>2, <1>3, <1>4

LEMMA ClaimImplements ==
    ASSUME IInv, HInv, IInv', HInv', NEW t \in Threads, Claim(t)
    PROVE  Service!Next
<1>1. /\ pc[t] = "claim" /\ UNCHANGED <<job, dec, att, calls>>
      /\ \/ Fp(t) \notin inFlight /\ Goto(t, "route") /\ UNCHANGED err
         \/ Raise(t, "provider_unavailable", "fail")
  BY DEF Claim, CacheBegin
<1>2. /\ OthersKept(t) /\ HistoryKept(t) /\ job'[t] = job[t]
      /\ \/ Fp(t) \notin inFlight /\ pc'[t] = "route"
         \/ pc'[t] = "fail"
  BY <1>1, HistorySame DEF Goto, Raise, OthersKept, IInv, ThreadTypes
<1>3. PICK j : j = job[t]
  OBVIOUS
<1>4. /\ j \in DOMAIN calls /\ Asked' = Asked
      /\ States' = [States EXCEPT ![j] = Outcome(j)']
      /\ Outcome(j) = "waiting" /\ Outcome(j)' = StateAt(pc'[t])
  BY <1>1, <1>2, <1>3, OwnOutcome DEF StateAt, Holding
<1>5. CASE Fp(t) \notin inFlight /\ pc'[t] = "route"
  <2>1. Outcome(j)' = "working"
    BY <1>4, <1>5 DEF StateAt, Holding
  <2>2. ASSUME NEW i \in DOMAIN calls, Asked[i] = Asked[j]
        PROVE  Outcome(i) # "working"
    <3>1. Fingerprint(calls[i].req) = Fp(t)
      BY <1>3, <1>4, <2>2 DEF Asked, Fp, Req
    <3>2. CASE calls[i].answer.kind = "pending"
      <4>1. PICK u \in Threads : pc[u] # "idle" /\ job[u] = i
        BY <3>2 DEF HInv, Owned
      <4>2. pc[u] \notin Holding
        BY <1>5, <3>1, <4>1 DEF IInv, ClaimsOK, NoLeakedClaim, Fp, Req
      <4>3. Outcome(i) = StateAt(pc[u])
        BY <4>1, MappedAlways DEF Mapped
      <4>. QED  BY <4>2, <4>3 DEF StateAt
    <3>3. CASE calls[i].answer.kind # "pending"
      BY <3>3, MappedAlways DEF Mapped, Verdict
    <3>. QED  BY <3>2, <3>3
  <2>. QED  BY <1>4, <2>1, <2>2, Steps
<1>6. CASE pc'[t] = "fail"
  <2>1. Outcome(j)' = "refusing"
    BY <1>4, <1>6 DEF StateAt, Holding
  <2>. QED  BY <1>4, <2>1, Steps
<1>. QED  BY <1>2, <1>5, <1>6

LEMMA LookupImplements ==
    ASSUME IInv, HInv, IInv', HInv', NEW t \in Threads, Lookup(t)
    PROVE  Service!Next \/ UNCHANGED <<Asked, States>>
<1>. DEFINE a == [kind |-> "cached", by |-> entries[Fp(t)].by, expires |-> entries[Fp(t)].expires]
<1>1. PICK at \in Stamps(t) :
        IF Hit(Fp(t), at)
          THEN calls' = [calls EXCEPT ![job[t]].answer = a] /\ Return(t)
          ELSE Goto(t, "claim") /\ UNCHANGED <<job, dec, att, err, calls>>
  BY DEF Lookup
<1>2. /\ pc[t] = "lookup" /\ job[t] \in DOMAIN calls /\ calls[job[t]] \in Calls
      /\ Fp(t) \in Fingerprints
  BY ReqFacts DEF Lookup
<1>3. CASE ~Hit(Fp(t), at)
  <2>1. Goto(t, "claim") /\ UNCHANGED <<job, dec, att, err, calls>>
    BY <1>1, <1>3
  <2>2. OthersKept(t) /\ HistoryKept(t) /\ pc'[t] = "claim" /\ job'[t] = job[t]
    BY <2>1, HistorySame DEF Goto, OthersKept, IInv, ThreadTypes
  <2>. QED  BY <1>2, <2>2, StaysPut DEF StateAt, Holding
<1>4. CASE Hit(Fp(t), at)
  <2>1. PICK j, b : j = job[t] /\ b = entries[Fp(t)].by
    OBVIOUS
  <2>2. calls' = [calls EXCEPT ![job[t]].answer = a] /\ Return(t) /\ a.kind = "cached"
    BY <1>1, <1>4
  <2>. HIDE DEF a
  <2>3. OthersKept(t) /\ HistoryKept(t) /\ pc'[t] = "idle" /\ calls'[j].answer.kind = "cached"
    <3>1. OthersKept(t) /\ pc'[t] = "idle"
      BY <2>2, ReturnFacts DEF Return, IInv, ThreadTypes
    <3>2. HistoryKept(t)
      BY <1>2, <2>2, HistoryOf
    <3>3. calls'[j].answer = a
      BY <1>2, <2>1, <2>2 DEF Calls
    <3>. QED  BY <2>2, <3>1, <3>2, <3>3
  <2>4. /\ j \in DOMAIN calls /\ Asked' = Asked
        /\ States' = [States EXCEPT ![j] = Outcome(j)']
        /\ Outcome(j) = "waiting" /\ Outcome(j)' = "answered"
    BY <1>2, <2>1, <2>3, OwnOutcome DEF StateAt, Verdict, Holding
  <2>5. SourceOK(b, Fp(t)) /\ Delivered(b)
    BY <1>2, <1>4, <2>1 DEF HInv, EntryOK, Hit
  <2>6. b \in DOMAIN calls /\ Asked[b] = Asked[j]
    BY <2>1, <2>4, <2>5 DEF SourceOK, Asked, Fp, Req
  <2>7. Outcome(b) \in {"working", "answered"}
    <3>1. CASE calls[b].answer.kind = "provider"
      BY <2>6, <3>1, MappedAlways DEF Mapped, Verdict
    <3>2. CASE \E u \in Threads : job[u] = b /\ pc[u] \in {"audit", "release"}
      BY <2>6, <3>2, MappedAlways DEF Mapped, StateAt, Holding
    <3>. QED  BY <2>5, <3>1, <3>2 DEF Delivered
  <2>. QED  BY <2>4, <2>6, <2>7, Steps
<1>. QED  BY <1>3, <1>4

LEMMA ReleaseImplements ==
    ASSUME IInv, HInv, IInv', HInv', NEW t \in Threads, Release(t)
    PROVE  Service!Next
<1>1. PICK j : j = job[t]
  OBVIOUS
<1>2. pc[t] = "release" /\ job[t] \in DOMAIN calls /\ calls[job[t]] \in Calls
  BY ReqFacts DEF Release
<1>3. CASE err[t] = None
  <2>. DEFINE a == [kind |-> "provider", by |-> job[t], expires |-> 0]
  <2>1. calls' = [calls EXCEPT ![job[t]].answer = a] /\ Return(t) /\ a.kind = "provider"
    BY <1>3 DEF Release
  <2>. HIDE DEF a
  <2>2. OthersKept(t) /\ HistoryKept(t) /\ pc'[t] = "idle" /\ calls'[j].answer.kind = "provider"
    <3>1. OthersKept(t) /\ pc'[t] = "idle"
      BY <2>1, ReturnFacts DEF Return, IInv, ThreadTypes
    <3>2. HistoryKept(t)
      BY <1>2, <2>1, HistoryOf
    <3>3. calls'[j].answer = a
      BY <1>1, <1>2, <2>1 DEF Calls
    <3>. QED  BY <2>1, <3>1, <3>2, <3>3
  <2>3. /\ j \in DOMAIN calls /\ Asked' = Asked
        /\ States' = [States EXCEPT ![j] = Outcome(j)']
        /\ Outcome(j) = "working" /\ Outcome(j)' = "answered"
    BY <1>1, <1>2, <2>2, OwnOutcome DEF StateAt, Verdict, Holding
  <2>. QED  BY <2>3, Steps
<1>4. CASE err[t] # None
  <2>1. Goto(t, "fail") /\ UNCHANGED <<job, dec, att, err, calls>>
    BY <1>4 DEF Release
  <2>2. OthersKept(t) /\ HistoryKept(t) /\ pc'[t] = "fail" /\ job'[t] = job[t]
    BY <2>1, HistorySame DEF Goto, OthersKept, IInv, ThreadTypes
  <2>3. /\ j \in DOMAIN calls /\ Asked' = Asked
        /\ States' = [States EXCEPT ![j] = Outcome(j)']
        /\ Outcome(j) = "working" /\ Outcome(j)' = "refusing"
    BY <1>1, <1>2, <2>2, OwnOutcome DEF StateAt, Holding
  <2>. QED  BY <2>3, Steps
<1>. QED  BY <1>3, <1>4

LEMMA FailImplements ==
    ASSUME IInv, HInv, IInv', HInv', NEW t \in Threads, Fail(t)
    PROVE  Service!Next
<1>. DEFINE a == [NoAnswer EXCEPT !.kind = err[t]]
<1>1. PICK j : j = job[t]
  OBVIOUS
<1>2. PICK rows \in Recorded(t, err[t], Unknown) :
        calls' = [calls EXCEPT ![job[t]].rows = rows, ![job[t]].answer = a]
  BY DEF Fail
<1>3. /\ pc[t] = "fail" /\ job[t] \in DOMAIN calls /\ calls[job[t]] \in Calls
      /\ err[t] \in ErrorKinds /\ Return(t)
  BY ReqFacts DEF Fail, IInv, ThreadOK, ThreadTypes
<1>4. OthersKept(t) /\ HistoryKept(t) /\ pc'[t] = "idle" /\ calls'[j].answer.kind = err[t]
  <2>1. OthersKept(t) /\ pc'[t] = "idle"
    BY <1>3, ReturnFacts DEF Return, IInv, ThreadTypes
  <2>2. a.kind = err[t]
    BY DEF NoAnswer
  <2>. HIDE DEF a
  <2>3. HistoryKept(t) /\ calls'[j].answer = a
    BY <1>1, <1>2, <1>3 DEF HistoryKept, Calls
  <2>. QED  BY <2>1, <2>2, <2>3
<1>5. /\ j \in DOMAIN calls /\ Asked' = Asked
      /\ States' = [States EXCEPT ![j] = Outcome(j)']
      /\ Outcome(j) = "refusing" /\ Outcome(j)' = "refused"
  BY <1>1, <1>3, <1>4, OwnOutcome DEF StateAt, Verdict, Holding, ErrorKinds
<1>. QED  BY <1>5, Steps

LEMMA SubmitImplements ==
    ASSUME IInv, HInv, IInv', HInv', NEW t \in Threads, NEW r \in Requests, Submit(t, r)
    PROVE  Service!Next
<1>. DEFINE c == [req |-> r, created |-> now, rows |-> <<>>,
                  answer |-> NoAnswer, cost |-> Unknown, route |-> NoRoute]
<1>0. /\ pc[t] = "idle" /\ calls' = Append(calls, c) /\ c.req = r
      /\ job' = [job EXCEPT ![t] = Len(calls) + 1]
      /\ \E p \in {"rate", "fail"} : pc' = [pc EXCEPT ![t] = p]
  BY DEF Submit, Raise, Goto
<1>. HIDE DEF c
<1>1. PICK n : n = Len(calls) /\ n \in Nat
  BY LenProperties DEF IInv, SharedOK
<1>2. /\ DOMAIN calls = 1..n /\ DOMAIN calls' = 1..(n + 1) /\ calls'[n + 1] = c
      /\ \A i \in 1..n : calls'[i] = calls[i]
  <2>. PICK S : S = Calls \cup {c}
    OBVIOUS
  <2>1. calls \in Seq(S) /\ c \in S
    <3>1. Calls \subseteq S /\ calls \in Seq(Calls)
      BY DEF IInv, SharedOK
    <3>. QED  BY <3>1
  <2>. QED  BY <1>0, <1>1, <2>1
<1>3. /\ pc'[t] \in {"rate", "fail"} /\ job'[t] = n + 1
      /\ \A u \in Threads \ {t} : pc'[u] = pc[u] /\ job'[u] = job[u]
  BY <1>0, <1>1 DEF IInv, ThreadTypes
<1>4. ASSUME NEW i \in 1..n
      PROVE  Outcome(i)' = Outcome(i)
  <2>0. i \in DOMAIN calls /\ i \in DOMAIN calls' /\ calls'[i] = calls[i] /\ Owned(i)
    BY <1>1, <1>2 DEF HInv
  <2>1. CASE calls[i].answer.kind = "pending"
    <3>1. PICK u \in Threads : pc[u] # "idle" /\ job[u] = i
      BY <2>0, <2>1 DEF Owned
    <3>2. pc'[u] = pc[u] /\ job'[u] = job[u]
      BY <1>0, <1>3, <3>1
    <3>. QED  BY <2>0, <3>1, <3>2, MappedAlways DEF Mapped
  <2>2. CASE calls[i].answer.kind # "pending"
    BY <2>0, <2>2, MappedAlways DEF Mapped
  <2>. QED  BY <2>1, <2>2
<1>5. PICK m : m = n + 1
  OBVIOUS
<1>6. Outcome(m)' \in {"waiting", "refusing"}
  <2>1. m \in DOMAIN calls' /\ job'[t] = m /\ pc'[t] \in {"rate", "fail"}
    BY <1>1, <1>2, <1>3, <1>5
  <2>2. Outcome(m)' = StateAt(pc'[t])
    BY <2>1, MappedAlways DEF Mapped
  <2>. QED  BY <2>1, <2>2 DEF StateAt, Holding
<1>7. Asked' = Append(Asked, Fingerprint(r))
  <2>1. PICK S : S = {Asked[i] : i \in 1..n} \cup {Asked'[i] : i \in 1..(n + 1)}
    OBVIOUS
  <2>4. Asked \in [1..n -> S] /\ Asked' \in [1..(n + 1) -> S]
    BY <1>2, <2>1 DEF Asked
  <2>2. \A i \in 1..n : Asked'[i] = Asked[i]
    <3>1. ASSUME NEW i \in 1..n  PROVE i \in DOMAIN calls /\ i \in DOMAIN calls' /\ calls'[i] = calls[i]
      BY <1>1, <1>2
    <3>. QED  BY <3>1 DEF Asked
  <2>3. Asked'[n + 1] = Fingerprint(r)
    BY <1>0, <1>1, <1>2 DEF Asked
  <2>. HIDE DEF Asked
  <2>. QED  BY <1>1, <1>5, <2>2, <2>3, <2>4, AppendedOne
<1>8. States' = Append(States, Outcome(m)')
  <2>1. PICK S : S = {States[i] : i \in 1..n} \cup {States'[i] : i \in 1..(n + 1)}
    OBVIOUS
  <2>4. States \in [1..n -> S] /\ States' \in [1..(n + 1) -> S]
    BY <1>2, <2>1 DEF States
  <2>2. ASSUME NEW i \in 1..n  PROVE States'[i] = States[i]
    <3>1. i \in DOMAIN calls /\ i \in DOMAIN calls'
      BY <1>1, <1>2
    <3>. QED  BY <1>4, <3>1 DEF States
  <2>3. States'[m] = Outcome(m)'
    BY <1>1, <1>2, <1>5 DEF States
  <2>. HIDE DEF States
  <2>. QED  BY <1>1, <1>5, <2>2, <2>3, <2>4, AppendedOne
<1>9. Fingerprint(r) \in Fingerprints
  OBVIOUS
<1>10. Service!Ask(Fingerprint(r))
  BY <1>6, <1>7, <1>8 DEF Service!Ask, Asked, States
<1>. QED  BY <1>9, <1>10 DEF Service!Next

LEMMA RestartImplements ==
    ASSUME IInv, HInv, IInv', HInv', Restart
    PROVE  Service!Next
<1>1. /\ calls' = [i \in DOMAIN calls |->
                     IF calls[i].answer.kind = "pending"
                     THEN [calls[i] EXCEPT !.answer.kind = "lost"] ELSE calls[i]]
      /\ DOMAIN calls' = DOMAIN calls
  BY DEF Restart
<1>2. ASSUME NEW i \in DOMAIN calls
      PROVE  /\ calls'[i].req = calls[i].req
             /\ calls[i].answer.kind # "pending" => calls'[i] = calls[i]
             /\ calls[i].answer.kind = "pending" => calls'[i].answer.kind = "lost"
  <2>1. calls[i] \in Calls
    BY CallTypes DEF IInv, SharedOK
  <2>. QED  BY <1>1, <2>1 DEF Calls, Answers
<1>3. Asked' = Asked
  <2>1. Asked' = [i \in DOMAIN calls |-> Fingerprint(calls'[i].req)]
    BY <1>1 DEF Asked
  <2>. QED  BY <1>2, <2>1, Zenon DEF Asked
<1>4. ASSUME NEW i \in DOMAIN calls
      PROVE  Outcome(i)' = IF Outcome(i) \in {"waiting", "working", "refusing"}
                           THEN "lost" ELSE Outcome(i)
  <2>0. i \in DOMAIN calls'
    BY <1>1
  <2>1. CASE calls[i].answer.kind = "pending"
    <3>1. PICK u \in Threads : pc[u] # "idle" /\ job[u] = i
      BY <2>1 DEF HInv, Owned
    <3>2. Outcome(i) \in {"waiting", "working", "refusing"}
      BY <3>1, MappedAlways DEF Mapped, StateAt
    <3>3. Outcome(i)' = "lost"
      BY <1>2, <2>0, <2>1, MappedAlways DEF Mapped, Verdict
    <3>. QED  BY <3>2, <3>3
  <2>2. CASE calls[i].answer.kind # "pending"
    <3>1. Outcome(i)' = Outcome(i) /\ Outcome(i) \in {"answered", "lost", "refused"}
      BY <1>2, <2>0, <2>2, MappedAlways DEF Mapped, Verdict
    <3>. QED  BY <3>1
  <2>. QED  BY <2>1, <2>2
<1>5. States' = [i \in DOMAIN States |->
                   IF States[i] \in {"waiting", "working", "refusing"}
                   THEN "lost" ELSE States[i]]
  <2>1. States' = [i \in DOMAIN calls |-> Outcome(i)']
    BY <1>1 DEF States
  <2>2. DOMAIN States = DOMAIN calls /\ \A i \in DOMAIN calls : States[i] = Outcome(i)
    BY DEF States
  <2>. QED  BY <1>4, <2>1, <2>2
<1>6. Service!Crash
  BY <1>3, <1>5 DEF Service!Crash, Service!Undecided, Asked, States
<1>. QED  BY <1>6 DEF Service!Next

LEMMA NothingHappens ==
    ASSUME UNCHANGED <<pc, job, calls>>
    PROVE  UNCHANGED <<Asked, States>>
<1>1. \A i : Outcome(i)' = Outcome(i)
  BY DEF Outcome
<1>. QED  BY <1>1 DEF Asked, States

(***************************************************************************)
(* Every step of the gateway is a step of the answer service, or none.     *)
(***************************************************************************)
LEMMA NextImplements ==
    IInv /\ HInv /\ IInv' /\ HInv' /\ [Next]_vars => Service!Next \/ UNCHANGED <<Asked, States>>
<1>. SUFFICES ASSUME IInv, HInv, IInv', HInv', [Next]_vars
              PROVE  Service!Next \/ UNCHANGED <<Asked, States>>
  OBVIOUS
<1>1. ASSUME NEW t \in Threads, Step(t)
      PROVE  Service!Next \/ UNCHANGED <<Asked, States>>
  BY <1>1, WorkingStutters, CheckRateImplements, LookupImplements, ClaimImplements,
     ReleaseImplements, FailImplements DEF Step
<1>2. ASSUME NEW t \in Threads, NEW r \in Requests, Submit(t, r)
      PROVE  Service!Next
  BY <1>2, SubmitImplements
<1>3. CASE Restart
  BY <1>3, RestartImplements
<1>4. CASE UNCHANGED <<pc, job, calls>>
  BY <1>4, NothingHappens
<1>. QED  BY <1>1, <1>2, <1>3, <1>4 DEF Next, Environment, Status, Quiet, Disable, Enable, vars, threadVars

(***************************************************************************)
(* Every behaviour of the gateway (AIGateway.invoke on any number of       *)
(* threads, with restarts) is one of the abstract answer service: one      *)
(* outcome per request, one provider call at a time per question, and no   *)
(* reused answer that nobody worked for.                                   *)
(***************************************************************************)
THEOREM GatewayImplementsService == Spec => ImplementsAnswerService
<1>1. Init => Service!Init
  <2>. SUFFICES ASSUME Init PROVE Service!Init
    OBVIOUS
  <2>1. calls = <<>> /\ DOMAIN calls = {}
    BY DEF Init
  <2>2. Asked = <<>> /\ States = <<>>
    BY <2>1 DEF Asked, States
  <2>. QED  BY <2>2 DEF Service!Init, Asked, States
<1>2. IInv /\ HInv /\ IInv' /\ HInv' /\ [Next]_vars => [Service!Next]_<<Asked, States>>
  BY NextImplements
<1>. QED  BY <1>1, <1>2, InitIInv, NextIInv, InitHInv, NextHInv, PTL
          DEF Spec, ImplementsAnswerService, Service!Spec, Asked, States
=============================================================================
