------------------------------ MODULE AIGateway ------------------------------
(***************************************************************************)
(* AIGateway.invoke (ai/gateway.py): the one path every AI call takes.     *)
(* The API runs its handlers in a thread pool and all of them share one    *)
(* gateway, so the model has a program counter per thread and one action   *)
(* per step that touches shared state: each is one critical section of a   *)
(* governance lock, one provider attempt, or one audit row.  Between two   *)
(* steps of a thread the others run, the clock moves, an operator takes a  *)
(* provider in or out of rotation, and the process may restart.            *)
(*                                                                         *)
(*   rate -> lookup -> claim -> route -> budget -> admit -> get -> call    *)
(*        -> account -> store -> audit -> release -> idle                  *)
(*                                                                         *)
(* Every refusal sets err: before the claim it goes to fail, after it to   *)
(* release (the `finally` of _invoke) and then to fail.                    *)
(*                                                                         *)
(* `calls` is the history of requests: what was asked, when, the rows the  *)
(* gateway handed to the audit table for it, each with whether the table   *)
(* took it (stored), and the answer returned.                              *)
(***************************************************************************)
EXTENDS AIRouter, AIPricing, RateLimiter, BudgetLedger, ResponseCache

CONSTANTS
    AiEnabled,              \* settings.ai_enabled
    AllowUnpriced,          \* settings.ai_allow_unpriced_models
    Usages,                 \* token counts a provider may report
    AuditMayFail,           \* whether the audit database may reject a row
    MaxRequests,            \* bound on requests submitted
    MaxRestarts,            \* bound on process restarts
    Operated                \* providers an operator takes in and out of rotation

ASSUME GatewayAssumption ==
    /\ {AiEnabled, AllowUnpriced, AuditMayFail} \subseteq BOOLEAN
    /\ Usages \subseteq Usage
    /\ MaxRequests \in Nat /\ MaxRestarts \in Nat
    /\ Operated \subseteq Providers
    /\ Ttl \in [Tasks -> Nat]
    /\ \A r \in Requests : /\ <<r.principal, r.task>> \in RateKeys
                           /\ Fingerprint(r) \in Fingerprints

VARIABLES
    pc,                     \* where each thread is in the chain
    job,                    \* the request each thread works on (position in calls)
    dec,                    \* its routing decision
    att,                    \* provider attempts made so far
    err,                    \* the error being raised, or None
    calls,                  \* every request submitted, with its rows and answer
    disabled,               \* AIProviderRegistry._disabled
    restarts                \* how often the process restarted

threadVars == <<pc, job, dec, att, err>>

vars == <<now, since, hits, head, ledger, start, entries, inFlight,
          pc, job, dec, att, err, calls, disabled, restarts>>

Holding == {"route", "budget", "admit", "get", "call", "account", "store",
            "audit", "release"}

PCs == {"idle", "rate", "lookup", "claim", "fail"} \cup Holding

ErrorKinds == {"provider_unavailable", "rate_limit_exceeded", "no_route",
               "budget_exceeded", "invalid_response", "provider_auth",
               "rate_limited", "internal_error"}

Rows == [kind : ErrorKinds \cup {"success"}, cost : Costs, stored : BOOLEAN]

NoAnswer == [kind |-> "pending", by |-> 0, expires |-> 0]

Answers == [kind : ErrorKinds \cup {"pending", "lost", "provider", "cached"},
            by : Nat, expires : Nat]

Calls == [req : Requests, created : 0..MaxTime, rows : Seq(Rows), answer : Answers,
          cost : Costs, route : Decisions]

TypeOK ==
    /\ ClockTypeOK /\ RateTypeOK /\ LedgerTypeOK /\ CacheTypeOK
    /\ pc \in [Threads -> PCs]
    /\ job \in [Threads -> Nat]
    /\ dec \in [Threads -> Decisions]
    /\ att \in [Threads -> 0..MAX_ATTEMPTS_CEILING]
    /\ err \in [Threads -> ErrorKinds \cup {None}]
    /\ calls \in Seq(Calls)
    /\ disabled \subseteq Providers
    /\ restarts \in Nat
    /\ \A t \in Threads : pc[t] # "idle" => job[t] \in DOMAIN calls

Req(t) == calls[job[t]].req

Fp(t) == Fingerprint(Req(t))

RateKey(t) == <<Req(t).principal, Req(t).task>>

ModelOf(t) == ModelList[dec[t].model]

Projected(t) == Project(ModelOf(t).name, Req(t).size, Req(t).maxOut)

IdleThreads ==
    /\ pc = [t \in Threads |-> "idle"]
    /\ job = [t \in Threads |-> 0]
    /\ dec = [t \in Threads |-> NoRoute]
    /\ att = [t \in Threads |-> 0]
    /\ err = [t \in Threads |-> None]

Init ==
    /\ ClockInit /\ RateInit /\ LedgerInit /\ CacheInit
    /\ IdleThreads
    /\ calls = <<>>
    /\ disabled = {}
    /\ restarts = 0

-----------------------------------------------------------------------------
Goto(t, to) == pc' = [pc EXCEPT ![t] = to]

Raise(t, kind, to) == err' = [err EXCEPT ![t] = kind] /\ Goto(t, to)

\* The thread returns to the pool.
Return(t) ==
    /\ pc' = [pc EXCEPT ![t] = "idle"]
    /\ job' = [job EXCEPT ![t] = 0]
    /\ dec' = [dec EXCEPT ![t] = NoRoute]
    /\ att' = [att EXCEPT ![t] = 0]
    /\ err' = [err EXCEPT ![t] = None]

(***************************************************************************)
(* _record: the rows of a request after one more is handed over.  A        *)
(* failure of the audit database is logged and swallowed.                  *)
(***************************************************************************)
Recorded(t, kind, cost) ==
    {Append(calls[job[t]].rows, [kind |-> kind, cost |-> cost, stored |-> stored])
       : stored \in IF AuditMayFail THEN BOOLEAN ELSE {TRUE}}

Frame == UNCHANGED <<disabled, restarts>>

\* invoke: the request enters the chain, unless AI is switched off.
Submit(t, r) ==
    /\ pc[t] = "idle" /\ Len(calls) < MaxRequests
    /\ calls' = Append(calls, [req |-> r, created |-> now, rows |-> <<>>,
                               answer |-> NoAnswer, cost |-> Unknown, route |-> NoRoute])
    /\ job' = [job EXCEPT ![t] = Len(calls) + 1]
    /\ IF AiEnabled THEN Goto(t, "rate") /\ UNCHANGED err
                    ELSE Raise(t, "provider_unavailable", "fail")
    /\ Touch(t) /\ Frame
    /\ UNCHANGED <<rateVars, ledgerVars, cacheVars, dec, att>>

\* 2. rate_limiter.check
CheckRate(t) ==
    /\ pc[t] = "rate"
    /\ \E at \in Stamps(t) :
         /\ RateCheck(RateKey(t), at)
         /\ IF WithinLimits(RateKey(t), at)
              THEN Goto(t, "lookup") /\ UNCHANGED err
              ELSE Raise(t, "rate_limit_exceeded", "fail")
    /\ Touch(t) /\ Frame
    /\ UNCHANGED <<ledgerVars, cacheVars, job, dec, att, calls>>

\* 3. cache.get: a live entry answers the request at once, with no audit row.
Lookup(t) ==
    /\ pc[t] = "lookup"
    /\ \E at \in Stamps(t) :
         /\ CacheGet(Fp(t), at)
         /\ IF Hit(Fp(t), at)
              THEN /\ calls' = [calls EXCEPT ![job[t]].answer =
                                  [kind |-> "cached", by |-> entries[Fp(t)].by,
                                   expires |-> entries[Fp(t)].expires]]
                   /\ Return(t)
              ELSE Goto(t, "claim") /\ UNCHANGED <<job, dec, att, err, calls>>
    /\ Touch(t) /\ Frame
    /\ UNCHANGED <<rateVars, ledgerVars>>

\* cache.begin: claim the fingerprint, or refuse because someone else has it.
Claim(t) ==
    /\ pc[t] = "claim"
    /\ \/ CacheBegin(Fp(t)) /\ Goto(t, "route") /\ UNCHANGED err
       \/ /\ Fp(t) \in inFlight
          /\ Raise(t, "provider_unavailable", "fail")
          /\ UNCHANGED cacheVars
    /\ Touch(t) /\ Frame
    /\ UNCHANGED <<rateVars, ledgerVars, job, dec, att, calls>>

(***************************************************************************)
(* 4. and 5a. Route under the budget state of a check with an unknown      *)
(* cost, then refuse an unpriced model where the settings say so.          *)
(***************************************************************************)
Degraded(at) == BudgetState(Unknown, at) = "warning"

RouteRequest(t) ==
    /\ pc[t] = "route"
    /\ \E at \in Stamps(t) :
         LET d == Route(Req(t), Degraded(at), disabled)
         IN  /\ LedgerCheck(Unknown, at)
             /\ IF d.model = 0
                 THEN Raise(t, "no_route", "release") /\ UNCHANGED dec
                 ELSE /\ dec' = [dec EXCEPT ![t] = d]
                      /\ IF /\ ~AllowUnpriced
                            /\ ~Project(ModelList[d.model].name, Req(t).size, Req(t).maxOut).known
                         THEN Raise(t, "budget_exceeded", "release")
                         ELSE Goto(t, "budget") /\ UNCHANGED err
    /\ Touch(t) /\ Frame
    /\ UNCHANGED <<rateVars, cacheVars, job, att, calls>>

\* Mutant: the refusal leaves without passing through `finally`.
CheckBudgetLeaking(t) ==
    /\ pc[t] = "budget"
    /\ \E at \in Stamps(t) :
         /\ LedgerCheck(Projected(t), at)
         /\ IF BudgetState(Projected(t), at) = "exceeded"
              THEN Raise(t, "budget_exceeded", "fail")
              ELSE Goto(t, "admit") /\ UNCHANGED err
    /\ Touch(t) /\ Frame
    /\ UNCHANGED <<rateVars, cacheVars, job, dec, att, calls>>

\* 5b. budget.check against the projection; a refusal is audited on the spot.
CheckBudget(t) ==
    /\ pc[t] = "budget"
    /\ \E at \in Stamps(t) :
         /\ LedgerCheck(Projected(t), at)
         /\ IF BudgetState(Projected(t), at) = "exceeded"
              THEN /\ \E rows \in Recorded(t, "budget_exceeded", Unknown) :
                         calls' = [calls EXCEPT ![job[t]].rows = rows]
                   /\ Raise(t, "budget_exceeded", "release")
              ELSE Goto(t, "admit") /\ UNCHANGED <<err, calls>>
    /\ Touch(t) /\ Frame
    /\ UNCHANGED <<rateVars, cacheVars, job, dec, att>>

\* 6. rate_limiter.record
Admit(t) ==
    /\ pc[t] = "admit"
    /\ \E at \in Stamps(t) : RateRecord(RateKey(t), at)
    /\ Goto(t, "get")
    /\ Touch(t) /\ Frame
    /\ UNCHANGED <<ledgerVars, cacheVars, job, dec, att, err, calls>>

\* _call_provider: registry.get refuses a provider disabled since the routing.
GetProvider(t) ==
    /\ pc[t] = "get"
    /\ IF ModelOf(t).provider \in disabled
         THEN Raise(t, "no_route", "release")
         ELSE Goto(t, "call") /\ UNCHANGED err
    /\ Touch(t) /\ Frame
    /\ UNCHANGED <<rateVars, ledgerVars, cacheVars, job, dec, att, calls>>

Attempt(t) == att' = [att EXCEPT ![t] = @ + 1]

\* provider.invoke returns an answer, which _price prices.
CallSucceeds(t, usage) ==
    /\ pc[t] = "call"
    /\ Attempt(t)
    /\ calls' = [calls EXCEPT ![job[t]].cost = Estimate(ModelOf(t).name, usage),
                              ![job[t]].route = dec[t]]
    /\ Goto(t, "account")
    /\ Touch(t) /\ Frame
    /\ UNCHANGED <<rateVars, ledgerVars, cacheVars, job, dec, err>>

\* Mutant: a retry enters _call_provider afresh, so attempts start over.
CallFailsAfresh(t, kind) ==
    /\ pc[t] = "call"
    /\ att' = [att EXCEPT ![t] = 0]
    /\ Goto(t, "get")
    /\ Touch(t) /\ Frame
    /\ UNCHANGED <<rateVars, ledgerVars, cacheVars, err, job, dec, calls>>

\* AIProviderUnavailable or AIResponseError: the same model again, while attempts last.
CallFails(t, kind) ==
    /\ pc[t] = "call"
    /\ Attempt(t)
    /\ IF att[t] + 1 < Req(t).attempts
         THEN UNCHANGED <<pc, err>>
         ELSE Raise(t, kind, "release")
    /\ Touch(t) /\ Frame
    /\ UNCHANGED <<rateVars, ledgerVars, cacheVars, job, dec, calls>>

\* Rejected credentials, a provider's own throttling, an unforeseen exception.
CallRefused(t, kind) ==
    /\ pc[t] = "call"
    /\ Attempt(t)
    /\ Raise(t, kind, "release")
    /\ Touch(t) /\ Frame
    /\ UNCHANGED <<rateVars, ledgerVars, cacheVars, job, dec, calls>>

\* 7. budget.record
Account(t) ==
    /\ pc[t] = "account"
    /\ \E at \in Stamps(t) : LedgerRecord(calls[job[t]].cost, at)
    /\ Goto(t, "store")
    /\ Touch(t) /\ Frame
    /\ UNCHANGED <<rateVars, cacheVars, job, dec, att, err, calls>>

\* cache.put
Store(t) ==
    /\ pc[t] = "store"
    /\ \E at \in Stamps(t) : CachePut(Fp(t), job[t], Ttl[Req(t).task], at)
    /\ Goto(t, "audit")
    /\ Touch(t) /\ Frame
    /\ UNCHANGED <<rateVars, ledgerVars, job, dec, att, err, calls>>

\* Mutant: a row the table rejects fails the request it was about.
AuditRaising(t) ==
    /\ pc[t] = "audit"
    /\ \E rows \in Recorded(t, "success", calls[job[t]].cost) :
         /\ calls' = [calls EXCEPT ![job[t]].rows = rows]
         /\ IF rows[Len(rows)].stored THEN Goto(t, "release") /\ UNCHANGED err
                                       ELSE Raise(t, "internal_error", "release")
    /\ Touch(t) /\ Frame
    /\ UNCHANGED <<rateVars, ledgerVars, cacheVars, job, dec, att>>

\* The row of an answer, taken by the table or not.
Audit(t) ==
    /\ pc[t] = "audit"
    /\ \E rows \in Recorded(t, "success", calls[job[t]].cost) :
         calls' = [calls EXCEPT ![job[t]].rows = rows]
    /\ Goto(t, "release")
    /\ Touch(t) /\ Frame
    /\ UNCHANGED <<rateVars, ledgerVars, cacheVars, job, dec, att, err>>

\* `finally: cache.end`, then the answer or the exception leaves _invoke.
Release(t) ==
    /\ pc[t] = "release"
    /\ CacheEnd(Fp(t))
    /\ IF err[t] = None
         THEN /\ calls' = [calls EXCEPT ![job[t]].answer =
                             [kind |-> "provider", by |-> job[t], expires |-> 0]]
              /\ Return(t)
         ELSE Goto(t, "fail") /\ UNCHANGED <<job, dec, att, err, calls>>
    /\ Touch(t) /\ Frame
    /\ UNCHANGED <<rateVars, ledgerVars>>

\* _fail: one more row, and a structured `unavailable` answer.
Fail(t) ==
    /\ pc[t] = "fail"
    /\ \E rows \in Recorded(t, err[t], Unknown) :
         calls' = [calls EXCEPT ![job[t]].rows = rows,
                                ![job[t]].answer = [NoAnswer EXCEPT !.kind = err[t]]]
    /\ Return(t)
    /\ Touch(t) /\ Frame
    /\ UNCHANGED <<rateVars, ledgerVars, cacheVars>>

\* status, and the budget page: a thread of the pool reads the ledger's windows.
Status(t) ==
    /\ pc[t] = "idle"
    /\ \E at \in Stamps(t) : LedgerSnapshot(at)
    /\ Touch(t) /\ Frame
    /\ UNCHANGED <<rateVars, cacheVars, threadVars, calls>>

-----------------------------------------------------------------------------
\* AIProviderRegistry.disable and enable, by an operator during an incident.
Disable(p) ==
    /\ disabled' = disabled \cup {p}
    /\ UNCHANGED <<clockVars, rateVars, ledgerVars, cacheVars, threadVars, calls, restarts>>

Enable(p) ==
    /\ disabled' = disabled \ {p}
    /\ UNCHANGED <<clockVars, rateVars, ledgerVars, cacheVars, threadVars, calls, restarts>>

(***************************************************************************)
(* The API process dies and a new one builds a fresh gateway: limiter,     *)
(* ledger, cache and registry start empty, the ai_requests rows remain.    *)
(***************************************************************************)
Restart ==
    /\ restarts < MaxRestarts
    /\ restarts' = restarts + 1
    /\ hits' = [k \in RateKeys |-> <<>>] /\ head' = [k \in RateKeys |-> 1]
    /\ ledger' = <<>> /\ start' = [w \in WindowNames |-> 1]
    /\ entries' = [f \in Fingerprints |-> NoEntry] /\ inFlight' = {}
    /\ pc' = [t \in Threads |-> "idle"] /\ job' = [t \in Threads |-> 0]
    /\ dec' = [t \in Threads |-> NoRoute] /\ att' = [t \in Threads |-> 0]
    /\ err' = [t \in Threads |-> None]
    /\ disabled' = {}
    /\ since' = [t \in Threads |-> now]
    /\ calls' = [i \in DOMAIN calls |->
                   IF calls[i].answer.kind = "pending"
                   THEN [calls[i] EXCEPT !.answer.kind = "lost"] ELSE calls[i]]
    /\ UNCHANGED now

Transient == {"provider_unavailable", "invalid_response"}

Fatal == {"provider_auth", "rate_limited", "internal_error"}

\* What a thread does once it has taken a request.
Step(t) ==
    \/ CheckRate(t) \/ Lookup(t) \/ Claim(t) \/ RouteRequest(t)
    \/ CheckBudget(t) \/ Admit(t) \/ GetProvider(t)
    \/ \E u \in Usages : CallSucceeds(t, u)
    \/ \E k \in Transient : CallFails(t, k)
    \/ \E k \in Fatal : CallRefused(t, k)
    \/ Account(t) \/ Store(t) \/ Audit(t) \/ Release(t) \/ Fail(t)

\* Nobody asks anything: the only state in which the pool may rest.
Quiet == pc = [t \in Threads |-> "idle"] /\ UNCHANGED vars

Environment ==
    \/ Quiet
    \/ \E p \in Operated : Disable(p) \/ Enable(p)
    \/ Tick /\ UNCHANGED <<rateVars, ledgerVars, cacheVars, threadVars, calls,
                            disabled, restarts>>
    \/ Restart

Next ==
    \/ \E t \in Threads : Step(t) \/ Status(t) \/ \E r \in Requests : Submit(t, r)
    \/ Environment

Spec == Init /\ [][Next]_vars

(***************************************************************************)
(* Every step of a thread is taken: the pool runs its threads, no lock is  *)
(* held across a blocking call, and both providers have a timeout.         *)
(***************************************************************************)
Fairness == \A t \in Threads : WF_vars(Step(t))

FairSpec == Spec /\ Fairness

-----------------------------------------------------------------------------
(***************************************************************************)
(* At most one thread at a time works on a fingerprint: from a successful  *)
(* cache.begin to its cache.end nobody else routes, pays for or stores the *)
(* same question.                                                          *)
(***************************************************************************)
SingleFlight ==
    \A t, u \in Threads :
        pc[t] \in Holding /\ pc[u] \in Holding /\ Fp(t) = Fp(u) => t = u

(***************************************************************************)
(* A claim never outlives its holder: the in-flight set is exactly what    *)
(* threads inside the try block are working on, whichever refusal, retry   *)
(* or exception ends it.  A leaked claim would refuse the question for the *)
(* life of the process.                                                    *)
(***************************************************************************)
NoLeakedClaim == inFlight = {Fp(t) : t \in {u \in Threads : pc[u] \in Holding}}

(***************************************************************************)
(* Whatever happened between routing and the call (an operator disabling   *)
(* and enabling providers, budget pressure, a retry), a provider is only   *)
(* ever called for a request whose policy admits the model: never a        *)
(* frontier model for a local_only request or one that forbids frontier    *)
(* providers, never one outside allowed_models, never more attempts than   *)
(* the policy grants.                                                      *)
(***************************************************************************)
PolicyHeldAtCall ==
    \A t \in Threads : pc[t] = "call" =>
        /\ Req(t).privacy = "local_only" \/ ~Req(t).allowFrontier
              => ModelOf(t).tier = "local"
        /\ Req(t).allowed # {} => ModelOf(t).name \in Req(t).allowed
        /\ att[t] < Req(t).attempts

(***************************************************************************)
(* An answer served from the cache was produced by a provider call for the *)
(* same fingerprint (a failure is never cached) and had not expired when   *)
(* the request it is served to arrived.                                    *)
(***************************************************************************)
CachedAnswerSound ==
    \A i \in DOMAIN calls : calls[i].answer.kind = "cached" =>
        LET by == calls[i].answer.by
        IN  /\ by \in DOMAIN calls
            /\ Fingerprint(calls[by].req) = Fingerprint(calls[i].req)
            /\ calls[by].route.model # 0
            /\ calls[i].answer.expires > calls[i].created

(***************************************************************************)
(* What the gateway tells the audit table of a request is what it tells    *)
(* the caller, whether or not the table takes the rows: one success row    *)
(* for a provider's answer; for a refusal one row with its kind, or two    *)
(* where the budget refuses (once on the spot and once by _fail).  Of an   *)
(* answer served from the cache nothing is asked: Lookup writes no row for *)
(* it, whatever ai/usage.py:28 says (see README).                          *)
(***************************************************************************)
AnswersAudited ==
    \A i \in DOMAIN calls :
        LET kind  == calls[i].answer.kind
            kinds == {calls[i].rows[j].kind : j \in DOMAIN calls[i].rows}
        IN  /\ kind = "provider" => kinds = {"success"} /\ Len(calls[i].rows) = 1
            /\ kind \in ErrorKinds =>
                 /\ kinds = {kind}
                 /\ Len(calls[i].rows) <= (IF kind = "budget_exceeded" THEN 2 ELSE 1)

(***************************************************************************)
(* Every request that entered the chain leaves it: no retry loop, no claim *)
(* and no lock keeps a thread for ever.                                    *)
(***************************************************************************)
EveryRequestEnds == \A t \in Threads : pc[t] # "idle" ~> pc[t] = "idle"

-----------------------------------------------------------------------------
(***************************************************************************)
(* The gateway implements AnswerService: a thread works on a question      *)
(* while it holds the claim, and a request is being refused as soon as its *)
(* exception has left the try block.                                       *)
(***************************************************************************)
Outcome(i) ==
    LET kind == calls[i].answer.kind
        Doing(where) == \E t \in Threads : job[t] = i /\ pc[t] \in where
    IN  CASE Doing(Holding)                        -> "working"
          [] Doing({"fail"})                       -> "refusing"
          [] Doing({"rate", "lookup", "claim"})    -> "waiting"
          [] OTHER -> IF kind \in {"provider", "cached"} THEN "answered"
                      ELSE IF kind = "lost" THEN "lost" ELSE "refused"

Service == INSTANCE AnswerService WITH
    Questions <- Fingerprints,
    asked     <- [i \in DOMAIN calls |-> Fingerprint(calls[i].req)],
    state     <- [i \in DOMAIN calls |-> Outcome(i)]

\* Every behaviour of the gateway is one the abstract answer service allows.
ImplementsAnswerService == Service!Spec
=============================================================================
