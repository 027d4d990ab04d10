--------------------------- MODULE GovernanceCalls ---------------------------
(***************************************************************************)
(* The rate limiter and the budget ledger driven the way the gateway       *)
(* drives them, with everything between their critical sections left open: *)
(*                                                                         *)
(*   idle -> AdmitCall -> rated -> PriceCall -> priced -> RecordHit      *)
(*        -> calling -> RecordSpend or Fail -> idle                        *)
(*                                                                         *)
(* What a call costs comes from the provider's token counts, so it may     *)
(* differ from the projection that was checked; a call that fails, and one *)
(* without a known price, records no spend.                                *)
(***************************************************************************)
EXTENDS RateLimiter, BudgetLedger

CONSTANTS
    Projections,            \* amounts a check may project
    Actuals,                \* amounts a call may turn out to cost
    MaxHits, MaxEntries     \* bounds on recorded hits per key and on ledger entries

ASSUME CallsAssumption ==
    /\ IsFiniteSet(Threads)
    /\ Projections \subseteq Nat \ {0} /\ Actuals \subseteq Nat
    /\ \E most \in Actuals : \A n \in Actuals : n <= most
    /\ {MaxHits, MaxEntries} \subseteq Nat

NoKey == "none"

Stages == {"idle", "rated", "priced", "calling"}

VARIABLES
    stage,                  \* how far each thread's request has come
    key                     \* the key it is rate limited under

callVars == <<now, since, hits, head, ledger, start, stage, key>>

CallsTypeOK ==
    /\ ClockTypeOK /\ RateTypeOK /\ LedgerTypeOK
    /\ stage \in [Threads -> Stages]
    /\ key \in [Threads -> RateKeys \cup {NoKey}]

Unpriced == [known |-> FALSE, amount |-> 0]

Priced(n) == [known |-> TRUE, amount |-> n]

CallsInit ==
    /\ ClockInit /\ RateInit /\ LedgerInit
    /\ stage = [t \in Threads |-> "idle"]
    /\ key = [t \in Threads |-> NoKey]

Enter(t, s) == stage' = [stage EXCEPT ![t] = s]

Leave(t) == Enter(t, "idle") /\ key' = [key EXCEPT ![t] = NoKey]

-----------------------------------------------------------------------------
AdmitCall(t, k) ==
    /\ stage[t] = "idle"
    /\ \E at \in Stamps(t) :
         /\ RateCheck(k, at)
         /\ IF WithinLimits(k, at)
            THEN Enter(t, "rated") /\ key' = [key EXCEPT ![t] = k]
            ELSE UNCHANGED <<stage, key>>
    /\ Touch(t)
    /\ UNCHANGED ledgerVars

PriceCall(t, cost) ==
    /\ stage[t] = "rated"
    /\ \E at \in Stamps(t) :
         /\ LedgerCheck(cost, at)
         /\ IF BudgetState(cost, at) = "exceeded"
            THEN Leave(t)
            ELSE Enter(t, "priced") /\ UNCHANGED key
    /\ Touch(t)
    /\ UNCHANGED rateVars

RecordHit(t) ==
    /\ stage[t] = "priced"
    /\ Len(hits[key[t]]) < MaxHits
    /\ \E at \in Stamps(t) : RateRecord(key[t], at)
    /\ Enter(t, "calling")
    /\ Touch(t)
    /\ UNCHANGED <<ledgerVars, key>>

RecordSpend(t, cost) ==
    /\ stage[t] = "calling"
    /\ Len(ledger) < MaxEntries
    /\ \E at \in Stamps(t) : LedgerRecord(cost, at)
    /\ Leave(t)
    /\ Touch(t)
    /\ UNCHANGED rateVars

\* A cache hit, a duplicate or a refusal to route, or a provider call that fails.
Abandon(t) ==
    /\ stage[t] \in {"rated", "calling"}
    /\ Leave(t)
    /\ Touch(t)
    /\ UNCHANGED <<rateVars, ledgerVars>>

\* A status page reads the ledger.
Snapshot(t) ==
    /\ stage[t] = "idle"
    /\ \E at \in Stamps(t) : LedgerSnapshot(at)
    /\ Touch(t)
    /\ UNCHANGED <<rateVars, stage, key>>

CallsNext ==
    \/ \E t \in Threads :
         \/ \E k \in RateKeys : AdmitCall(t, k)
         \/ \E n \in Projections : PriceCall(t, Priced(n))
         \/ RecordHit(t)
         \/ \E n \in Actuals : RecordSpend(t, Priced(n))
         \/ RecordSpend(t, Unpriced)
         \/ Abandon(t)
         \/ Snapshot(t)
    \/ Tick /\ UNCHANGED <<rateVars, ledgerVars, stage, key>>

CallsSpec == CallsInit /\ [][CallsNext]_callVars

-----------------------------------------------------------------------------
(***************************************************************************)
(* The check and the record are separate critical sections with the        *)
(* provider call in between, so threads that check together all spend.     *)
(* The overshoot is nevertheless bounded: a rolling window never holds     *)
(* more than its limit plus one call of every thread.                      *)
(***************************************************************************)
BudgetOvershootBounded ==
    \A w \in RollingWindows : Active(w) =>
        \E most \in Actuals :
            /\ \A n \in Actuals : n <= most
            /\ InWindowSpend(w) < Limit[w] + Cardinality(Threads) * most

\* Both overshoots that checking and recording apart allow are bounded.
OvershootBounded == RateOvershootBounded /\ BudgetOvershootBounded
=============================================================================
