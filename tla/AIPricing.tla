------------------------------ MODULE AIPricing ------------------------------
(***************************************************************************)
(* config/ai_pricing.py: what a call is projected to cost before it is     *)
(* made and what it is priced at afterwards.  Money is counted in units of *)
(* one token at rate 1, so the code's rounding to six decimals is exact.   *)
(* A missing token count, price or cache rate is Missing, and an unknown   *)
(* cost is a value of its own, never zero.                                 *)
(***************************************************************************)
EXTENDS Integers

CONSTANTS
    Pricing,                \* configured rates by model name (AI_MODEL_PRICING)
    CharsPerToken           \* CHARS_PER_TOKEN_ESTIMATE

Missing == -1

Unknown == [known |-> FALSE, amount |-> 0]

Known(n) == [known |-> TRUE, amount |-> n]

Costs == [known : BOOLEAN, amount : Nat]

Rates == [input : Nat, output : Nat,
          cacheRead : Nat \cup {Missing}, cacheWrite : Nat \cup {Missing}]

Usage == [input : Nat \cup {Missing}, output : Nat \cup {Missing},
          cacheRead : Nat \cup {Missing}, cacheWrite : Nat \cup {Missing}]

ASSUME PricingAssumption ==
    /\ \A m \in DOMAIN Pricing : Pricing[m] \in Rates
    /\ CharsPerToken \in Nat \ {0}

\* `if usage.cache_read_tokens`: neither absent nor zero.
Reported(tokens) == tokens \notin {Missing, 0}

\* PricingTable.estimate
Estimate(model, usage) ==
    IF \/ model \notin DOMAIN Pricing
       \/ Missing \in {usage.input, usage.output}
       \/ Reported(usage.cacheRead)  /\ Pricing[model].cacheRead = Missing
       \/ Reported(usage.cacheWrite) /\ Pricing[model].cacheWrite = Missing
    THEN Unknown
    ELSE LET p == Pricing[model]
         IN  Known(  usage.input * p.input
                   + usage.output * p.output
                   + (IF Reported(usage.cacheRead)
                        THEN usage.cacheRead * p.cacheRead ELSE 0)
                   + (IF Reported(usage.cacheWrite)
                        THEN usage.cacheWrite * p.cacheWrite ELSE 0))

\* PricingTable.project: the full output allowance, at least one input token.
Project(model, chars, maxOut) ==
    LET tokens == chars \div CharsPerToken
    IN  Estimate(model, [input      |-> IF tokens < 1 THEN 1 ELSE tokens,
                         output     |-> maxOut,
                         cacheRead  |-> Missing,
                         cacheWrite |-> Missing])
=============================================================================
