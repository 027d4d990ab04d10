------------------------------ MODULE AIRouter ------------------------------
(***************************************************************************)
(* The routing policy of ai/router.py with the part of the provider        *)
(* registry (ai/provider.py) it reads: which tier a request is worth, and  *)
(* which registered model of that tier serves it.  Everything here is a    *)
(* pure function of the request, of the set of providers an operator has   *)
(* disabled and of the budget-pressure flag; the gateway calls Route as    *)
(* one step.                                                               *)
(*                                                                         *)
(* A request is a record.  `prompt` stands for the whole content (system,  *)
(* static prefix and user prompt), `size` for its length in characters,    *)
(* `complex` for estimated_complexity >= COMPLEXITY_ESCALATION_THRESHOLD.  *)
(***************************************************************************)
EXTENDS Integers, Sequences, FiniteSets

CONSTANTS
    ModelList,      \* registered models, in the order available()/models() list them
    Requests        \* the AIRequest values callers may submit

None == "none"

TierOrder == <<"local", "frontier", "frontier_high">>

Tiers == {"local", "frontier", "frontier_high"}

Rank == [t \in Tiers |->
           CASE t = "local" -> 1 [] t = "frontier" -> 2 [] t = "frontier_high" -> 3]

BASE_TIER ==
    [summarization      |-> "local",
     classification     |-> "local",
     entity_extraction  |-> "local",
     journal_review     |-> "local",
     research_synthesis |-> "frontier",
     thesis_review      |-> "frontier_high"]

Tasks == DOMAIN BASE_TIER

Providers == {ModelList[i].provider : i \in DOMAIN ModelList}

(***************************************************************************)
(* What AIRequestPolicy.__post_init__ and AIRequest.__post_init__ let      *)
(* through: bounded attempts, a positive output allowance, and no          *)
(* local_only request that also allows frontier providers.                 *)
(***************************************************************************)
MAX_ATTEMPTS_CEILING == 3

RequestOK(r) ==
    /\ r.task \in Tasks
    /\ r.attempts \in 1..MAX_ATTEMPTS_CEILING
    /\ r.maxOut \in Nat \ {0}
    /\ r.size \in Nat \ {0}
    /\ r.privacy = "local_only" => ~r.allowFrontier
    /\ {r.allowFrontier, r.allowEscalation, r.contradictions, r.complex, r.schema}
            \subseteq BOOLEAN

ModelOK(m) ==
    /\ m.tier \in Tiers
    /\ m.maxContext \in Nat
    /\ m.tools \in BOOLEAN
    /\ m.name # None

ASSUME ModelListAssumption ==
    /\ ModelList \in Seq({ModelList[i] : i \in DOMAIN ModelList})
    /\ \A i \in DOMAIN ModelList : ModelOK(ModelList[i])

ASSUME RequestsAssumption == \A r \in Requests : RequestOK(r)

-----------------------------------------------------------------------------
(***************************************************************************)
(* AIRequest.fingerprint: the identity used by the cache.  It covers the   *)
(* content, the schema and the output allowance, and none of the policy    *)
(* fields that routing reads.                                              *)
(***************************************************************************)
Fingerprint(r) == <<r.task, r.prompt, r.schema, r.maxOut>>

\* Mutant: complexity goes straight to the top tier.
EscalationForTop(r, tier) ==
    CASE r.contradictions /\ tier = "frontier" -> "frontier_high"
      [] r.risk = "high" /\ tier = "local"     -> "frontier"
      [] OTHER -> IF r.complex THEN "frontier_high" ELSE tier

\* _escalation_for: the tier the question itself asks for (the same tier: none).
EscalationFor(r, tier) ==
    CASE tier = "frontier_high"                      -> tier
      [] r.contradictions /\ tier = "frontier"       -> "frontier_high"
      [] r.risk = "high" /\ tier = "local"           -> "frontier"
      [] OTHER -> IF r.complex THEN TierOrder[Rank[tier] + 1] ELSE tier

\* One step down the order, the cheapest tier staying where it is.
Cheaper(tier) == IF tier = "local" THEN tier ELSE TierOrder[Rank[tier] - 1]

EscalatedTier(r) ==
    IF r.allowEscalation THEN EscalationFor(r, BASE_TIER[r.task]) ELSE BASE_TIER[r.task]

\* Mutant: the policy's allow_frontier is not consulted.
RoutedTierUnchecked(r, degraded) ==
    IF degraded THEN Cheaper(EscalatedTier(r)) ELSE EscalatedTier(r)

(***************************************************************************)
(* route: base tier, then escalation, then budget pressure, and last the   *)
(* two constraints nothing above may undo.                                 *)
(***************************************************************************)
RoutedTier(r, degraded) ==
    IF r.privacy = "local_only" \/ ~r.allowFrontier
    THEN "local"
    ELSE IF degraded THEN Cheaper(EscalatedTier(r)) ELSE EscalatedTier(r)

\* AIProviderRegistry.models_for_tier: positions in ModelList.
ModelsForTier(tier, disabled) ==
    {i \in DOMAIN ModelList : /\ ModelList[i].tier = tier
                              /\ ModelList[i].provider \notin disabled}

First(S) == CHOOSE i \in S : \A j \in S : i <= j

(***************************************************************************)
(* _select_model: the position of the model that serves the request, or 0  *)
(* where the code raises AIRoutingError.  A requested model that is a      *)
(* candidate is returned before the context-size filter is applied.        *)
(***************************************************************************)
Candidates(r, tier, disabled) ==
    {i \in ModelsForTier(tier, disabled) :
        r.allowed = {} \/ ModelList[i].name \in r.allowed}

\* Mutant: a requested model is looked up among all registered models.
SelectModelBypass(r, tier, disabled) ==
    LET candidates == Candidates(r, tier, disabled)
        requested  == {i \in DOMAIN ModelList : ModelList[i].name = r.requested}
        fitting    == {i \in candidates : r.size <= ModelList[i].maxContext}
    IN  CASE requested # {}                 -> First(requested)
          [] requested = {} /\ fitting = {} -> 0
          [] OTHER                          -> First(fitting)

SelectModel(r, tier, disabled) ==
    LET candidates == Candidates(r, tier, disabled)
        requested  == {i \in candidates : ModelList[i].name = r.requested}
        fitting    == {i \in candidates : r.size <= ModelList[i].maxContext}
        withTools  == {i \in fitting : ModelList[i].tools}
    IN  CASE requested # {}               -> First(requested)
          [] requested = {} /\ fitting = {} -> 0
          [] OTHER -> IF r.schema /\ withTools # {} THEN First(withTools)
                                                    ELSE First(fitting)

NoRoute == [model |-> 0, tier |-> "none", escalated |-> FALSE, downgraded |-> FALSE]

\* Mutant: only the privacy branches set the flag.
DowngradedPrivacyOnly(r, degraded) ==
    EscalatedTier(r) # "local" /\ ~r.allowFrontier

\* The `downgraded` flag as the three branches of route set it.
Downgraded(r, degraded) ==
    LET pressed == degraded /\ EscalatedTier(r) # "local"
        tier    == IF pressed THEN Cheaper(EscalatedTier(r)) ELSE EscalatedTier(r)
    IN  \/ pressed
        \/ tier # "local" /\ (r.privacy = "local_only" \/ ~r.allowFrontier)

Route(r, degraded, disabled) ==
    LET tier == RoutedTier(r, degraded)
        m    == SelectModel(r, tier, disabled)
    IN  IF m = 0 THEN NoRoute
        ELSE [model      |-> m,
              tier       |-> tier,
              escalated  |-> EscalatedTier(r) # BASE_TIER[r.task],
              downgraded |-> Downgraded(r, degraded)]

Decisions ==
    [model : 0..Len(ModelList), tier : Tiers \cup {"none"},
     escalated : BOOLEAN, downgraded : BOOLEAN]
=============================================================================
