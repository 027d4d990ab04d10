---------------------------- MODULE AIRouterCalls ----------------------------
(***************************************************************************)
(* The router as its callers see it: a request is routed, and routed again *)
(* when it is retried later, with whatever budget pressure there is and    *)
(* whichever providers an operator has disabled by then.                   *)
(***************************************************************************)
EXTENDS AIRouter

VARIABLES
    request,        \* the request being routed
    pressure,       \* RoutingContext.budget_degraded of the last routing
    disabledThen,   \* AIProviderRegistry._disabled at that time
    decision        \* what route returned: NoRoute where it raised

routerVars == <<request, pressure, disabledThen, decision>>

RouterTypeOK ==
    /\ request \in Requests
    /\ pressure \in BOOLEAN
    /\ disabledThen \subseteq Providers
    /\ decision \in Decisions

RouterInit ==
    /\ request \in Requests
    /\ pressure = FALSE
    /\ disabledThen = {}
    /\ decision = NoRoute

Decide(p, d) ==
    /\ pressure' = p
    /\ disabledThen' = d
    /\ decision' = Route(request, p, d)
    /\ UNCHANGED request

RouterNext == \E p \in BOOLEAN, d \in SUBSET Providers : Decide(p, d)

RouterSpec == RouterInit /\ [][RouterNext]_routerVars

-----------------------------------------------------------------------------
Routed == decision.model # 0

Chosen == ModelList[decision.model]

(***************************************************************************)
(* "The gateway will not substitute a model from another tier": the model  *)
(* is of the tier the policy arrived at, and inside allowed_models, even   *)
(* when the request names a model it would rather have.                    *)
(***************************************************************************)
NoSubstitution ==
    Routed => /\ Chosen.tier = decision.tier
              /\ request.allowed # {} => Chosen.name \in request.allowed

(***************************************************************************)
(* Privacy is applied last: nothing a request carries (contradictions,     *)
(* risk, complexity, a requested model) takes a local_only request, or one *)
(* that forbids frontier providers, off the local tier.                    *)
(***************************************************************************)
PrivacyOutranks ==
    Routed /\ (request.privacy = "local_only" \/ ~request.allowFrontier)
        => Chosen.tier = "local"

(***************************************************************************)
(* Escalation is bounded and visible: a request ends at most one tier      *)
(* above the base tier of its task, and only when it is marked escalated.  *)
(***************************************************************************)
EscalationBounded ==
    Routed => /\ Rank[decision.tier] <= Rank[BASE_TIER[request.task]] + 1
              /\ Rank[decision.tier] > Rank[BASE_TIER[request.task]] => decision.escalated

(***************************************************************************)
(* "A silent downgrade would make an expensive question quietly get a      *)
(* cheap answer": a decision is marked downgraded exactly when its tier is *)
(* below the one the question asked for.                                   *)
(***************************************************************************)
DowngradesLabelled ==
    Routed => (decision.downgraded <=> Rank[decision.tier] < Rank[EscalatedTier(request)])

(***************************************************************************)
(* What route applies in sequence, none of it undone by a later step.      *)
(***************************************************************************)
RoutingPolicy ==
    NoSubstitution /\ PrivacyOutranks /\ EscalationBounded /\ DowngradesLabelled
=============================================================================
