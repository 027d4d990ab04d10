------------------------------ MODULE MCGateway ------------------------------
(***************************************************************************)
(* Instances of AIGateway for TLC: one local and two frontier models, and  *)
(* a few requests that differ in what routing and the cache look at.       *)
(***************************************************************************)
EXTENDS AIGateway, TLC

CONSTANTS
    HourLimit, DayLimit,    \* rolling budget limits
    Asked                   \* which of the requests below this run submits

MCModelList ==
    <<[name |-> "sonnet", provider |-> "anthropic", tier |-> "frontier",
       maxContext |-> 9, tools |-> TRUE],
      [name |-> "opus", provider |-> "anthropic", tier |-> "frontier_high",
       maxContext |-> 9, tools |-> TRUE],
      [name |-> "llama", provider |-> "local", tier |-> "local",
       maxContext |-> 4, tools |-> FALSE]>>

\* AIRequestPolicy's defaults with one retry, for a research question.
Research(prompt) ==
    [task |-> "research_synthesis", prompt |-> prompt, principal |-> "alice",
     size |-> 4, maxOut |-> 1, schema |-> FALSE, attempts |-> 2,
     privacy |-> "normal", risk |-> "medium", complex |-> FALSE,
     contradictions |-> FALSE, allowFrontier |-> TRUE, allowEscalation |-> TRUE,
     allowed |-> {}, requested |-> None]

Catalogue ==
    [research     |-> Research("p1"),
     conflicting  |-> [Research("p1") EXCEPT !.contradictions = TRUE],
     other        |-> [Research("p2") EXCEPT !.attempts = 1, !.allowed = {"sonnet"}],
     private      |-> [Research("p1") EXCEPT !.privacy = "local_only", !.allowFrontier = FALSE],
     nofrontier   |-> [Research("p3") EXCEPT !.task = "thesis_review", !.risk = "high",
                                            !.allowFrontier = FALSE]]

MCRequests == {Catalogue[name] : name \in Asked}

MCRateKeys == {<<r.principal, r.task>> : r \in MCRequests}

MCFingerprints == {Fingerprint(r) : r \in MCRequests}

MCPricing ==
    [sonnet |-> [input |-> 1, output |-> 1, cacheRead |-> Missing, cacheWrite |-> Missing],
     opus   |-> [input |-> 2, output |-> 1, cacheRead |-> 1, cacheWrite |-> 2]]

\* What the projection assumes.
MCUsages == {[input |-> 1, output |-> 1, cacheRead |-> 0, cacheWrite |-> 0]}

\* Also: no token counts, and cached reads some models have no price for.
MCAllUsages ==
    MCUsages \cup {[input |-> Missing, output |-> 1, cacheRead |-> 0, cacheWrite |-> 0],
                   [input |-> 1, output |-> 1, cacheRead |-> 1, cacheWrite |-> 0]}

MCTtl == [t \in Tasks |-> 1]

MCLimit == [hour |-> HourLimit, day |-> DayLimit, month |-> 0]

ThreadSymmetry == Permutations(Threads)
=============================================================================
