---------------------------- MODULE MCGovernance -----------------------------
(***************************************************************************)
(* GovernanceCalls and AIRouterCalls for TLC.  Limiter and ledger share no *)
(* state with the router, so no interleaving of the two can matter: a      *)
(* behaviour either calls the router, with any request, or runs the        *)
(* threads of the limiter and the ledger, and leaves the other as it is.   *)
(*                                                                         *)
(* The router has two providers, one of which serves two local models of   *)
(* different context sizes, and every request policy over three tasks and  *)
(* two content sizes.                                                      *)
(***************************************************************************)
EXTENDS GovernanceCalls, AIRouterCalls, TLC

CONSTANTS HourLimit, DayLimit, MonthLimit

MCLimit == [hour |-> HourLimit, day |-> DayLimit, month |-> MonthLimit]

MCModelList ==
    <<[name |-> "sonnet", provider |-> "anthropic", tier |-> "frontier",
       maxContext |-> 9, tools |-> TRUE],
      [name |-> "opus", provider |-> "anthropic", tier |-> "frontier_high",
       maxContext |-> 9, tools |-> TRUE],
      [name |-> "llama", provider |-> "local", tier |-> "local",
       maxContext |-> 2, tools |-> FALSE]>>

MCRequests ==
    {r \in [task : {"classification", "research_synthesis", "thesis_review"},
            prompt : {"p"}, principal : {"alice"}, size : {2, 5}, maxOut : {1},
            schema : BOOLEAN, attempts : {1}, privacy : {"normal", "local_only"},
            risk : {"medium", "high"}, complex : BOOLEAN, contradictions : BOOLEAN,
            allowFrontier : BOOLEAN, allowEscalation : BOOLEAN,
            allowed : {{}, {"sonnet", "llama"}}, requested : {None, "llama", "opus"}]
       : RequestOK(r)}

PlainRequest == CHOOSE r \in Requests : r.task = "classification"

MCInit == CallsInit /\ RouterInit

MCNext ==
    \/ CallsInit /\ RouterNext /\ UNCHANGED callVars
    \/ /\ RouterInit /\ request = PlainRequest
       /\ CallsNext /\ UNCHANGED routerVars

MCSpec == MCInit /\ [][MCNext]_<<callVars, routerVars>>

ThreadSymmetry == Permutations(Threads)
=============================================================================
