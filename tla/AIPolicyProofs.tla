---------------------------- MODULE AIPolicyProofs ----------------------------
(***************************************************************************)
(* What the policies of the gateway promise, proved for every list of      *)
(* registered models, every set of requests, any number of threads and     *)
(* any limits and costs: the router keeps its routing policy, and checking *)
(* and recording apart lets the rate limiter and the budget ledger exceed  *)
(* their limits by no more than the calls that were in between.            *)
(*                                                                         *)
(* The lemmas that come first are about the operators alone: what          *)
(* AIRouter.route returns, what one critical section of the rate limiter   *)
(* or of the budget ledger does to its types, to NoHitForgotten and to     *)
(* NoSpendForgotten, and how the total of a list of amounts grows.         *)
(* AIGatewayProofs cites them too.                                         *)
(***************************************************************************)
EXTENDS AIRouterCalls, GovernanceCalls,
        FiniteSetTheorems, SequenceTheorems, WellFoundedInduction, TLAPS

-----------------------------------------------------------------------------
(***************************************************************************)
(* A nonempty set of natural numbers has a least element.                  *)
(***************************************************************************)
LEMMA LeastNatural ==
    ASSUME NEW T, T \subseteq Nat, T # {}
    PROVE  \E i \in T : \A j \in T : i <= j
<1>1. PICK i \in T : \A j \in T : ~(<<j, i>> \in OpToRel(<, Nat))
  BY NatLessThanWellFounded, WFMin
<1>2. ASSUME NEW j \in T, j < i  PROVE FALSE
  <2>1. <<j, i>> \in Nat \X Nat /\ <<j, i>>[1] < <<j, i>>[2]
    BY <1>2
  <2>2. <<j, i>> \in OpToRel(<, Nat)
    BY <2>1, Zenon DEF OpToRel
  <2>. QED  BY <1>1, <2>2
<1>. QED  BY <1>2

(***************************************************************************)
(* PopLeft moves the head forward, at most just past the tail, and never   *)
(* past an element that is to be kept.                                     *)
(***************************************************************************)
LEMMA PopLeftFacts ==
    ASSUME NEW from \in Nat \ {0}, NEW len \in Nat, from <= len + 1,
           NEW kept, kept \subseteq 1..len
    PROVE  /\ PopLeft(from, len, kept) \in Nat \ {0}
           /\ PopLeft(from, len, kept) >= from
           /\ PopLeft(from, len, kept) <= len + 1
           /\ \A i \in kept : i >= from => i >= PopLeft(from, len, kept)
<1>. DEFINE rest == {i \in kept : i >= from}
<1>1. CASE rest = {}
  BY <1>1 DEF PopLeft
<1>2. CASE rest # {}
  <2>a. 1..len \subseteq Nat
    OBVIOUS
  <2>0. rest \subseteq Nat
    BY <2>a, Zenon
  <2>1. \E i \in rest : \A j \in rest : i <= j
    BY <1>2, <2>0, LeastNatural, Zenon
  <2>. DEFINE m == CHOOSE i \in rest : \A j \in rest : i <= j
  <2>2. m \in rest /\ \A j \in rest : m <= j
    BY <2>1
  <2>3. PopLeft(from, len, kept) = m
    BY <1>2 DEF PopLeft
  <2>. HIDE DEF m
  <2>. QED  BY <2>2, <2>3
<1>. QED  BY <1>1, <1>2

-----------------------------------------------------------------------------
(***************************************************************************)
(* The router.                                                             *)
(***************************************************************************)
LEMMA BaseTierType ==
    ASSUME NEW task \in Tasks
    PROVE  BASE_TIER[task] \in Tiers
BY DEF Tasks, BASE_TIER, Tiers

LEMMA RankFacts ==
    /\ Rank["local"] = 1 /\ Rank["frontier"] = 2 /\ Rank["frontier_high"] = 3
    /\ TierOrder[1] = "local" /\ TierOrder[2] = "frontier" /\ TierOrder[3] = "frontier_high"
BY DEF Rank, Tiers, TierOrder

(***************************************************************************)
(* _escalation_for raises a tier by one step or not at all.                *)
(***************************************************************************)
LEMMA EscalationStep ==
    ASSUME NEW r, NEW tier \in Tiers
    PROVE  /\ EscalationFor(r, tier) \in Tiers
           /\ Rank[EscalationFor(r, tier)] \in {Rank[tier], Rank[tier] + 1}
<1>1. CASE tier = "local"
  BY <1>1, RankFacts DEF EscalationFor, Tiers
<1>2. CASE tier = "frontier"
  BY <1>2, RankFacts DEF EscalationFor, Tiers
<1>3. CASE tier = "frontier_high"
  BY <1>3, RankFacts DEF EscalationFor, Tiers
<1>. QED  BY <1>1, <1>2, <1>3 DEF Tiers

LEMMA EscalatedTierFacts ==
    ASSUME NEW r, RequestOK(r)
    PROVE  /\ BASE_TIER[r.task] \in Tiers
           /\ EscalatedTier(r) \in Tiers
           /\ Rank[EscalatedTier(r)] \in {Rank[BASE_TIER[r.task]], Rank[BASE_TIER[r.task]] + 1}
<1>1. BASE_TIER[r.task] \in Tiers
  BY BaseTierType DEF RequestOK
<1>. DEFINE base == BASE_TIER[r.task]
<1>2. EscalatedTier(r) = IF r.allowEscalation THEN EscalationFor(r, base) ELSE base
  BY DEF EscalatedTier
<1>. HIDE DEF base
<1>3. base \in Tiers
  BY <1>1 DEF base
<1>4. EscalationFor(r, base) \in Tiers /\ Rank[EscalationFor(r, base)] \in {Rank[base], Rank[base] + 1}
  BY <1>3, EscalationStep
<1>5. /\ EscalatedTier(r) \in Tiers
      /\ Rank[EscalatedTier(r)] \in {Rank[base], Rank[base] + 1}
  BY <1>2, <1>3, <1>4
<1>. QED  BY <1>3, <1>5 DEF base

LEMMA CheaperFacts ==
    ASSUME NEW tier \in Tiers
    PROVE  /\ Cheaper(tier) \in Tiers
           /\ Rank[Cheaper(tier)] <= Rank[tier]
           /\ tier # "local" => Rank[Cheaper(tier)] < Rank[tier]
           /\ tier = "local" => Cheaper(tier) = "local"
<1>1. CASE tier = "local"
  BY <1>1, RankFacts DEF Cheaper, Tiers
<1>2. CASE tier = "frontier"
  BY <1>2, RankFacts DEF Cheaper, Tiers
<1>3. CASE tier = "frontier_high"
  BY <1>3, RankFacts DEF Cheaper, Tiers
<1>. QED  BY <1>1, <1>2, <1>3 DEF Tiers

(***************************************************************************)
(* The tier route arrives at, and the label it puts on it.                 *)
(***************************************************************************)
LEMMA RoutedTierFacts ==
    ASSUME NEW r, RequestOK(r), NEW p \in BOOLEAN
    PROVE  /\ RoutedTier(r, p) \in Tiers
           /\ Rank[RoutedTier(r, p)] <= Rank[EscalatedTier(r)]
           /\ Downgraded(r, p) <=> Rank[RoutedTier(r, p)] < Rank[EscalatedTier(r)]
           /\ r.privacy = "local_only" \/ ~r.allowFrontier => RoutedTier(r, p) = "local"
<1>. DEFINE e == EscalatedTier(r)
<1>1. e \in Tiers
  BY EscalatedTierFacts
<1>2. /\ RoutedTier(r, p) = IF r.privacy = "local_only" \/ ~r.allowFrontier THEN "local"
                            ELSE IF p THEN Cheaper(e) ELSE e
      /\ Downgraded(r, p) <=>
            \/ p /\ e # "local"
            \/ /\ (IF p /\ e # "local" THEN Cheaper(e) ELSE e) # "local"
               /\ r.privacy = "local_only" \/ ~r.allowFrontier
  BY Zenon DEF RoutedTier, Downgraded
<1>. HIDE DEF e
<1>3. /\ Cheaper(e) \in Tiers
      /\ Rank[Cheaper(e)] <= Rank[e]
      /\ e # "local" => Rank[Cheaper(e)] < Rank[e]
      /\ e = "local" => Cheaper(e) = "local"
  BY <1>1, CheaperFacts, Zenon
<1>4. Rank[e] \in 1..3 /\ (e # "local" <=> Rank["local"] < Rank[e]) /\ Rank["local"] <= Rank[e]
  BY <1>1, RankFacts DEF Tiers
<1>5. CASE r.privacy = "local_only" \/ ~r.allowFrontier
  <2>1. RoutedTier(r, p) = "local"
    BY <1>2, <1>5
  <2>2. Downgraded(r, p) <=> e # "local"
    BY <1>2, <1>3, <1>5
  <2>. QED  BY <1>4, <2>1, <2>2 DEF e, Tiers
<1>6. CASE ~(r.privacy = "local_only" \/ ~r.allowFrontier)
  <2>1. RoutedTier(r, p) = IF p THEN Cheaper(e) ELSE e
    BY <1>2, <1>6
  <2>2. Downgraded(r, p) <=> p /\ e # "local"
    BY <1>2, <1>6
  <2>. QED  BY <1>1, <1>3, <1>4, <1>6, <2>1, <2>2 DEF e
<1>. QED  BY <1>5, <1>6

(***************************************************************************)
(* _select_model returns a candidate of the tier, or raises.               *)
(***************************************************************************)
LEMMA FirstIn ==
    ASSUME NEW S, S \subseteq DOMAIN ModelList, S # {}
    PROVE  First(S) \in S
<1>1. DOMAIN ModelList \subseteq Nat
  BY ModelListAssumption
<1>2. \E i \in S : \A j \in S : i <= j
  BY <1>1, LeastNatural
<1>. QED  BY <1>2 DEF First

LEMMA SelectModelFacts ==
    ASSUME NEW r, NEW tier \in Tiers, NEW d
    PROVE  SelectModel(r, tier, d) \in Candidates(r, tier, d) \cup {0}
<1>. DEFINE candidates == Candidates(r, tier, d)
            requested  == {i \in candidates : ModelList[i].name = r.requested}
            fitting    == {i \in candidates : r.size <= ModelList[i].maxContext}
            withTools  == {i \in fitting : ModelList[i].tools}
<1>1. candidates \subseteq DOMAIN ModelList
  BY DEF Candidates, ModelsForTier
<1>2. SelectModel(r, tier, d) =
        CASE requested # {}               -> First(requested)
          [] requested = {} /\ fitting = {} -> 0
          [] OTHER -> IF r.schema /\ withTools # {} THEN First(withTools)
                                                    ELSE First(fitting)
  BY DEF SelectModel
<1>3. /\ requested # {} => First(requested) \in candidates
      /\ fitting # {} => First(fitting) \in candidates
      /\ withTools # {} => First(withTools) \in candidates
  BY <1>1, FirstIn
<1>. QED  BY <1>2, <1>3

(***************************************************************************)
(* What route returns, for every request, budget pressure and set of       *)
(* disabled providers.                                                     *)
(***************************************************************************)
RouteOK(r, d) ==
    d.model # 0 =>
        /\ d.model \in DOMAIN ModelList
        /\ ModelList[d.model].tier = d.tier
        /\ r.allowed # {} => ModelList[d.model].name \in r.allowed
        /\ r.privacy = "local_only" \/ ~r.allowFrontier => d.tier = "local"
        /\ Rank[d.tier] <= Rank[BASE_TIER[r.task]] + 1
        /\ Rank[d.tier] > Rank[BASE_TIER[r.task]] => d.escalated
        /\ d.downgraded <=> Rank[d.tier] < Rank[EscalatedTier(r)]

LEMMA RouteFacts ==
    ASSUME NEW r, RequestOK(r), NEW p \in BOOLEAN, NEW d
    PROVE  RouteOK(r, Route(r, p, d)) /\ Route(r, p, d) \in Decisions
<1>. DEFINE tier == RoutedTier(r, p)
            m    == SelectModel(r, tier, d)
            e    == EscalatedTier(r)
            b    == BASE_TIER[r.task]
<1>1. /\ tier \in Tiers
      /\ Rank[tier] <= Rank[e]
      /\ Downgraded(r, p) <=> Rank[tier] < Rank[e]
      /\ r.privacy = "local_only" \/ ~r.allowFrontier => tier = "local"
  BY RoutedTierFacts
<1>2. b \in Tiers /\ e \in Tiers /\ Rank[e] \in {Rank[b], Rank[b] + 1}
  BY EscalatedTierFacts
<1>3. m \in Candidates(r, tier, d) \cup {0}
  BY <1>1, SelectModelFacts
<1>4. m # 0 => /\ m \in DOMAIN ModelList
               /\ ModelList[m].tier = tier
               /\ r.allowed # {} => ModelList[m].name \in r.allowed
  BY <1>3 DEF Candidates, ModelsForTier
<1>5. Route(r, p, d) = IF m = 0 THEN NoRoute
                       ELSE [model |-> m, tier |-> tier, escalated |-> (e # b),
                             downgraded |-> Downgraded(r, p)]
  BY DEF Route
<1>6. /\ DOMAIN ModelList = 1..Len(ModelList) /\ Len(ModelList) \in Nat
      /\ Downgraded(r, p) \in BOOLEAN
  BY ModelListAssumption DEF Downgraded
<1>7. Rank[b] \in 1..3 /\ Rank[e] \in 1..3 /\ Rank[tier] \in 1..3
  BY <1>1, <1>2, RankFacts DEF Tiers
<1>. HIDE DEF tier, m, e, b
<1>8. CASE m = 0
  BY <1>5, <1>6, <1>8 DEF NoRoute, RouteOK, Decisions
<1>9. CASE m # 0
  <2>1. /\ Route(r, p, d).model = m
        /\ Route(r, p, d).tier = tier
        /\ Route(r, p, d).escalated = (e # b)
        /\ Route(r, p, d).downgraded = Downgraded(r, p)
    BY <1>5, <1>9
  <2>2. Route(r, p, d) \in Decisions
    BY <1>1, <1>4, <1>5, <1>6, <1>9 DEF Decisions
  <2>3. /\ Rank[tier] <= Rank[b] + 1
        /\ Rank[tier] > Rank[b] => e # b
    BY <1>1, <1>2, <1>7
  <2>4. RouteOK(r, Route(r, p, d))
    BY <1>1, <1>4, <2>1, <2>3 DEF RouteOK, e, b
  <2>. QED  BY <2>2, <2>4
<1>. QED  BY <1>8, <1>9

-----------------------------------------------------------------------------
(***************************************************************************)
(* The rate limiter and the budget ledger.                                 *)
(***************************************************************************)
USE ClockAssumption, RateAssumption, LedgerAssumption

LEMMA TouchClock ==
    ASSUME ClockTypeOK, NEW t \in Threads, Touch(t)
    PROVE  ClockTypeOK' /\ UNCHANGED now
BY DEF ClockTypeOK, Touch

LEMMA StampTimes ==
    ASSUME ClockTypeOK, NEW t \in Threads, NEW at \in Stamps(t)
    PROVE  at \in 0..MaxTime /\ at <= now
BY DEF ClockTypeOK, Stamps

-----------------------------------------------------------------------------
(***************************************************************************)
(* Pruning key k at time `at`: the head stays within bounds, and what it   *)
(* passes is older than an hour.                                           *)
(***************************************************************************)
LEMMA PrunedHeadFacts ==
    ASSUME RateTypeOK, NEW k \in RateKeys, NEW at \in 0..MaxTime
    PROVE  /\ PrunedHead(k, at) \in Nat \ {0}
           /\ PrunedHead(k, at) <= Len(hits[k]) + 1
           /\ \A i \in DOMAIN hits[k] :
                i >= head[k] /\ i < PrunedHead(k, at) => hits[k][i] < at - Hour
<1>. DEFINE kept == {i \in DOMAIN hits[k] : hits[k][i] >= at - Hour}
<1>0. hits[k] \in Seq(0..MaxTime)
  BY DEF RateTypeOK
<1>1. /\ head[k] \in Nat \ {0}
      /\ Len(hits[k]) \in Nat
      /\ head[k] <= Len(hits[k]) + 1
      /\ DOMAIN hits[k] = 1..Len(hits[k])
  BY <1>0 DEF RateTypeOK
<1>2. kept \subseteq 1..Len(hits[k])
  BY <1>1
<1>3. PrunedHead(k, at) = PopLeft(head[k], Len(hits[k]), kept)
  BY DEF PrunedHead
<1>4. \A i \in DOMAIN hits[k] : i \notin kept => hits[k][i] < at - Hour
  BY <1>0
<1>. HIDE DEF kept
<1>5. /\ PrunedHead(k, at) \in Nat \ {0}
      /\ PrunedHead(k, at) <= Len(hits[k]) + 1
      /\ \A i \in kept : i >= head[k] => i >= PrunedHead(k, at)
  <2>1. /\ PopLeft(head[k], Len(hits[k]), kept) \in Nat \ {0}
        /\ PopLeft(head[k], Len(hits[k]), kept) <= Len(hits[k]) + 1
        /\ \A i \in kept : i >= head[k] => i >= PopLeft(head[k], Len(hits[k]), kept)
    BY <1>1, <1>2, PopLeftFacts, Zenon
  <2>. QED  BY <1>3, <2>1, Zenon
<1>6. ASSUME NEW i \in DOMAIN hits[k], i >= head[k], i < PrunedHead(k, at)
      PROVE  i \notin kept
  BY <1>1, <1>5, <1>6
<1>. QED  BY <1>4, <1>5, <1>6

(***************************************************************************)
(* A check at a lagging time keeps the invariant: one head moves, past     *)
(* hits that are more than an hour older than a time no later than now.    *)
(***************************************************************************)
LEMMA RateCheckKeeps ==
    ASSUME RateTypeOK, NoHitForgotten, now \in 0..MaxTime, NEW k \in RateKeys,
           NEW at \in 0..MaxTime, at <= now, RateCheck(k, at), UNCHANGED now
    PROVE  RateTypeOK' /\ NoHitForgotten'
<1>1. CASE RateDisabled
  BY <1>1 DEF RateCheck, RateTypeOK, NoHitForgotten
<1>2. CASE ~RateDisabled
  <2>1. hits' = hits /\ head' = [head EXCEPT ![k] = PrunedHead(k, at)]
    BY <1>2 DEF RateCheck
  <2>2. /\ PrunedHead(k, at) \in Nat \ {0}
        /\ PrunedHead(k, at) <= Len(hits[k]) + 1
        /\ \A i \in DOMAIN hits[k] :
                i >= head[k] /\ i < PrunedHead(k, at) => hits[k][i] < at - Hour
    BY PrunedHeadFacts, Zenon
  <2>3. RateTypeOK'
    BY <2>1, <2>2 DEF RateTypeOK
  <2>4. ASSUME NEW l \in RateKeys, NEW i \in DOMAIN hits[l], i < head'[l]
        PROVE  hits[l][i] < now - Hour
    <3>0. hits[l] \in Seq(0..MaxTime) /\ head[l] \in Nat
      BY DEF RateTypeOK
    <3>1. i \in Nat /\ hits[l][i] \in 0..MaxTime
      BY <3>0
    <3>2. CASE i < head[l]
      BY <3>2 DEF NoHitForgotten
    <3>3. CASE i >= head[l]
      <4>1. l = k
        BY <2>1, <2>4, <3>0, <3>1, <3>3 DEF RateTypeOK
      <4>2. head'[k] = PrunedHead(k, at)
        BY <2>1 DEF RateTypeOK
      <4>3. hits[l][i] < at - Hour
        BY <2>2, <2>4, <3>3, <4>1, <4>2
      <4>. QED  BY <3>1, <4>3
    <3>. QED  BY <3>0, <3>1, <3>2, <3>3
  <2>. QED  BY <2>1, <2>3, <2>4 DEF NoHitForgotten
<1>. QED  BY <1>1, <1>2

(***************************************************************************)
(* Recording a hit appends to one log and moves no head.                   *)
(***************************************************************************)
LEMMA RateRecordKeeps ==
    ASSUME RateTypeOK, NoHitForgotten, NEW k \in RateKeys, NEW at \in 0..MaxTime,
           RateRecord(k, at), UNCHANGED now
    PROVE  RateTypeOK' /\ NoHitForgotten'
<1>1. hits' = [hits EXCEPT ![k] = Append(hits[k], at)] /\ head' = head
  BY DEF RateRecord
<1>2. ASSUME NEW l \in RateKeys
      PROVE  /\ hits'[l] \in Seq(0..MaxTime)
             /\ Len(hits'[l]) >= Len(hits[l])
             /\ \A i \in DOMAIN hits[l] : i \in DOMAIN hits'[l] /\ hits'[l][i] = hits[l][i]
  <2>0. hits[l] \in Seq(0..MaxTime)
    BY DEF RateTypeOK
  <2>1. CASE l = k
    <3>1. hits'[l] = Append(hits[l], at)
      BY <1>1, <2>1 DEF RateTypeOK
    <3>. QED  BY <2>0, <3>1
  <2>2. CASE l # k
    <3>1. hits'[l] = hits[l]
      BY <1>1, <2>2 DEF RateTypeOK
    <3>. QED  BY <2>0, <3>1
  <2>. QED  BY <2>1, <2>2
<1>3. RateTypeOK'
  <2>1. hits' \in [RateKeys -> Seq(0..MaxTime)]
    BY <1>1, <1>2 DEF RateTypeOK
  <2>2. ASSUME NEW l \in RateKeys  PROVE head[l] <= Len(hits'[l]) + 1
    <3>1. head[l] \in Nat /\ head[l] <= Len(hits[l]) + 1 /\ hits[l] \in Seq(0..MaxTime)
      BY DEF RateTypeOK
    <3>. QED  BY <1>2, <3>1
  <2>. QED  BY <1>1, <2>1, <2>2 DEF RateTypeOK
<1>4. ASSUME NEW l \in RateKeys, NEW i \in DOMAIN hits'[l], i < head[l]
      PROVE  hits'[l][i] < now - Hour
  <2>1. head[l] \in Nat /\ head[l] <= Len(hits[l]) + 1 /\ hits[l] \in Seq(0..MaxTime)
    BY DEF RateTypeOK
  <2>2. i \in DOMAIN hits[l]
    BY <1>2, <1>4, <2>1
  <2>3. hits[l][i] < now - Hour
    BY <1>4, <2>2 DEF NoHitForgotten
  <2>. QED  BY <1>2, <2>2, <2>3
<1>. QED  BY <1>1, <1>3, <1>4 DEF NoHitForgotten

-----------------------------------------------------------------------------
LEMMA DurationType == Duration \in [RollingWindows -> Nat]
BY DEF Duration, RollingWindows

LEMMA ElementOf ==
    ASSUME NEW S, NEW seq \in Seq(S), NEW i \in 1..Len(seq)
    PROVE  seq[i] \in S
OBVIOUS

LEMMA EntryType ==
    ASSUME LedgerTypeOK, NEW i \in DOMAIN ledger
    PROVE  i \in Nat /\ ledger[i].at \in 0..MaxTime
<1>1. ledger \in Seq([at : 0..MaxTime, amount : Nat])
  BY DEF LedgerTypeOK
<1>2. i \in 1..Len(ledger) /\ i \in Nat
  BY <1>1
<1>3. ledger[i] \in [at : 0..MaxTime, amount : Nat]
  BY <1>1, <1>2, ElementOf, Zenon
<1>. QED  BY <1>2, <1>3

(***************************************************************************)
(* Pruning window w: the head stays within bounds, moves forward, and what *)
(* it passes is what _Window.prune does not keep.                          *)
(***************************************************************************)
LEMMA PrunedFacts ==
    ASSUME LedgerTypeOK, NEW w \in WindowNames, NEW at \in 0..MaxTime
    PROVE  /\ Pruned(w, at) \in Nat \ {0}
           /\ Pruned(w, at) <= Len(ledger) + 1
           /\ \A i \in DOMAIN ledger :
                i >= start[w] /\ i < Pruned(w, at) => ~Keeps(w, ledger[i], at)
<1>. DEFINE kept == {i \in DOMAIN ledger : Keeps(w, ledger[i], at)}
<1>1. /\ start[w] \in Nat \ {0}
      /\ Len(ledger) \in Nat
      /\ start[w] <= Len(ledger) + 1
      /\ DOMAIN ledger = 1..Len(ledger)
  BY DEF LedgerTypeOK
<1>2. kept \subseteq 1..Len(ledger)
  BY <1>1
<1>3. Pruned(w, at) = PopLeft(start[w], Len(ledger), kept)
  BY DEF Pruned
<1>. HIDE DEF kept
<1>4. /\ Pruned(w, at) \in Nat \ {0}
      /\ Pruned(w, at) <= Len(ledger) + 1
      /\ \A i \in kept : i >= start[w] => i >= Pruned(w, at)
  <2>1. /\ PopLeft(start[w], Len(ledger), kept) \in Nat \ {0}
        /\ PopLeft(start[w], Len(ledger), kept) <= Len(ledger) + 1
        /\ \A i \in kept : i >= start[w] => i >= PopLeft(start[w], Len(ledger), kept)
    BY <1>1, <1>2, PopLeftFacts, Zenon
  <2>. QED  BY <1>3, <2>1, Zenon
<1>5. ASSUME NEW i \in DOMAIN ledger, i >= start[w], i < Pruned(w, at), Keeps(w, ledger[i], at)
      PROVE  FALSE
  <2>1. i \in kept
    BY <1>5 DEF kept
  <2>. QED  BY <1>1, <1>4, <1>5, <2>1
<1>. QED  BY <1>4, <1>5

(***************************************************************************)
(* A check or a snapshot at a lagging time `at` keeps the invariant: each  *)
(* head either stays or is pruned at `at`, which is no later than now.     *)
(***************************************************************************)
HeadsPruned(at) ==
    /\ ledger' = ledger
    /\ \E W \in SUBSET WindowNames :
         start' = [w \in WindowNames |-> IF w \in W THEN Pruned(w, at) ELSE start[w]]

LEMMA HeadsPrunedKeeps ==
    ASSUME LedgerTypeOK, NoSpendForgotten, now \in 0..MaxTime,
           NEW at \in 0..MaxTime, at <= now,
           HeadsPruned(at), UNCHANGED now
    PROVE  LedgerTypeOK' /\ NoSpendForgotten'
<1>1. /\ ledger' = ledger
      /\ start' \in [WindowNames -> Nat \ {0}]
      /\ \A w \in WindowNames : start'[w] \in {start[w], Pruned(w, at)}
  <2>1. \A w \in WindowNames : start[w] \in Nat \ {0} /\ Pruned(w, at) \in Nat \ {0}
    BY PrunedFacts DEF LedgerTypeOK
  <2>. QED  BY <2>1 DEF HeadsPruned
<1>2. LedgerTypeOK'
  <2>1. ASSUME NEW w \in WindowNames  PROVE start'[w] <= Len(ledger) + 1
    <3>1. start[w] <= Len(ledger) + 1
      BY DEF LedgerTypeOK
    <3>2. Pruned(w, at) <= Len(ledger) + 1
      BY PrunedFacts, Zenon
    <3>. QED  BY <1>1, <3>1, <3>2, Zenon
  <2>. QED  BY <1>1, <2>1 DEF LedgerTypeOK
<1>3. ASSUME NEW w \in RollingWindows, NEW i \in DOMAIN ledger, i < start'[w]
      PROVE  ledger[i].at < now - Duration[w]
  <2>. w \in WindowNames /\ Duration[w] \in Nat
    BY DurationType DEF RollingWindows, WindowNames
  <2>. start[w] \in Nat
    BY DEF LedgerTypeOK
  <2>. i \in Nat /\ ledger[i].at \in 0..MaxTime
    BY EntryType
  <2>1. CASE i < start[w]
    BY <2>1 DEF NoSpendForgotten
  <2>2. CASE i >= start[w]
    <3>1. start'[w] = Pruned(w, at) /\ i < Pruned(w, at)
      BY <1>1, <1>3, <2>2
    <3>2. ~Keeps(w, ledger[i], at)
      BY <2>2, <3>1, PrunedFacts
    <3>. QED  BY <3>2 DEF Keeps
  <2>. QED  BY <2>1, <2>2
<1>. QED  BY <1>1, <1>2, <1>3 DEF NoSpendForgotten, Duration

LEMMA LedgerCheckKeeps ==
    ASSUME LedgerTypeOK, NoSpendForgotten, now \in 0..MaxTime,
           NEW cost, NEW at \in 0..MaxTime, at <= now,
           LedgerCheck(cost, at), UNCHANGED now
    PROVE  LedgerTypeOK' /\ NoSpendForgotten'
<1>. DEFINE W == {w \in WindowNames :
                    /\ cost.known
                    /\ PerRequest = 0 \/ cost.amount <= PerRequest
                    /\ Active(w) /\ ReachedBy(w, cost.amount, at)}
<1>1. start' = [w \in WindowNames |-> IF w \in W THEN Pruned(w, at) ELSE start[w]]
  BY DEF LedgerCheck
<1>2. W \in SUBSET WindowNames /\ ledger' = ledger
  BY DEF LedgerCheck
<1>. HIDE DEF W
<1>3. HeadsPruned(at)
  BY <1>1, <1>2, Zenon DEF HeadsPruned
<1>. QED  BY <1>3, HeadsPrunedKeeps

LEMMA LedgerSnapshotKeeps ==
    ASSUME LedgerTypeOK, NoSpendForgotten, now \in 0..MaxTime,
           NEW at \in 0..MaxTime, at <= now, LedgerSnapshot(at), UNCHANGED now
    PROVE  LedgerTypeOK' /\ NoSpendForgotten'
<1>. DEFINE W == {w \in WindowNames : Active(w)}
<1>1. start' = [w \in WindowNames |-> IF w \in W THEN Pruned(w, at) ELSE start[w]]
  BY DEF LedgerSnapshot
<1>2. W \in SUBSET WindowNames /\ ledger' = ledger
  BY DEF LedgerSnapshot
<1>. HIDE DEF W
<1>3. HeadsPruned(at)
  BY <1>1, <1>2, Zenon DEF HeadsPruned
<1>. QED  BY <1>3, HeadsPrunedKeeps

(***************************************************************************)
(* Recording spend appends to the log and moves no head.                   *)
(***************************************************************************)
LEMMA LedgerRecordKeeps ==
    ASSUME LedgerTypeOK, NoSpendForgotten, NEW cost, cost.amount \in Nat,
           NEW at \in 0..MaxTime, LedgerRecord(cost, at), UNCHANGED now
    PROVE  LedgerTypeOK' /\ NoSpendForgotten'
<1>1. CASE cost.known
  <2>. DEFINE e == [at |-> at, amount |-> cost.amount]
  <2>1. ledger' = Append(ledger, e) /\ start' = start
    BY <1>1 DEF LedgerRecord
  <2>2. e \in [at : 0..MaxTime, amount : Nat]
    OBVIOUS
  <2>. HIDE DEF e
  <2>3. /\ ledger' \in Seq([at : 0..MaxTime, amount : Nat])
        /\ Len(ledger') = Len(ledger) + 1
        /\ \A i \in DOMAIN ledger : ledger'[i] = ledger[i]
    BY <2>1, <2>2 DEF LedgerTypeOK
  <2>4. LedgerTypeOK'
    BY <2>1, <2>3 DEF LedgerTypeOK
  <2>5. ASSUME NEW w \in RollingWindows, NEW i \in DOMAIN ledger', i < start[w]
        PROVE  i \in DOMAIN ledger
    BY <2>3, <2>5 DEF LedgerTypeOK, RollingWindows, WindowNames
  <2>. QED  BY <2>1, <2>3, <2>4, <2>5 DEF NoSpendForgotten, Duration
<1>2. CASE ~cost.known
  BY <1>2 DEF LedgerRecord, LedgerTypeOK, NoSpendForgotten, Duration
<1>. QED  BY <1>1, <1>2

(***************************************************************************)
(* Time passes: what was too old stays too old.                            *)
(***************************************************************************)
LEMMA RateTick ==
    ASSUME RateTypeOK, NoHitForgotten, now \in 0..MaxTime, Tick, UNCHANGED rateVars
    PROVE  RateTypeOK' /\ NoHitForgotten'
<1>1. now' = now + 1 /\ hits' = hits /\ head' = head
  BY DEF Tick, rateVars
<1>2. ASSUME NEW k \in RateKeys, NEW i \in DOMAIN hits[k], i < head[k]
      PROVE  hits[k][i] < (now + 1) - Hour
  <2>1. hits[k][i] < now - Hour
    BY <1>2 DEF NoHitForgotten
  <2>2. hits[k] \in Seq(0..MaxTime)
    BY DEF RateTypeOK
  <2>3. hits[k][i] \in 0..MaxTime
    BY <2>2
  <2>. QED  BY <2>1, <2>3
<1>3. NoHitForgotten'
  BY <1>1, <1>2 DEF NoHitForgotten
<1>. QED  BY <1>1, <1>3 DEF RateTypeOK

LEMMA LedgerTick ==
    ASSUME LedgerTypeOK, NoSpendForgotten, now \in 0..MaxTime, Tick, UNCHANGED ledgerVars
    PROVE  LedgerTypeOK' /\ NoSpendForgotten'
<1>1. now' = now + 1 /\ ledger' = ledger /\ start' = start
  BY DEF Tick, ledgerVars
<1>2. ASSUME NEW w \in RollingWindows, NEW i \in DOMAIN ledger, i < start[w]
      PROVE  ledger[i].at < (now + 1) - Duration[w]
  <2>1. ledger[i].at < now - Duration[w]
    BY <1>2 DEF NoSpendForgotten
  <2>2. ledger[i].at \in 0..MaxTime
    BY EntryType
  <2>3. Duration[w] \in Nat
    BY DurationType
  <2>. QED  BY <2>1, <2>2, <2>3
<1>3. NoSpendForgotten'
  BY <1>1, <1>2 DEF NoSpendForgotten, Duration
<1>. QED  BY <1>1, <1>3 DEF LedgerTypeOK

-----------------------------------------------------------------------------
(***************************************************************************)
(* Sequences one entry longer.                                             *)
(***************************************************************************)
LEMMA SameLength ==
    ASSUME NEW a \in Nat, NEW b \in Nat, 1..a = 1..b
    PROVE  a = b
<1>1. CASE a < b
  BY <1>1, b \in 1..b
<1>2. CASE b < a
  BY <1>2, a \in 1..a
<1>. QED  BY <1>1, <1>2

LEMMA AppendedOne ==
    ASSUME NEW n \in Nat, NEW s, NEW r, NEW S,
           s \in [1..n -> S], r \in [1..(n + 1) -> S],
           \A i \in 1..n : r[i] = s[i]
    PROVE  r = Append(s, r[n + 1])
<1>1. n + 1 \in Nat /\ n + 1 \in 1..(n + 1) /\ r[n + 1] \in S
  OBVIOUS
<1>2. /\ r \in Seq(S) /\ s \in Seq(S)
      /\ Len(r) = n + 1 /\ Len(s) = n
  <2>1. r \in Seq(S) /\ s \in Seq(S)
    <3>1. \A m \in Nat : \A f \in [1..m -> S] : f \in Seq(S)
      BY SeqDef
    <3>. QED  BY <1>1, <3>1
  <2>2. /\ Len(r) \in Nat /\ 1..Len(r) = 1..(n + 1)
        /\ Len(s) \in Nat /\ 1..Len(s) = 1..n
    <3>1. DOMAIN r = 1..(n + 1) /\ DOMAIN s = 1..n
      OBVIOUS
    <3>2. /\ Len(r) \in Nat /\ DOMAIN r = 1..Len(r)
          /\ Len(s) \in Nat /\ DOMAIN s = 1..Len(s)
      BY <2>1, LenProperties
    <3>. QED  BY <3>1, <3>2
  <2>3. Len(r) = n + 1 /\ Len(s) = n
    BY <1>1, <2>2, SameLength, Zenon
  <2>. QED  BY <2>1, <2>3
<1>3. PICK e \in S : e = r[n + 1]
  BY <1>1
<1>4. /\ Append(s, e) \in Seq(S) /\ Len(Append(s, e)) = n + 1
      /\ \A i \in 1..(n + 1) : Append(s, e)[i] = IF i <= n THEN s[i] ELSE e
  BY <1>2
<1>5. ASSUME NEW i \in 1..(n + 1)  PROVE r[i] = Append(s, e)[i]
  <2>1. CASE i \in 1..n
    BY <1>4, <2>1
  <2>2. CASE i = n + 1
    BY <1>3, <1>4, <2>2
  <2>. QED  BY <2>1, <2>2
<1>. QED  BY <1>2, <1>3, <1>4, <1>5, SeqEqual

-----------------------------------------------------------------------------
(***************************************************************************)
(* Running totals.                                                         *)
(***************************************************************************)
Sums(amounts, sum) ==
    sum = [i \in 0..Len(amounts) |-> IF i = 0 THEN 0 ELSE sum[i - 1] + amounts[i]]

\* A property of 0..n that holds at 0 and is passed on holds at n.
LEMMA CountUp ==
    ASSUME NEW S, 0 \in S, NEW n \in Nat, \A i \in 1..n : i - 1 \in S => i \in S
    PROVE  n \in S
<1>. SUFFICES ASSUME n \notin S PROVE FALSE
  OBVIOUS
<1>. DEFINE N == {i \in 0..n : i \notin S}
<1>1. n \in N /\ N \subseteq Nat
  OBVIOUS
<1>. HIDE DEF N
<1>2. PICK i \in N : \A j \in N : i <= j
  BY <1>1, LeastNatural
<1>3. i \in 0..n /\ i \notin S /\ i # 0
  BY <1>2 DEF N
<1>4. i - 1 \notin N
  BY <1>2, <1>3
<1>. QED  BY <1>3, <1>4 DEF N

LEMMA SumsExist ==
    ASSUME NEW amounts \in Seq(Nat)
    PROVE  \E sum : Sums(amounts, sum)
<1>. DEFINE n == Len(amounts)
            upto(m) == \E f : /\ DOMAIN f = 0..m /\ f[0] = 0
                              /\ \A i \in 1..m : f[i] = f[i - 1] + amounts[i]
            S == {m \in 0..n : upto(m)}
<1>1. n \in Nat
  OBVIOUS
<1>2. 0 \in S
  <2>1. upto(0)
    <3>. WITNESS [i \in {0} |-> 0]
    <3>. QED  OBVIOUS
  <2>. QED  BY <1>1, <2>1
<1>3. ASSUME NEW m \in 1..n, m - 1 \in S
      PROVE  m \in S
  <2>1. PICK f : /\ DOMAIN f = 0..(m - 1) /\ f[0] = 0
                 /\ \A i \in 1..(m - 1) : f[i] = f[i - 1] + amounts[i]
    BY <1>3
  <2>. DEFINE g == [i \in 0..m |-> IF i = m THEN f[m - 1] + amounts[m] ELSE f[i]]
  <2>2. m \in Nat /\ m - 1 \in 0..m /\ DOMAIN g = 0..m /\ g[0] = 0
    BY <1>1, <2>1
  <2>3. ASSUME NEW i \in 1..m
        PROVE  g[i] = g[i - 1] + amounts[i]
    <3>1. CASE i = m
      BY <2>2, <3>1
    <3>2. CASE i # m
      <4>1. i \in 1..(m - 1) /\ i - 1 \in 0..m /\ i - 1 # m
        BY <2>2, <3>2
      <4>. QED  BY <2>1, <3>2, <4>1
    <3>. QED  BY <3>1, <3>2
  <2>. HIDE DEF g
  <2>4. upto(m)
    BY <2>2, <2>3
  <2>. QED  BY <1>1, <2>4
<1>4. n \in S
  <2>. HIDE DEF S, n
  <2>. QED  BY <1>1, <1>2, <1>3, CountUp
<1>5. PICK f : /\ DOMAIN f = 0..n /\ f[0] = 0
               /\ \A i \in 1..n : f[i] = f[i - 1] + amounts[i]
  BY <1>4
<1>. DEFINE sum == [i \in 0..n |-> f[i]]
<1>6. sum = [i \in 0..n |-> IF i = 0 THEN 0 ELSE sum[i - 1] + amounts[i]]
  BY <1>1, <1>5
<1>. QED  BY <1>6 DEF Sums

LEMMA TotalSums ==
    ASSUME NEW amounts \in Seq(Nat)
    PROVE  \E sum : Sums(amounts, sum) /\ Total(amounts) = sum[Len(amounts)]
<1>. DEFINE chosen == CHOOSE sum : Sums(amounts, sum)
<1>1. Sums(amounts, chosen)
  BY SumsExist, Zenon
<1>2. Total(amounts) = chosen[Len(amounts)]
  BY Zenon DEF Total, Sums
<1>. QED  BY <1>1, <1>2

LEMMA SumsValues ==
    ASSUME NEW a \in Seq(Nat), NEW f, Sums(a, f)
    PROVE  /\ Len(a) \in Nat /\ f[0] = 0
           /\ \A i \in 1..Len(a) : f[i] = f[i - 1] + a[i] /\ a[i] \in Nat
<1>1. Len(a) \in Nat /\ \A i \in 1..Len(a) : a[i] \in Nat
  OBVIOUS
<1>2. ASSUME NEW i \in 0..Len(a)
      PROVE  f[i] = IF i = 0 THEN 0 ELSE f[i - 1] + a[i]
  BY Zenon DEF Sums
<1>3. 0 \in 0..Len(a) /\ \A i \in 1..Len(a) : i \in 0..Len(a) /\ i # 0
  BY <1>1
<1>. QED  BY <1>1, <1>2, <1>3

LEMMA AddMonotone ==
    ASSUME NEW x \in Nat, NEW y \in Nat, NEW u \in Nat, NEW v \in Nat, x <= y, u <= v,
           NEW p, NEW q, p = x + u, q = y + v
    PROVE  p \in Nat /\ q \in Nat /\ p <= q
OBVIOUS

\* Partial sums of a list that is nowhere larger are nowhere larger.
LEMMA SumsMonotone ==
    ASSUME NEW a \in Seq(Nat), NEW b \in Seq(Nat), NEW f, NEW g, Sums(a, f), Sums(b, g),
           NEW n \in Nat, n <= Len(a), n <= Len(b), \A i \in 1..n : a[i] <= b[i]
    PROVE  f[n] \in Nat /\ g[n] \in Nat /\ f[n] <= g[n]
<1>. DEFINE S == {i \in 0..n : f[i] \in Nat /\ g[i] \in Nat /\ f[i] <= g[i]}
<1>1. /\ f[0] = 0 /\ g[0] = 0
      /\ \A i \in 1..n : f[i] = f[i - 1] + a[i] /\ g[i] = g[i - 1] + b[i]
      /\ \A i \in 1..n : a[i] \in Nat /\ b[i] \in Nat
  BY SumsValues
<1>2. 0 \in S
  BY <1>1
<1>3. ASSUME NEW i \in 1..n, i - 1 \in S
      PROVE  i \in S
  <2>1. /\ f[i - 1] \in Nat /\ g[i - 1] \in Nat /\ f[i - 1] <= g[i - 1]
        /\ f[i] = f[i - 1] + a[i] /\ g[i] = g[i - 1] + b[i]
        /\ a[i] \in Nat /\ b[i] \in Nat /\ a[i] <= b[i]
    BY <1>1, <1>3
  <2>. HIDE DEF S
  <2>2. f[i] \in Nat /\ g[i] \in Nat /\ f[i] <= g[i]
    BY <2>1, AddMonotone, Zenon
  <2>3. i \in 0..n
    OBVIOUS
  <2>. QED  BY <2>2, <2>3 DEF S
<1>4. n \in S
  <2>. HIDE DEF S
  <2>. QED  BY <1>2, <1>3, CountUp
<1>. QED  BY <1>4

LEMMA TotalType ==
    ASSUME NEW a \in Seq(Nat)
    PROVE  Total(a) \in Nat
<1>1. PICK f : Sums(a, f) /\ Total(a) = f[Len(a)]
  BY TotalSums
<1>2. Len(a) \in Nat /\ \A i \in 1..Len(a) : a[i] \in Nat
  OBVIOUS
<1>. QED  BY <1>1, <1>2, SumsMonotone

LEMMA TotalMonotone ==
    ASSUME NEW a \in Seq(Nat), NEW b \in Seq(Nat), Len(a) = Len(b),
           \A i \in 1..Len(a) : a[i] <= b[i]
    PROVE  Total(a) <= Total(b)
<1>1. PICK f : Sums(a, f) /\ Total(a) = f[Len(a)]
  BY TotalSums
<1>2. PICK g : Sums(b, g) /\ Total(b) = g[Len(b)]
  BY TotalSums
<1>3. Len(a) \in Nat /\ Len(a) <= Len(a) /\ Len(a) <= Len(b)
  OBVIOUS
<1>4. f[Len(a)] <= g[Len(a)]
  BY <1>1, <1>2, <1>3, SumsMonotone, Zenon
<1>. QED  BY <1>1, <1>2, <1>4

LEMMA TotalAppend ==
    ASSUME NEW a \in Seq(Nat), NEW e \in Nat
    PROVE  Total(Append(a, e)) = Total(a) + e
<1>. DEFINE b == Append(a, e)
<1>0. /\ b \in Seq(Nat) /\ Len(a) \in Nat /\ Len(b) = Len(a) + 1 /\ b[Len(a) + 1] = e
      /\ \A i \in 1..Len(a) : b[i] = a[i] /\ a[i] \in Nat
  OBVIOUS
<1>. HIDE DEF b
<1>1. PICK f : Sums(a, f) /\ Total(a) = f[Len(a)]
  BY TotalSums
<1>2. PICK g : Sums(b, g) /\ Total(b) = g[Len(b)]
  BY <1>0, TotalSums
<1>3. f[Len(a)] \in Nat /\ g[Len(a)] \in Nat /\ f[Len(a)] <= g[Len(a)] /\ g[Len(a)] <= f[Len(a)]
  <2>1. Len(a) <= Len(a) /\ Len(a) <= Len(b) /\ \A i \in 1..Len(a) : a[i] <= b[i] /\ b[i] <= a[i]
    BY <1>0
  <2>. QED  BY <1>0, <1>1, <1>2, <2>1, SumsMonotone, Zenon
<1>4. g[Len(b)] = g[Len(a)] + e
  <2>1. Len(b) \in 0..Len(b) /\ Len(b) # 0 /\ Len(b) - 1 = Len(a) /\ b[Len(b)] = e
    BY <1>0
  <2>2. g[Len(b)] = g[Len(b) - 1] + b[Len(b)]
    BY <1>0, <1>2, <2>1, SumsValues
  <2>. QED  BY <2>1, <2>2
<1>. QED  BY <1>1, <1>2, <1>3, <1>4 DEF b

-----------------------------------------------------------------------------
RouterInv == RouterTypeOK /\ RouteOK(request, decision)

LEMMA RouterInitInv == RouterInit => RouterInv
<1>1. NoRoute \in Decisions
  BY ModelListAssumption DEF NoRoute, Decisions
<1>2. NoRoute.model = 0
  BY DEF NoRoute
<1>3. RouterInit => RouterTypeOK
  BY <1>1 DEF RouterInit, RouterTypeOK
<1>4. RouterInit => RouteOK(request, decision)
  BY <1>2 DEF RouterInit, RouteOK
<1>. QED  BY <1>3, <1>4 DEF RouterInv

LEMMA RouterNextInv == RouterInv /\ [RouterNext]_routerVars => RouterInv'
<1>. SUFFICES ASSUME RouterInv, [RouterNext]_routerVars PROVE RouterInv'
  OBVIOUS
<1>1. ASSUME NEW p \in BOOLEAN, NEW d \in SUBSET Providers, Decide(p, d)
      PROVE  RouterInv'
  <2>1. RequestOK(request)
    BY RequestsAssumption DEF RouterInv, RouterTypeOK
  <2>2. RouteOK(request, Route(request, p, d)) /\ Route(request, p, d) \in Decisions
    BY <2>1, RouteFacts
  <2>3. request' = request /\ decision' = Route(request, p, d) /\ pressure' = p /\ disabledThen' = d
    BY <1>1 DEF Decide
  <2>4. RouterTypeOK'
    BY <2>2, <2>3 DEF RouterInv, RouterTypeOK
  <2>5. RouteOK(request, decision)'
    BY <2>2, <2>3 DEF RouteOK
  <2>. QED  BY <2>4, <2>5 DEF RouterInv
<1>2. CASE UNCHANGED routerVars
  BY <1>2 DEF routerVars, RouterInv, RouterTypeOK, RouteOK
<1>. QED  BY <1>1, <1>2 DEF RouterNext

(***************************************************************************)
(* For every list of models and every set of requests: a routed request    *)
(* gets a model of the tier the policy arrived at, privacy outranks        *)
(* everything that argues for a better model, escalation is at most one    *)
(* visible tier, and a decision is marked downgraded exactly when it is    *)
(* below what the question asked for (AIRouter.route, _select_model).      *)
(***************************************************************************)
THEOREM RoutingPolicyHolds == RouterSpec => [](RouterTypeOK /\ RoutingPolicy)
<1>1. RouterInit => RouterInv
  BY RouterInitInv
<1>2. RouterInv /\ [RouterNext]_routerVars => RouterInv'
  BY RouterNextInv
<1>3. RouterInv => RouterTypeOK /\ RoutingPolicy
  BY DEF RouterInv, RouteOK, RoutingPolicy, NoSubstitution, PrivacyOutranks, EscalationBounded,
         DowngradesLabelled, Routed, Chosen
<1>. QED  BY <1>1, <1>2, <1>3, PTL DEF RouterSpec

-----------------------------------------------------------------------------
(***************************************************************************)
(* The overshoot of the limiter.  A thread that passed the check and has   *)
(* not recorded its hit is a hit to come, in every window its clock has    *)
(* not left behind: the hits of a window and those to come are fewer than  *)
(* the limit and one per thread.                                           *)
(***************************************************************************)
Pending(k, until) ==
    {t \in Threads : key[t] = k /\ stage[t] \in {"rated", "priced"} /\ since[t] <= until}

HitsFit(limit, length) ==
    limit > 0 => \A k \in RateKeys, from \in 0..MaxTime :
        Cardinality(InWindow(k, from, length)) + Cardinality(Pending(k, from + length))
            < limit + Cardinality(Threads)

CallsBase ==
    /\ CallsTypeOK
    /\ NoHitForgotten
    /\ NoSpendForgotten
    /\ \A t \in Threads : stage[t] # "idle" => key[t] \in RateKeys

LEMMA PendingFinite ==
    ASSUME NEW k, NEW until
    PROVE  /\ IsFiniteSet(Pending(k, until)) /\ Cardinality(Pending(k, until)) \in Nat
           /\ Cardinality(Pending(k, until)) <= Cardinality(Threads)
           /\ Cardinality(Threads) \in Nat
<1>1. Pending(k, until) \in SUBSET Threads
  BY DEF Pending
<1>. QED  BY <1>1, CallsAssumption, FS_Subset, FS_CardinalityType

LEMMA FinitePositions ==
    ASSUME NEW n \in Nat, NEW S, S \subseteq 1..n
    PROVE  IsFiniteSet(S) /\ Cardinality(S) \in Nat
<1>1. IsFiniteSet(1..n)
  BY 1 \in Int, n \in Int, FS_Interval
<1>2. IsFiniteSet(S)
  BY <1>1, S \in SUBSET (1..n), FS_Subset
<1>. QED  BY <1>2, FS_CardinalityType

LEMMA InWindowFinite ==
    ASSUME RateTypeOK, NEW k \in RateKeys, NEW from, NEW length
    PROVE  /\ IsFiniteSet(InWindow(k, from, length))
           /\ Cardinality(InWindow(k, from, length)) \in Nat
<1>1. Len(hits[k]) \in Nat /\ DOMAIN hits[k] = 1..Len(hits[k])
  BY LenProperties DEF RateTypeOK
<1>2. InWindow(k, from, length) \subseteq 1..Len(hits[k])
  BY <1>1 DEF InWindow
<1>. QED  BY <1>1, <1>2, FinitePositions

LEMMA PendingShrinks ==
    ASSUME NEW k, NEW until, Pending(k, until)' \subseteq Pending(k, until)
    PROVE  /\ Cardinality(Pending(k, until)') <= Cardinality(Pending(k, until))
           /\ Cardinality(Pending(k, until)') \in Nat
           /\ Cardinality(Pending(k, until)) \in Nat
BY PendingFinite, FS_Subset, FS_CardinalityType

LEMMA HitsFitKept ==
    ASSUME CallsBase, NEW limit \in Nat, NEW length \in Nat, HitsFit(limit, length), UNCHANGED hits,
           \A k : \A until \in Nat : Pending(k, until)' \subseteq Pending(k, until)
    PROVE  HitsFit(limit, length)'
<1>. SUFFICES ASSUME limit > 0, NEW k \in RateKeys, NEW from \in 0..MaxTime
              PROVE  Cardinality(InWindow(k, from, length)')
                         + Cardinality(Pending(k, from + length)')
                       < limit + Cardinality(Threads)
  BY DEF HitsFit
<1>1. InWindow(k, from, length)' = InWindow(k, from, length)
  BY DEF InWindow
<1>2. /\ Cardinality(Pending(k, from + length)') <= Cardinality(Pending(k, from + length))
      /\ Cardinality(Pending(k, from + length)') \in Nat
      /\ Cardinality(Pending(k, from + length)) \in Nat
  BY from + length \in Nat, PendingShrinks
<1>3. Cardinality(InWindow(k, from, length)) \in Nat /\ Cardinality(Threads) \in Nat
  BY InWindowFinite, PendingFinite DEF CallsBase, CallsTypeOK
<1>4. Cardinality(InWindow(k, from, length)) + Cardinality(Pending(k, from + length))
        < limit + Cardinality(Threads)
  BY DEF HitsFit
<1>. QED  BY <1>1, <1>2, <1>3, <1>4

(***************************************************************************)
(* A check that admits found fewer hits than the limit in every window     *)
(* that its thread can still add a hit to.                                 *)
(***************************************************************************)
LEMMA AdmittedFits ==
    ASSUME CallsBase, NEW k \in RateKeys, NEW at \in 0..MaxTime, at <= now, WithinLimits(k, at),
           NEW from \in 0..MaxTime, now <= from + Hour
    PROVE  /\ PerHour > 0 => Cardinality(InWindow(k, from, Hour)) < PerHour
           /\ PerMinute > 0 /\ now <= from + Minute =>
                Cardinality(InWindow(k, from, Minute)) < PerMinute
<1>. DEFINE queued == {i \in DOMAIN hits[k] : i >= PrunedHead(k, at)}
            recent == {i \in queued : hits[k][i] >= at - Minute}
<1>1. /\ hits[k] \in Seq(0..MaxTime) /\ head[k] \in Nat /\ now \in Nat
      /\ Len(hits[k]) \in Nat /\ DOMAIN hits[k] = 1..Len(hits[k])
      /\ \A i \in DOMAIN hits[k] : i \in Nat /\ hits[k][i] \in Nat
  <2>1. hits[k] \in Seq(0..MaxTime) /\ head[k] \in Nat /\ now \in Nat
    BY DEF CallsBase, CallsTypeOK, RateTypeOK, ClockTypeOK
  <2>2. Len(hits[k]) \in Nat /\ DOMAIN hits[k] = 1..Len(hits[k])
    BY <2>1, LenProperties
  <2>3. ASSUME NEW i \in DOMAIN hits[k]  PROVE i \in Nat /\ hits[k][i] \in Nat
    <3>1. i \in 1..Len(hits[k]) /\ i \in Nat
      BY <2>2
    <3>2. hits[k][i] \in 0..MaxTime
      BY <2>1, <3>1, ElementOf, Zenon
    <3>. QED  BY <3>1, <3>2
  <2>. QED  BY <2>1, <2>2, <2>3
<1>2. /\ PrunedHead(k, at) \in Nat
      /\ \A i \in DOMAIN hits[k] :
           i >= head[k] /\ i < PrunedHead(k, at) => hits[k][i] < at - Hour
  BY PrunedHeadFacts DEF CallsBase, CallsTypeOK
<1>3. ASSUME NEW i \in DOMAIN hits[k], hits[k][i] >= from
      PROVE  i \in queued
  <2>1. ~(hits[k][i] < now - Hour) /\ ~(hits[k][i] < at - Hour)
    BY <1>1, <1>3, RateAssumption
  <2>2. i < head[k] => hits[k][i] < now - Hour
    BY Zenon DEF CallsBase, NoHitForgotten
  <2>3. i >= head[k]
    BY <1>1, <2>1, <2>2
  <2>. QED  BY <1>1, <1>2, <2>1, <2>3
<1>4. InWindow(k, from, Hour) \subseteq queued
  BY <1>3 DEF InWindow
<1>5. ASSUME now <= from + Minute
      PROVE  InWindow(k, from, Minute) \subseteq recent
  <2>1. ASSUME NEW i \in DOMAIN hits[k], hits[k][i] >= from
        PROVE  hits[k][i] >= at - Minute
    <3>1. from >= at - Minute
      BY <1>1, <1>5, RateAssumption, ClockAssumption
    <3>. QED  BY <1>1, <2>1, <3>1, RateAssumption
  <2>. QED  BY <1>3, <2>1 DEF InWindow
<1>6. /\ IsFiniteSet(queued) /\ IsFiniteSet(recent)
      /\ Cardinality(queued) \in Nat /\ Cardinality(recent) \in Nat
  <2>1. queued \subseteq 1..Len(hits[k]) /\ recent \subseteq 1..Len(hits[k])
    BY <1>1
  <2>. HIDE DEF queued, recent
  <2>. QED  BY <1>1, <2>1, FinitePositions
<1>7. PerHour > 0 => Cardinality(queued) < PerHour
  BY RateAssumption DEF WithinLimits, RateDisabled
<1>8. PerMinute > 0 => Cardinality(recent) < PerMinute
  BY RateAssumption DEF WithinLimits, RateDisabled
<1>9. /\ Cardinality(InWindow(k, from, Hour)) \in Nat
      /\ Cardinality(InWindow(k, from, Minute)) \in Nat
  BY InWindowFinite DEF CallsBase, CallsTypeOK
<1>. HIDE DEF queued, recent
<1>10. Cardinality(InWindow(k, from, Hour)) <= Cardinality(queued)
  BY <1>4, <1>6, FS_Subset
<1>11. now <= from + Minute => Cardinality(InWindow(k, from, Minute)) <= Cardinality(recent)
  BY <1>5, <1>6, FS_Subset
<1>. QED  BY <1>6, <1>7, <1>8, <1>9, <1>10, <1>11, RateAssumption

LEMMA CheckRateFits ==
    ASSUME CallsBase, NEW t \in Threads, NEW k \in RateKeys, AdmitCall(t, k),
           NEW limit, NEW length,
           \/ limit = PerMinute /\ length = Minute
           \/ limit = PerHour /\ length = Hour,
           HitsFit(limit, length)
    PROVE  HitsFit(limit, length)'
<1>1. PICK at \in Stamps(t) :
        /\ RateCheck(k, at)
        /\ IF WithinLimits(k, at)
           THEN Enter(t, "rated") /\ key' = [key EXCEPT ![t] = k]
           ELSE UNCHANGED <<stage, key>>
  BY DEF AdmitCall
<1>2. /\ stage[t] = "idle" /\ since' = [since EXCEPT ![t] = now] /\ UNCHANGED hits
      /\ now \in Nat /\ at \in 0..MaxTime /\ at <= now
      /\ limit \in Nat /\ length \in Nat /\ length <= Hour /\ Hour \in Nat
  BY <1>1, StampTimes, RateAssumption
     DEF AdmitCall, RateCheck, Touch, CallsBase, CallsTypeOK, ClockTypeOK
<1>3. \A u \in Threads \ {t} : since'[u] = since[u]
  BY <1>2 DEF CallsBase, CallsTypeOK, ClockTypeOK
<1>4. CASE ~WithinLimits(k, at)
  <2>1. \A l : \A until \in Nat : Pending(l, until)' \subseteq Pending(l, until)
    BY <1>1, <1>2, <1>3, <1>4 DEF Pending
  <2>. QED  BY <1>2, <2>1, HitsFitKept
<1>5. CASE WithinLimits(k, at)
  <2>1. /\ stage'[t] = "rated" /\ key'[t] = k /\ since'[t] = now
        /\ \A u \in Threads \ {t} : stage'[u] = stage[u] /\ key'[u] = key[u]
    BY <1>1, <1>2, <1>5 DEF Enter, CallsBase, CallsTypeOK, ClockTypeOK
  <2>. SUFFICES ASSUME limit > 0, NEW l \in RateKeys, NEW from \in 0..MaxTime
                PROVE  Cardinality(InWindow(l, from, length)')
                         + Cardinality(Pending(l, from + length)')
                         < limit + Cardinality(Threads)
    BY DEF HitsFit
  <2>2. InWindow(l, from, length)' = InWindow(l, from, length)
    BY <1>2 DEF InWindow
  <2>3. Cardinality(InWindow(l, from, length)) \in Nat
    BY InWindowFinite DEF CallsBase, CallsTypeOK
  <2>4. CASE l = k /\ now <= from + length
    <3>1. Cardinality(InWindow(l, from, length)) < limit
      BY <1>2, <1>5, <2>4, AdmittedFits
    <3>2. /\ Cardinality(Pending(l, from + length)') <= Cardinality(Threads)
          /\ Cardinality(Pending(l, from + length)') \in Nat /\ Cardinality(Threads) \in Nat
      <4>1. Pending(l, from + length)' \in SUBSET Threads
        BY DEF Pending
      <4>. QED  BY <4>1, CallsAssumption, FS_Subset, FS_CardinalityType
    <3>. QED  BY <1>2, <2>2, <2>3, <3>1, <3>2
  <2>5. CASE l # k \/ ~(now <= from + length)
    <3>1. Pending(l, from + length)' \subseteq Pending(l, from + length)
      BY <1>2, <1>3, <2>1, <2>5 DEF Pending
    <3>2. /\ Cardinality(Pending(l, from + length)') <= Cardinality(Pending(l, from + length))
          /\ Cardinality(Pending(l, from + length)') \in Nat
          /\ Cardinality(Pending(l, from + length)) \in Nat
          /\ Cardinality(Threads) \in Nat
      BY <3>1, PendingShrinks, PendingFinite
    <3>3. Cardinality(InWindow(l, from, length)) + Cardinality(Pending(l, from + length))
            < limit + Cardinality(Threads)
      BY DEF HitsFit
    <3>. QED  BY <1>2, <2>2, <2>3, <3>2, <3>3
  <2>. QED  BY <2>4, <2>5
<1>. QED  BY <1>4, <1>5

LEMMA RecordHitFits ==
    ASSUME CallsBase, NEW t \in Threads, RecordHit(t), NEW limit \in Nat, NEW length \in Nat,
           HitsFit(limit, length)
    PROVE  HitsFit(limit, length)'
<1>1. PICK at \in Stamps(t) : RateRecord(key[t], at)
  BY DEF RecordHit
<1>2. PICK k \in RateKeys : k = key[t]
  BY DEF RecordHit, CallsBase
<1>3. /\ stage[t] = "priced" /\ stage'[t] = "calling" /\ UNCHANGED key
      /\ since[t] <= at /\ at \in 0..MaxTime
      /\ \A u \in Threads \ {t} : stage'[u] = stage[u] /\ since'[u] = since[u]
      /\ since[t] \in Nat
  BY <1>1, StampTimes DEF RecordHit, Enter, Touch, Stamps, CallsBase, CallsTypeOK, ClockTypeOK
<1>4. \A l, until : Pending(l, until)' = Pending(l, until) \ {t}
  BY <1>3 DEF Pending
<1>5. PICK n : n = Len(hits[k]) + 1
  OBVIOUS
<1>6. /\ n \in Nat /\ DOMAIN hits[k] = 1..(n - 1) /\ n \notin DOMAIN hits[k]
      /\ DOMAIN hits'[k] = DOMAIN hits[k] \cup {n} /\ hits'[k][n] = at
      /\ \A i \in DOMAIN hits[k] : hits'[k][i] = hits[k][i]
      /\ \A l \in RateKeys \ {k} : hits'[l] = hits[l]
  <2>1. hits' = [hits EXCEPT ![k] = Append(hits[k], at)] /\ hits[k] \in Seq(0..MaxTime)
    BY <1>1, <1>2 DEF RateRecord, CallsBase, CallsTypeOK, RateTypeOK
  <2>2. hits'[k] = Append(hits[k], at) /\ \A l \in RateKeys \ {k} : hits'[l] = hits[l]
    BY <2>1 DEF CallsBase, CallsTypeOK, RateTypeOK
  <2>. QED  BY <1>3, <1>5, <2>1, <2>2
<1>. SUFFICES ASSUME limit > 0, NEW l \in RateKeys, NEW from \in 0..MaxTime
              PROVE  Cardinality(InWindow(l, from, length)')
                         + Cardinality(Pending(l, from + length)')
                       < limit + Cardinality(Threads)
  BY DEF HitsFit
<1>. PICK until \in Nat : until = from + length
  OBVIOUS
<1>7. /\ Cardinality(InWindow(l, from, length)) + Cardinality(Pending(l, until))
           < limit + Cardinality(Threads)
      /\ IsFiniteSet(InWindow(l, from, length)) /\ Cardinality(InWindow(l, from, length)) \in Nat
      /\ IsFiniteSet(Pending(l, until)) /\ Cardinality(Pending(l, until)) \in Nat
      /\ Cardinality(Threads) \in Nat
  BY InWindowFinite, PendingFinite DEF HitsFit, CallsBase, CallsTypeOK
<1>8. /\ Cardinality(Pending(l, until)') \in Nat
      /\ Cardinality(Pending(l, until)') =
           IF t \in Pending(l, until) THEN Cardinality(Pending(l, until)) - 1
                                      ELSE Cardinality(Pending(l, until))
  BY <1>4, <1>7, FS_RemoveElement, FS_CardinalityType
<1>9. CASE l = k /\ at >= from /\ at <= until
  <2>1. InWindow(l, from, length)' = InWindow(l, from, length) \cup {n}
    BY <1>6, <1>9 DEF InWindow
  <2>2. t \in Pending(l, until)
    BY <1>2, <1>3, <1>9 DEF Pending
  <2>3. n \notin InWindow(l, from, length)
    BY <1>6, <1>9 DEF InWindow
  <2>4. Cardinality(InWindow(l, from, length)') = Cardinality(InWindow(l, from, length)) + 1
    BY <1>7, <2>1, <2>3, FS_AddElement
  <2>. QED  BY <1>7, <1>8, <2>2, <2>4
<1>10. CASE ~(l = k /\ at >= from /\ at <= until)
  <2>1. InWindow(l, from, length)' = InWindow(l, from, length)
    BY <1>6, <1>10 DEF InWindow
  <2>. QED  BY <1>7, <1>8, <2>1
<1>. QED  BY <1>9, <1>10

-----------------------------------------------------------------------------
(***************************************************************************)
(* The overshoot of the ledger.  A thread whose projection was accepted    *)
(* and that has not left may still spend as much as any call can cost: a   *)
(* window's spend and what is committed to it stay below the limit and one *)
(* such call per thread.                                                   *)
(***************************************************************************)
MostSpent == CHOOSE most \in Actuals : \A n \in Actuals : n <= most

Committed == {t \in Threads : stage[t] \in {"priced", "calling"}}

SpendFits(w) ==
    Active(w) => InWindowSpend(w) + Cardinality(Committed) * MostSpent
                   < Limit[w] + Cardinality(Threads) * MostSpent

Windowed(w) ==
    [i \in DOMAIN ledger |-> IF ledger[i].at >= now - Duration[w] THEN ledger[i].amount ELSE 0]

LEMMA MostSpentIsMost ==
    MostSpent \in Actuals /\ MostSpent \in Nat /\ \A n \in Actuals : n <= MostSpent
<1>1. MostSpent \in Actuals /\ \A n \in Actuals : n <= MostSpent
  BY CallsAssumption, Zenon DEF MostSpent
<1>. QED  BY <1>1, CallsAssumption

LEMMA Multiples ==
    ASSUME NEW a \in Nat, NEW b \in Nat, NEW m \in Nat, a <= b
    PROVE  /\ a * m \in Nat /\ b * m \in Nat /\ a * m <= b * m
           /\ (a + 1) * m = a * m + m
<1>1. PICK d \in Nat : b = a + d
  BY b - a \in Nat
<1>2. a * m \in Nat /\ d * m \in Nat /\ (a + d) * m = a * m + d * m
  OBVIOUS
<1>3. (a + 1) * m = a * m + m
  OBVIOUS
<1>. QED  BY <1>1, <1>2, <1>3

LEMMA CommittedFinite ==
    /\ IsFiniteSet(Committed) /\ Cardinality(Committed) \in Nat
    /\ Cardinality(Committed) <= Cardinality(Threads) /\ Cardinality(Threads) \in Nat
<1>1. Committed \in SUBSET Threads
  BY DEF Committed
<1>. QED  BY <1>1, CallsAssumption, FS_Subset, FS_CardinalityType

LEMMA LedgerEntries ==
    ASSUME LedgerTypeOK
    PROVE  /\ Len(ledger) \in Nat /\ DOMAIN ledger = 1..Len(ledger)
           /\ \A i \in DOMAIN ledger : i \in Nat /\ ledger[i].at \in Nat /\ ledger[i].amount \in Nat
<1>1. ledger \in Seq([at : 0..MaxTime, amount : Nat])
  BY DEF LedgerTypeOK
<1>2. Len(ledger) \in Nat /\ DOMAIN ledger = 1..Len(ledger)
  BY <1>1, LenProperties
<1>3. ASSUME NEW i \in DOMAIN ledger
      PROVE  i \in Nat /\ ledger[i].at \in Nat /\ ledger[i].amount \in Nat
  <2>1. i \in 1..Len(ledger) /\ i \in Nat
    BY <1>2
  <2>2. ledger[i] \in [at : 0..MaxTime, amount : Nat]
    BY <1>1, <2>1, ElementOf, Zenon
  <2>. QED  BY <2>1, <2>2
<1>. QED  BY <1>2, <1>3

LEMMA SeqOfAmounts ==
    ASSUME LedgerTypeOK, NEW a, DOMAIN a = DOMAIN ledger, a = [i \in DOMAIN ledger |-> a[i]],
           \A i \in DOMAIN ledger : a[i] \in Nat
    PROVE  a \in Seq(Nat) /\ Len(a) = Len(ledger)
<1>1. a \in [1..Len(ledger) -> Nat] /\ Len(ledger) \in Nat /\ DOMAIN a = 1..Len(ledger)
  BY LedgerEntries
<1>2. \A m \in Nat : \A f \in [1..m -> Nat] : f \in Seq(Nat)
  BY SeqDef
<1>3. a \in Seq(Nat)
  BY <1>1, <1>2
<1>4. Len(a) \in Nat /\ 1..Len(a) = 1..Len(ledger)
  BY <1>1, <1>3, LenProperties
<1>. QED  BY <1>1, <1>3, <1>4, SameLength, Zenon

LEMMA WindowedFacts ==
    ASSUME LedgerTypeOK, NEW w
    PROVE  /\ Windowed(w) \in Seq(Nat) /\ Len(Windowed(w)) = Len(ledger)
           /\ InWindowSpend(w) = Total(Windowed(w)) /\ InWindowSpend(w) \in Nat
<1>1. PICK a : a = Windowed(w)
  OBVIOUS
<1>2. DOMAIN a = DOMAIN ledger /\ \A i \in DOMAIN ledger : a[i] \in Nat
  BY <1>1, LedgerEntries DEF Windowed
<1>3. a = [i \in DOMAIN ledger |-> a[i]]
  BY <1>1 DEF Windowed
<1>4. a \in Seq(Nat) /\ Len(a) = Len(ledger)
  BY <1>2, <1>3, SeqOfAmounts
<1>5. InWindowSpend(w) = Total(a)
  BY <1>1 DEF InWindowSpend, Windowed
<1>. QED  BY <1>1, <1>4, <1>5, TotalType

(***************************************************************************)
(* What the deque of window w holds after pruning is no less than what was *)
(* spent in the window, so an accepted projection leaves room for itself.  *)
(***************************************************************************)
LEMMA SpentCoversWindow ==
    ASSUME CallsBase, NEW w \in RollingWindows, NEW at \in 0..MaxTime, at <= now
    PROVE  InWindowSpend(w) <= Spent(w, at) /\ Spent(w, at) \in Nat
<1>. DEFINE p == Pruned(w, at)
            held == [i \in DOMAIN ledger |-> IF i >= p THEN ledger[i].amount ELSE 0]
<1>0. LedgerTypeOK /\ now \in Nat /\ w \in WindowNames
  BY DEF CallsBase, CallsTypeOK, ClockTypeOK, RollingWindows, WindowNames
<1>1. PICK a : a = held
  OBVIOUS
<1>2. DOMAIN a = DOMAIN ledger /\ a = [i \in DOMAIN ledger |-> a[i]]
      /\ \A i \in DOMAIN ledger : a[i] \in Nat
  BY <1>0, <1>1, LedgerEntries
<1>3. a \in Seq(Nat) /\ Len(a) = Len(ledger)
  BY <1>0, <1>2, SeqOfAmounts
<1>4. Spent(w, at) = Total(a)
  BY <1>1 DEF Spent, SumFrom
<1>5. PICK b : b = Windowed(w)
  OBVIOUS
<1>6. b \in Seq(Nat) /\ Len(b) = Len(ledger) /\ InWindowSpend(w) = Total(b)
  BY <1>0, <1>5, WindowedFacts
<1>7. ASSUME NEW i \in DOMAIN ledger
      PROVE  b[i] <= a[i]
  <2>0. i \in Nat /\ ledger[i].at \in Nat /\ ledger[i].amount \in Nat /\ start[w] \in Nat
        /\ Duration[w] \in Nat /\ p \in Nat
    BY <1>0, LedgerEntries, DurationType, PrunedFacts DEF LedgerTypeOK
  <2>1. CASE ledger[i].at >= now - Duration[w]
    <3>1. i >= start[w]
      BY <1>0, <2>0, <2>1 DEF CallsBase, NoSpendForgotten
    <3>2. Keeps(w, ledger[i], at)
      BY <1>0, <2>0, <2>1 DEF Keeps
    <3>3. i >= p
      BY <1>0, <2>0, <3>1, <3>2, PrunedFacts
    <3>. HIDE DEF p
    <3>. QED  BY <1>1, <1>5, <2>0, <2>1, <3>3 DEF Windowed
  <2>2. CASE ~(ledger[i].at >= now - Duration[w])
    BY <1>1, <1>2, <1>5, <2>0, <2>2 DEF Windowed
  <2>. QED  BY <2>1, <2>2
<1>8. \A i \in 1..Len(b) : b[i] <= a[i]
  BY <1>0, <1>6, <1>7, LedgerEntries
<1>. QED  BY <1>3, <1>4, <1>6, <1>8, TotalMonotone, TotalType

LEMMA SpendKept ==
    ASSUME CallsBase, NEW w \in RollingWindows, SpendFits(w), UNCHANGED <<ledger, now>>,
           Committed' \subseteq Committed
    PROVE  SpendFits(w)'
<1>1. InWindowSpend(w)' = InWindowSpend(w)
  BY DEF InWindowSpend, Duration
<1>2. /\ Cardinality(Committed') <= Cardinality(Committed)
      /\ Cardinality(Committed') \in Nat /\ Cardinality(Committed) \in Nat
  BY CommittedFinite, FS_Subset, FS_CardinalityType
<1>3. /\ Cardinality(Committed') * MostSpent <= Cardinality(Committed) * MostSpent
      /\ Cardinality(Committed') * MostSpent \in Nat /\ Cardinality(Committed) * MostSpent \in Nat
  BY <1>2, MostSpentIsMost, Multiples
<1>4. PICK bound : bound = Limit[w] + Cardinality(Threads) * MostSpent
  OBVIOUS
<1>5. bound \in Nat /\ InWindowSpend(w) \in Nat
  <2>1. Cardinality(Threads) * MostSpent \in Nat /\ Limit[w] \in Nat
    BY CommittedFinite, MostSpentIsMost, Multiples, LedgerAssumption DEF RollingWindows, WindowNames
  <2>. QED  BY <1>4, <2>1, WindowedFacts DEF CallsBase, CallsTypeOK
<1>. QED  BY <1>1, <1>3, <1>4, <1>5 DEF SpendFits, Active

(***************************************************************************)
(* An accepted projection is at least one unit and was within the limit,   *)
(* so what the window held before it is below the limit.                   *)
(***************************************************************************)
LEMMA AdmittedSpend ==
    ASSUME CallsBase, NEW n \in Projections, NEW at \in 0..MaxTime, at <= now,
           BudgetState(Priced(n), at) # "exceeded", NEW w \in RollingWindows, Active(w)
    PROVE  InWindowSpend(w) < Limit[w]
<1>1. w \in WindowNames /\ n \in Nat /\ n >= 1
  BY CallsAssumption DEF RollingWindows, WindowNames
<1>2. PICK cost : cost = Priced(n)
  OBVIOUS
<1>3. cost.known /\ cost.amount = n
  BY <1>2 DEF Priced
<1>4. ~Over(w, n, at)
  <2>1. CASE PerRequest > 0 /\ cost.amount > PerRequest
    <3>1. BudgetState(cost, at) = "exceeded"
      BY <1>3, <2>1, Zenon DEF BudgetState
    <3>. QED  BY <1>2, <3>1
  <2>2. CASE ~(PerRequest > 0 /\ cost.amount > PerRequest)
    <3>1. BudgetState(cost, at) =
            IF \E v \in WindowNames : Over(v, cost.amount, at) THEN "exceeded"
            ELSE IF \E v \in WindowNames : Near(v, cost.amount, at) THEN "warning"
            ELSE "healthy"
      BY <1>3, <2>2, Zenon DEF BudgetState
    <3>2. ~\E v \in WindowNames : Over(v, cost.amount, at)
      BY <1>2, <3>1
    <3>. QED  BY <1>1, <1>3, <3>2
  <2>. QED  BY <2>1, <2>2
<1>5. InWindowSpend(w) <= Spent(w, at) /\ Spent(w, at) \in Nat
  BY SpentCoversWindow
<1>6. InWindowSpend(w) \in Nat /\ Limit[w] \in Nat
  BY <1>1, WindowedFacts, LedgerAssumption DEF CallsBase, CallsTypeOK
<1>7. Spent(w, at) + n <= Limit[w]
  BY <1>1, <1>4, <1>5, <1>6 DEF Over
<1>. QED  BY <1>1, <1>5, <1>6, <1>7

LEMMA CheckBudgetFits ==
    ASSUME CallsBase, NEW t \in Threads, NEW n \in Projections, PriceCall(t, Priced(n)),
           NEW w \in RollingWindows, SpendFits(w)
    PROVE  SpendFits(w)'
<1>1. PICK at \in Stamps(t) :
        /\ LedgerCheck(Priced(n), at)
        /\ IF BudgetState(Priced(n), at) = "exceeded"
           THEN Leave(t) ELSE Enter(t, "priced") /\ UNCHANGED key
  BY DEF PriceCall
<1>2. /\ UNCHANGED <<ledger, now>> /\ at \in 0..MaxTime /\ at <= now /\ stage[t] = "rated"
      /\ stage \in [Threads -> Stages]
  BY <1>1, StampTimes DEF PriceCall, LedgerCheck, Touch, CallsBase, CallsTypeOK
<1>3. CASE BudgetState(Priced(n), at) = "exceeded"
  <2>1. Committed' \subseteq Committed
    BY <1>1, <1>2, <1>3 DEF Committed, Leave, Enter
  <2>. QED  BY <1>2, <2>1, SpendKept
<1>4. CASE BudgetState(Priced(n), at) # "exceeded"
  <2>. SUFFICES ASSUME Active(w)
                PROVE  InWindowSpend(w)' + Cardinality(Committed') * MostSpent
                         < Limit[w] + Cardinality(Threads) * MostSpent
    BY DEF SpendFits, Active
  <2>1. InWindowSpend(w) < Limit[w]
    BY <1>2, <1>4, AdmittedSpend
  <2>2. InWindowSpend(w)' = InWindowSpend(w)
    BY <1>2 DEF InWindowSpend, Duration
  <2>3. /\ Cardinality(Committed') <= Cardinality(Threads)
        /\ Cardinality(Committed') \in Nat /\ Cardinality(Threads) \in Nat
    <3>1. Committed' \in SUBSET Threads
      BY DEF Committed
    <3>. QED  BY <3>1, CallsAssumption, FS_Subset, FS_CardinalityType
  <2>4. /\ Cardinality(Committed') * MostSpent <= Cardinality(Threads) * MostSpent
        /\ Cardinality(Committed') * MostSpent \in Nat /\ Cardinality(Threads) * MostSpent \in Nat
    BY <2>3, MostSpentIsMost, Multiples
  <2>5. InWindowSpend(w) \in Nat /\ Limit[w] \in Nat
    BY WindowedFacts, LedgerAssumption DEF CallsBase, CallsTypeOK, RollingWindows, WindowNames
  <2>. QED  BY <2>1, <2>2, <2>4, <2>5
<1>. QED  BY <1>3, <1>4

(***************************************************************************)
(* A recorded cost enters the window and its thread leaves the committed   *)
(* ones: what the window gains is no more than what was set aside for it.  *)
(***************************************************************************)
LEMMA RecordedSpend ==
    ASSUME CallsBase, NEW w \in RollingWindows, NEW at \in 0..MaxTime, NEW n \in Nat,
           ledger' = Append(ledger, [at |-> at, amount |-> n]), UNCHANGED now
    PROVE  /\ InWindowSpend(w)' \in Nat
           /\ InWindowSpend(w)' <= InWindowSpend(w) + n
<1>1. PICK a : a = Windowed(w)
  OBVIOUS
<1>2. a \in Seq(Nat) /\ Len(a) = Len(ledger) /\ InWindowSpend(w) = Total(a) /\ Len(ledger) \in Nat
  BY <1>1, WindowedFacts, LedgerEntries DEF CallsBase, CallsTypeOK
<1>3. PICK e : e = IF at >= now - Duration[w] THEN n ELSE 0
  OBVIOUS
<1>4. e \in Nat /\ e <= n
  BY <1>3
<1>5. PICK b : b = [i \in DOMAIN ledger' |->
                      IF ledger'[i].at >= now' - Duration[w] THEN ledger'[i].amount ELSE 0]
  OBVIOUS
<1>6. InWindowSpend(w)' = Total(b)
  BY <1>5, Zenon DEF InWindowSpend, Duration
<1>7. PICK len \in Nat : len = Len(ledger)
  BY <1>2
<1>8. /\ DOMAIN ledger' = 1..(len + 1) /\ DOMAIN ledger = 1..len
      /\ ledger'[len + 1] = [at |-> at, amount |-> n]
      /\ \A i \in 1..len : ledger'[i] = ledger[i]
  <2>1. ledger \in Seq([at : 0..MaxTime, amount : Nat])
    BY DEF CallsBase, CallsTypeOK, LedgerTypeOK
  <2>2. [at |-> at, amount |-> n] \in [at : 0..MaxTime, amount : Nat]
    OBVIOUS
  <2>3. PICK x \in [at : 0..MaxTime, amount : Nat] : x = [at |-> at, amount |-> n]
    BY <2>2
  <2>4. ledger' = Append(ledger, x)
    BY <2>3
  <2>. QED  BY <1>7, <2>1, <2>3, <2>4
<1>9. b[len + 1] = e /\ \A i \in 1..len : b[i] = a[i] /\ a[i] \in Nat
  <2>1. b[len + 1] = IF ledger'[len + 1].at >= now' - Duration[w] THEN ledger'[len + 1].amount ELSE 0
    BY <1>5, <1>8
  <2>2. b[len + 1] = e
    BY <1>3, <1>8, <2>1
  <2>3. ASSUME NEW i \in 1..len  PROVE b[i] = a[i] /\ a[i] \in Nat
    <3>1. i \in 1..(len + 1)
      OBVIOUS
    <3>2. a[i] = IF ledger[i].at >= now - Duration[w] THEN ledger[i].amount ELSE 0
      BY <1>1, <1>8 DEF Windowed
    <3>3. b[i] = IF ledger'[i].at >= now' - Duration[w] THEN ledger'[i].amount ELSE 0
      BY <1>5, <1>8, <3>1
    <3>4. a[i] \in Nat
      BY <1>2, <1>7
    <3>. QED  BY <1>8, <3>2, <3>3, <3>4
  <2>. QED  BY <2>2, <2>3
<1>10. b \in [1..(len + 1) -> Nat] /\ a \in [1..len -> Nat]
  <2>1. b = [i \in 1..(len + 1) |-> b[i]]
    BY <1>5, <1>8
  <2>2. ASSUME NEW i \in 1..(len + 1)  PROVE b[i] \in Nat
    BY <1>4, <1>9
  <2>3. a \in [1..len -> Nat]
    BY <1>2, <1>7
  <2>. QED  BY <2>1, <2>2, <2>3
<1>11. b = Append(a, e)
  <2>1. \A i \in 1..len : b[i] = a[i]
    BY <1>9
  <2>2. b = Append(a, b[len + 1])
    BY <1>10, <2>1, AppendedOne, Zenon
  <2>. QED  BY <1>9, <2>2
<1>12. Total(b) = Total(a) + e /\ Total(a) \in Nat
  BY <1>2, <1>4, <1>11, TotalAppend, TotalType
<1>. QED  BY <1>2, <1>4, <1>6, <1>12

LEMMA SpendRecordedFits ==
    ASSUME NEW spend \in Nat, NEW more \in Nat, NEW n \in Nat, NEW most \in Nat, NEW rest \in Nat,
           NEW limit \in Nat, NEW bound \in Nat, n <= most, more <= spend + n,
           spend + (rest + most) < limit + bound
    PROVE  more + rest < limit + bound
OBVIOUS

LEMMA RecordSpendFits ==
    ASSUME CallsBase, NEW t \in Threads, NEW cost, RecordSpend(t, cost),
           \/ cost = Unpriced
           \/ \E n \in Actuals : cost = Priced(n),
           NEW w \in RollingWindows, SpendFits(w)
    PROVE  SpendFits(w)'
<1>1. PICK at \in Stamps(t) : LedgerRecord(cost, at)
  BY DEF RecordSpend
<1>2. /\ UNCHANGED now /\ at \in 0..MaxTime /\ stage[t] = "calling"
      /\ stage' = [stage EXCEPT ![t] = "idle"] /\ stage \in [Threads -> Stages]
  BY <1>1, StampTimes DEF RecordSpend, Touch, Leave, Enter, CallsBase, CallsTypeOK
<1>3. Committed' = Committed \ {t} /\ t \in Committed
  BY <1>2 DEF Committed
<1>4. CASE cost = Unpriced
  <2>1. UNCHANGED ledger
    BY <1>1, <1>4 DEF LedgerRecord, Unpriced
  <2>2. Committed' \subseteq Committed
    BY <1>3
  <2>. QED  BY <1>2, <2>1, <2>2, SpendKept
<1>5. ASSUME NEW n \in Actuals, cost = Priced(n)
      PROVE  SpendFits(w)'
  <2>. SUFFICES ASSUME Active(w)
                PROVE  InWindowSpend(w)' + Cardinality(Committed') * MostSpent
                         < Limit[w] + Cardinality(Threads) * MostSpent
    BY DEF SpendFits, Active
  <2>1. n \in Nat /\ n <= MostSpent /\ MostSpent \in Nat
    BY CallsAssumption, MostSpentIsMost
  <2>2. ledger' = Append(ledger, [at |-> at, amount |-> n])
    BY <1>1, <1>5 DEF LedgerRecord, Priced
  <2>3. InWindowSpend(w)' \in Nat /\ InWindowSpend(w)' <= InWindowSpend(w) + n
    BY <1>2, <2>1, <2>2, RecordedSpend
  <2>4. /\ Cardinality(Committed') \in Nat
        /\ Cardinality(Committed) = Cardinality(Committed') + 1
        /\ Cardinality(Threads) \in Nat
    <3>1. IsFiniteSet(Committed) /\ Cardinality(Committed) \in Nat /\ Cardinality(Threads) \in Nat
      BY CommittedFinite
    <3>2. IsFiniteSet(Committed \ {t}) /\ Cardinality(Committed \ {t}) = Cardinality(Committed) - 1
      BY <1>3, <3>1, FS_RemoveElement
    <3>3. Cardinality(Committed \ {t}) \in Nat
      BY <3>2, FS_CardinalityType
    <3>. QED  BY <1>3, <3>1, <3>2, <3>3
  <2>5. PICK rest : rest = Cardinality(Committed') * MostSpent
    OBVIOUS
  <2>6. PICK bound : bound = Cardinality(Threads) * MostSpent
    OBVIOUS
  <2>7. rest \in Nat /\ Cardinality(Committed) * MostSpent = rest + MostSpent
    BY <2>1, <2>4, <2>5, Multiples
  <2>8. bound \in Nat
    BY <2>1, <2>4, <2>6, Multiples
  <2>9. InWindowSpend(w) \in Nat /\ Limit[w] \in Nat
    BY WindowedFacts, LedgerAssumption DEF CallsBase, CallsTypeOK, RollingWindows, WindowNames
  <2>10. InWindowSpend(w) + (rest + MostSpent) < Limit[w] + bound
    BY <2>6, <2>7 DEF SpendFits
  <2>. QED  BY <2>1, <2>3, <2>5, <2>6, <2>7, <2>8, <2>9, <2>10, SpendRecordedFits, Zenon
<1>. QED  BY <1>4, <1>5

\* Time only takes entries out of a rolling window.
LEMMA TickFits ==
    ASSUME CallsBase, Tick, UNCHANGED <<ledger, stage>>, NEW w \in RollingWindows, SpendFits(w)
    PROVE  SpendFits(w)'
<1>1. PICK a : a = Windowed(w)
  OBVIOUS
<1>2. PICK b : b = [i \in DOMAIN ledger |->
                      IF ledger[i].at >= now' - Duration[w] THEN ledger[i].amount ELSE 0]
  OBVIOUS
<1>3. /\ a \in Seq(Nat) /\ Len(a) = Len(ledger) /\ InWindowSpend(w) = Total(a)
      /\ LedgerTypeOK /\ now \in Nat /\ now' = now + 1 /\ Duration[w] \in Nat
  BY <1>1, WindowedFacts, DurationType DEF CallsBase, CallsTypeOK, ClockTypeOK, Tick
<1>4. /\ DOMAIN b = DOMAIN ledger /\ b = [i \in DOMAIN ledger |-> b[i]]
      /\ \A i \in DOMAIN ledger : b[i] \in Nat /\ b[i] <= a[i]
  <2>1. ASSUME NEW i \in DOMAIN ledger  PROVE b[i] \in Nat /\ b[i] <= a[i]
    <3>1. ledger[i].at \in Nat /\ ledger[i].amount \in Nat
      BY <1>3, LedgerEntries
    <3>2. a[i] = IF ledger[i].at >= now - Duration[w] THEN ledger[i].amount ELSE 0
      BY <1>1 DEF Windowed
    <3>3. b[i] = IF ledger[i].at >= now' - Duration[w] THEN ledger[i].amount ELSE 0
      BY <1>2
    <3>. QED  BY <1>3, <3>1, <3>2, <3>3
  <2>. QED  BY <1>2, <2>1
<1>5. b \in Seq(Nat) /\ Len(b) = Len(ledger)
  BY <1>3, <1>4, SeqOfAmounts
<1>6. \A i \in 1..Len(b) : b[i] <= a[i]
  BY <1>3, <1>4, <1>5, LedgerEntries
<1>7. Total(b) <= Total(a) /\ Total(b) \in Nat /\ Total(a) \in Nat
  BY <1>3, <1>5, <1>6, TotalMonotone, TotalType
<1>8. InWindowSpend(w)' = Total(b)
  BY <1>2, Zenon DEF InWindowSpend, Duration
<1>9. Committed' = Committed
  BY DEF Committed
<1>10. /\ Cardinality(Committed) * MostSpent \in Nat /\ Cardinality(Threads) * MostSpent \in Nat
       /\ Limit[w] \in Nat
  BY CommittedFinite, MostSpentIsMost, Multiples, LedgerAssumption DEF RollingWindows, WindowNames
<1>. QED  BY <1>3, <1>7, <1>8, <1>9, <1>10 DEF SpendFits, Active

-----------------------------------------------------------------------------
(***************************************************************************)
(* The inductive invariant of the calls: types and logs as above, and both *)
(* overshoots with what the threads between check and record still add.    *)
(***************************************************************************)
CallsInv ==
    /\ CallsBase
    /\ HitsFit(PerMinute, Minute)
    /\ HitsFit(PerHour, Hour)
    /\ \A w \in RollingWindows : SpendFits(w)

LEMMA CallsInitInv == CallsInit => CallsInv
<1>. SUFFICES ASSUME CallsInit PROVE CallsInv
  OBVIOUS
<1>1. now = 0 /\ ledger = <<>> /\ start = [w \in WindowNames |-> 1]
      /\ hits = [k \in RateKeys |-> <<>>] /\ head = [k \in RateKeys |-> 1]
      /\ since = [t \in Threads |-> 0] /\ stage = [t \in Threads |-> "idle"]
      /\ key = [t \in Threads |-> NoKey]
  BY DEF CallsInit, ClockInit, RateInit, LedgerInit
<1>2. CallsTypeOK
  <2>1. ClockTypeOK
    BY <1>1, ClockAssumption DEF ClockTypeOK
  <2>2. RateTypeOK
    BY <1>1 DEF RateTypeOK
  <2>3. LedgerTypeOK
    BY <1>1 DEF LedgerTypeOK
  <2>4. stage \in [Threads -> Stages] /\ key \in [Threads -> RateKeys \cup {NoKey}]
    BY <1>1 DEF Stages
  <2>. QED  BY <2>1, <2>2, <2>3, <2>4 DEF CallsTypeOK
<1>3. CallsBase
  BY <1>1, <1>2 DEF CallsBase, NoHitForgotten, NoSpendForgotten
<1>4. ASSUME NEW limit \in Nat, NEW length \in Nat  PROVE HitsFit(limit, length)
  <2>. SUFFICES ASSUME limit > 0, NEW k \in RateKeys, NEW from \in 0..MaxTime
                PROVE  Cardinality(InWindow(k, from, length))
                         + Cardinality(Pending(k, from + length))
                         < limit + Cardinality(Threads)
    BY DEF HitsFit
  <2>1. InWindow(k, from, length) = {} /\ Pending(k, from + length) = {}
    BY <1>1 DEF InWindow, Pending
  <2>2. Cardinality({}) = 0 /\ Cardinality(Threads) \in Nat
    BY FS_EmptySet, PendingFinite
  <2>. QED  BY <2>1, <2>2
<1>5. ASSUME NEW w \in RollingWindows  PROVE SpendFits(w)
  <2>1. Committed = {} /\ Cardinality({}) = 0
    BY <1>1, FS_EmptySet DEF Committed
  <2>2. PICK a : a = Windowed(w)
    OBVIOUS
  <2>3. a \in Seq(Nat) /\ Len(a) = 0 /\ InWindowSpend(w) = Total(a)
    BY <1>1, <1>3, <2>2, WindowedFacts DEF CallsBase, CallsTypeOK
  <2>4. Total(a) = 0
    <3>1. PICK f : Sums(a, f) /\ Total(a) = f[Len(a)]
      BY <2>3, TotalSums
    <3>2. f[0] = 0
      BY <2>3, <3>1, SumsValues
    <3>. QED  BY <2>3, <3>1, <3>2
  <2>5. Cardinality(Threads) * MostSpent \in Nat /\ 0 * MostSpent = 0 /\ Limit[w] \in Nat
    BY CommittedFinite, MostSpentIsMost, Multiples, LedgerAssumption DEF RollingWindows, WindowNames
  <2>. QED  BY <2>1, <2>3, <2>4, <2>5 DEF SpendFits, Active
<1>. QED  BY <1>3, <1>4, <1>5, RateAssumption DEF CallsInv

(***************************************************************************)
(* Types and logs survive every step.                                      *)
(***************************************************************************)
LEMMA CallsNextBase == CallsBase /\ [CallsNext]_callVars => CallsBase'
<1>. SUFFICES ASSUME CallsBase, [CallsNext]_callVars PROVE CallsBase'
  OBVIOUS
<1>0. /\ ClockTypeOK /\ RateTypeOK /\ LedgerTypeOK /\ NoHitForgotten /\ NoSpendForgotten
      /\ now \in 0..MaxTime
      /\ stage \in [Threads -> Stages] /\ key \in [Threads -> RateKeys \cup {NoKey}]
      /\ \A t \in Threads : stage[t] # "idle" => key[t] \in RateKeys
  BY DEF CallsBase, CallsTypeOK, ClockTypeOK
<1>. DEFINE Kept == /\ RateTypeOK' /\ NoHitForgotten' /\ LedgerTypeOK' /\ NoSpendForgotten'
            Placed == /\ stage' \in [Threads -> Stages]
                      /\ key' \in [Threads -> RateKeys \cup {NoKey}]
                      /\ \A t \in Threads : stage'[t] # "idle" => key'[t] \in RateKeys
<1>1. ASSUME ClockTypeOK', Kept, Placed
      PROVE  CallsBase'
  BY <1>1 DEF CallsBase, CallsTypeOK
<1>2. ASSUME NEW t \in Threads, Touch(t)  PROVE ClockTypeOK' /\ UNCHANGED now
  BY <1>0, <1>2, TouchClock
<1>3. ASSUME UNCHANGED <<rateVars, now>>  PROVE RateTypeOK' /\ NoHitForgotten'
  BY <1>0, <1>3 DEF rateVars, RateTypeOK, NoHitForgotten
<1>4. ASSUME UNCHANGED <<ledgerVars, now>>  PROVE LedgerTypeOK' /\ NoSpendForgotten'
  BY <1>0, <1>4 DEF ledgerVars, LedgerTypeOK, NoSpendForgotten, Duration
<1>5. ASSUME NEW t \in Threads, Leave(t)  PROVE Placed
  BY <1>0, <1>5 DEF Leave, Enter, Stages
<1>6. ASSUME NEW t \in Threads, stage[t] # "idle", NEW s \in Stages, Enter(t, s), UNCHANGED key
      PROVE  Placed
  BY <1>0, <1>6 DEF Enter
<1>. HIDE DEF Placed, Kept
<1>7. ASSUME UNCHANGED <<stage, key>>  PROVE Placed
  BY <1>0, <1>7 DEF Placed
<1>8. ASSUME NEW t \in Threads, NEW k \in RateKeys, AdmitCall(t, k)
      PROVE  CallsBase'
  <2>1. PICK at \in Stamps(t) :
          /\ RateCheck(k, at)
          /\ IF WithinLimits(k, at)
             THEN Enter(t, "rated") /\ key' = [key EXCEPT ![t] = k]
             ELSE UNCHANGED <<stage, key>>
    BY <1>8 DEF AdmitCall
  <2>2. Touch(t) /\ UNCHANGED ledgerVars
    BY <1>8 DEF AdmitCall
  <2>3. ClockTypeOK' /\ UNCHANGED now
    BY <1>2, <2>2
  <2>4. at \in 0..MaxTime /\ at <= now
    BY <1>0, StampTimes
  <2>5. RateTypeOK' /\ NoHitForgotten'
    BY <1>0, <2>1, <2>3, <2>4, RateCheckKeeps
  <2>6. LedgerTypeOK' /\ NoSpendForgotten'
    BY <1>4, <2>2, <2>3
  <2>7. CASE WithinLimits(k, at)
    <3>1. Placed
      BY <1>0, <2>1, <2>7 DEF Enter, Stages, Placed
    <3>. QED  BY <1>1, <2>3, <2>5, <2>6, <3>1 DEF Kept
  <2>8. CASE ~WithinLimits(k, at)
    BY <1>1, <1>7, <2>1, <2>3, <2>5, <2>6, <2>8 DEF Kept
  <2>. QED  BY <2>7, <2>8
<1>9. ASSUME NEW t \in Threads, NEW n \in Projections, PriceCall(t, Priced(n))
      PROVE  CallsBase'
  <2>1. PICK at \in Stamps(t) :
          /\ LedgerCheck(Priced(n), at)
          /\ IF BudgetState(Priced(n), at) = "exceeded"
             THEN Leave(t) ELSE Enter(t, "priced") /\ UNCHANGED key
    BY <1>9 DEF PriceCall
  <2>2. Touch(t) /\ UNCHANGED rateVars /\ stage[t] # "idle"
    BY <1>9 DEF PriceCall
  <2>3. ClockTypeOK' /\ UNCHANGED now
    BY <1>2, <2>2
  <2>4. at \in 0..MaxTime /\ at <= now
    BY <1>0, StampTimes
  <2>5. LedgerTypeOK' /\ NoSpendForgotten'
    BY <1>0, <2>1, <2>3, <2>4, LedgerCheckKeeps
  <2>6. RateTypeOK' /\ NoHitForgotten'
    BY <1>3, <2>2, <2>3
  <2>7. Placed
    BY <1>5, <1>6, <2>1, <2>2, "priced" \in Stages DEF Stages
  <2>. QED  BY <1>1, <2>3, <2>5, <2>6, <2>7 DEF Kept
<1>10. ASSUME NEW t \in Threads, RecordHit(t)
      PROVE  CallsBase'
  <2>1. PICK at \in Stamps(t) : RateRecord(key[t], at)
    BY <1>10 DEF RecordHit
  <2>2. Touch(t) /\ UNCHANGED <<ledgerVars, key>> /\ stage[t] # "idle" /\ Enter(t, "calling")
    BY <1>10 DEF RecordHit
  <2>3. PICK k \in RateKeys : k = key[t]
    BY <1>0, <2>2
  <2>4. RateRecord(k, at) /\ at \in 0..MaxTime
    BY <1>0, <2>1, <2>3, StampTimes
  <2>5. ClockTypeOK' /\ UNCHANGED now
    BY <1>2, <2>2
  <2>6. RateTypeOK' /\ NoHitForgotten'
    BY <1>0, <2>4, <2>5, RateRecordKeeps
  <2>7. LedgerTypeOK' /\ NoSpendForgotten'
    BY <1>4, <2>2, <2>5
  <2>8. Placed
    BY <1>6, <2>2, "calling" \in Stages DEF Stages
  <2>. QED  BY <1>1, <2>5, <2>6, <2>7, <2>8 DEF Kept
<1>11. ASSUME NEW t \in Threads, NEW cost, cost.amount \in Nat, RecordSpend(t, cost)
      PROVE  CallsBase'
  <2>1. PICK at \in Stamps(t) : LedgerRecord(cost, at)
    BY <1>11 DEF RecordSpend
  <2>2. Touch(t) /\ UNCHANGED rateVars /\ Leave(t)
    BY <1>11 DEF RecordSpend
  <2>3. ClockTypeOK' /\ UNCHANGED now
    BY <1>2, <2>2
  <2>4. at \in 0..MaxTime
    BY <1>0, StampTimes
  <2>5. LedgerTypeOK' /\ NoSpendForgotten'
    BY <1>0, <1>11, <2>1, <2>3, <2>4, LedgerRecordKeeps
  <2>6. RateTypeOK' /\ NoHitForgotten'
    BY <1>3, <2>2, <2>3
  <2>. QED  BY <1>1, <1>5, <2>2, <2>3, <2>5, <2>6 DEF Kept
<1>12. ASSUME NEW t \in Threads, Abandon(t)
      PROVE  CallsBase'
  BY <1>1, <1>2, <1>3, <1>4, <1>5, <1>12 DEF Abandon, Kept
<1>13. ASSUME NEW t \in Threads, Snapshot(t)
      PROVE  CallsBase'
  <2>1. PICK at \in Stamps(t) : LedgerSnapshot(at)
    BY <1>13 DEF Snapshot
  <2>2. Touch(t) /\ UNCHANGED <<rateVars, stage, key>>
    BY <1>13 DEF Snapshot
  <2>3. ClockTypeOK' /\ UNCHANGED now
    BY <1>2, <2>2
  <2>4. at \in 0..MaxTime /\ at <= now
    BY <1>0, StampTimes
  <2>5. LedgerTypeOK' /\ NoSpendForgotten'
    BY <1>0, <2>1, <2>3, <2>4, LedgerSnapshotKeeps
  <2>6. RateTypeOK' /\ NoHitForgotten'
    BY <1>3, <2>2, <2>3
  <2>. QED  BY <1>1, <1>7, <2>2, <2>3, <2>5, <2>6 DEF Kept
<1>14. CASE Tick /\ UNCHANGED <<rateVars, ledgerVars, stage, key>>
  <2>1. ClockTypeOK'
    BY <1>0, <1>14, ClockAssumption DEF Tick, ClockTypeOK
  <2>2. RateTypeOK' /\ NoHitForgotten'
    BY <1>0, <1>14, RateTick
  <2>3. LedgerTypeOK' /\ NoSpendForgotten'
    BY <1>0, <1>14, LedgerTick
  <2>. QED  BY <1>1, <1>7, <1>14, <2>1, <2>2, <2>3 DEF Kept
<1>15. CASE UNCHANGED callVars
  <2>1. ClockTypeOK' /\ UNCHANGED <<rateVars, ledgerVars, now, stage, key>>
    BY <1>0, <1>15 DEF callVars, ClockTypeOK, rateVars, ledgerVars
  <2>. QED  BY <1>1, <1>3, <1>4, <1>7, <2>1 DEF Kept
<1>16. ASSUME NEW n \in Actuals  PROVE Priced(n).amount \in Nat
  BY CallsAssumption DEF Priced
<1>17. Unpriced.amount \in Nat
  BY DEF Unpriced
<1>. QED  BY <1>8, <1>9, <1>10, <1>11, <1>12, <1>13, <1>14, <1>15, <1>16, <1>17 DEF CallsNext

LEMMA CallsNextInv == CallsInv /\ [CallsNext]_callVars => CallsInv'
<1>. SUFFICES ASSUME CallsInv, [CallsNext]_callVars PROVE CallsInv'
  OBVIOUS
<1>0. CallsBase /\ CallsBase'
  BY CallsNextBase DEF CallsInv
<1>1. /\ PerMinute \in Nat /\ PerHour \in Nat /\ Minute \in Nat /\ Hour \in Nat
      /\ stage \in [Threads -> Stages] /\ key \in [Threads -> RateKeys \cup {NoKey}]
      /\ since \in [Threads -> 0..MaxTime] /\ now \in Nat
  BY <1>0, RateAssumption DEF CallsBase, CallsTypeOK, ClockTypeOK
<1>. DEFINE HitsKept == HitsFit(PerMinute, Minute)' /\ HitsFit(PerHour, Hour)'
            SpendIsFit == \A w \in RollingWindows : SpendFits(w)'
<1>2. ASSUME HitsKept, SpendIsFit  PROVE CallsInv'
  BY <1>0, <1>2 DEF CallsInv, RollingWindows
<1>3. ASSUME UNCHANGED hits, \A k : \A until \in Nat : Pending(k, until)' \subseteq Pending(k, until)
      PROVE  HitsKept
  BY <1>0, <1>1, <1>3, HitsFitKept DEF CallsInv
<1>4. ASSUME UNCHANGED <<ledger, now>>, Committed' \subseteq Committed
      PROVE  SpendIsFit
  BY <1>0, <1>4, SpendKept DEF CallsInv
<1>. HIDE DEF HitsKept, SpendIsFit
<1>5. ASSUME NEW t \in Threads, NEW k \in RateKeys, AdmitCall(t, k)  PROVE CallsInv'
  <2>1. HitsKept
    BY <1>0, <1>5, CheckRateFits DEF CallsInv, HitsKept
  <2>2. UNCHANGED <<ledger, now>> /\ Committed' \subseteq Committed
    BY <1>1, <1>5 DEF AdmitCall, ledgerVars, Touch, Committed, Enter
  <2>. QED  BY <1>2, <1>4, <2>1, <2>2
<1>6. ASSUME NEW t \in Threads, NEW n \in Projections, PriceCall(t, Priced(n))  PROVE CallsInv'
  <2>1. SpendIsFit
    BY <1>0, <1>6, CheckBudgetFits DEF CallsInv, SpendIsFit
  <2>2. \/ Leave(t)
        \/ Enter(t, "priced") /\ UNCHANGED key
    BY <1>6 DEF PriceCall
  <2>3. stage[t] = "rated" /\ UNCHANGED hits /\ since' = [since EXCEPT ![t] = now] /\ since[t] <= now
    BY <1>0, <1>6 DEF PriceCall, rateVars, Touch, CallsBase, CallsTypeOK, ClockTypeOK
  <2>4. \A k : \A until \in Nat : Pending(k, until)' \subseteq Pending(k, until)
    <3>. SUFFICES ASSUME NEW k, NEW until \in Nat, NEW u \in Pending(k, until)'
                  PROVE  u \in Pending(k, until)
      OBVIOUS
    <3>1. CASE u # t
      BY <1>1, <2>2, <2>3, <3>1 DEF Pending, Leave, Enter
    <3>2. CASE u = t
      BY <1>1, <2>2, <2>3, <3>2 DEF Pending, Leave, Enter
    <3>. QED  BY <3>1, <3>2
  <2>. QED  BY <1>2, <1>3, <2>1, <2>3, <2>4
<1>7. ASSUME NEW t \in Threads, RecordHit(t)  PROVE CallsInv'
  <2>1. HitsKept
    BY <1>0, <1>1, <1>7, RecordHitFits DEF CallsInv, HitsKept
  <2>2. UNCHANGED <<ledger, now>> /\ Committed' \subseteq Committed
    BY <1>1, <1>7 DEF RecordHit, ledgerVars, Touch, Committed, Enter
  <2>. QED  BY <1>2, <1>4, <2>1, <2>2
<1>8. ASSUME NEW t \in Threads, NEW cost, RecordSpend(t, cost),
             cost = Unpriced \/ \E n \in Actuals : cost = Priced(n)
      PROVE  CallsInv'
  <2>1. SpendIsFit
    BY <1>0, <1>8, RecordSpendFits DEF CallsInv, SpendIsFit
  <2>2. UNCHANGED hits
    BY <1>8 DEF RecordSpend, rateVars
  <2>3. \A k : \A until \in Nat : Pending(k, until)' \subseteq Pending(k, until)
    BY <1>1, <1>8 DEF RecordSpend, Leave, Enter, Touch, Pending
  <2>. QED  BY <1>2, <1>3, <2>1, <2>2, <2>3
<1>9. ASSUME NEW t \in Threads, Abandon(t)  PROVE CallsInv'
  <2>1. UNCHANGED <<ledger, now>> /\ Committed' \subseteq Committed
    BY <1>1, <1>9 DEF Abandon, ledgerVars, Touch, Committed, Leave, Enter
  <2>2. UNCHANGED hits
    BY <1>9 DEF Abandon, rateVars
  <2>3. \A k : \A until \in Nat : Pending(k, until)' \subseteq Pending(k, until)
    BY <1>1, <1>9 DEF Abandon, Leave, Enter, Touch, Pending
  <2>. QED  BY <1>2, <1>3, <1>4, <2>1, <2>2, <2>3
<1>10. ASSUME NEW t \in Threads, Snapshot(t)  PROVE CallsInv'
  <2>1. UNCHANGED <<ledger, now, hits>> /\ Committed' \subseteq Committed
    BY <1>10 DEF Snapshot, LedgerSnapshot, Touch, rateVars, Committed
  <2>2. \A k : \A until \in Nat : Pending(k, until)' \subseteq Pending(k, until)
    BY <1>1, <1>10 DEF Snapshot, Touch, Pending
  <2>. QED  BY <1>2, <1>3, <1>4, <2>1, <2>2
<1>11. CASE Tick /\ UNCHANGED <<rateVars, ledgerVars, stage, key>>
  <2>1. UNCHANGED <<ledger, stage, hits, key, since>>
    BY <1>11 DEF Tick, rateVars, ledgerVars
  <2>2. SpendIsFit
    BY <1>0, <1>11, <2>1, TickFits DEF CallsInv, SpendIsFit
  <2>3. \A k : \A until \in Nat : Pending(k, until)' \subseteq Pending(k, until)
    BY <2>1 DEF Pending
  <2>. QED  BY <1>2, <1>3, <2>1, <2>2, <2>3
<1>12. CASE UNCHANGED callVars
  <2>1. UNCHANGED <<ledger, now, hits, stage, key, since>>
    BY <1>12 DEF callVars
  <2>2. /\ Committed' \subseteq Committed
        /\ \A k : \A until \in Nat : Pending(k, until)' \subseteq Pending(k, until)
    BY <2>1 DEF Pending, Committed
  <2>. QED  BY <1>2, <1>3, <1>4, <2>1, <2>2
<1>. QED  BY <1>5, <1>6, <1>7, <1>8, <1>9, <1>10, <1>11, <1>12 DEF CallsNext

LEMMA CallsInvBounds == CallsInv => OvershootBounded
<1>. SUFFICES ASSUME CallsInv PROVE OvershootBounded
  OBVIOUS
<1>1. ASSUME NEW limit \in Nat, NEW length, HitsFit(limit, length), limit > 0,
             NEW k \in RateKeys, NEW from \in 0..MaxTime
      PROVE  Cardinality(InWindow(k, from, length)) < limit + Cardinality(Threads)
  <2>1. Cardinality(InWindow(k, from, length)) + Cardinality(Pending(k, from + length))
          < limit + Cardinality(Threads)
    BY <1>1 DEF HitsFit
  <2>2. /\ Cardinality(Pending(k, from + length)) \in Nat /\ Cardinality(Threads) \in Nat
        /\ Cardinality(InWindow(k, from, length)) \in Nat
    BY PendingFinite, InWindowFinite DEF CallsInv, CallsBase, CallsTypeOK
  <2>. QED  BY <2>1, <2>2
<1>2. RateOvershootBounded
  BY <1>1, RateAssumption DEF CallsInv, RateOvershootBounded
<1>3. ASSUME NEW w \in RollingWindows, Active(w)
      PROVE  InWindowSpend(w) < Limit[w] + Cardinality(Threads) * MostSpent
  <2>1. InWindowSpend(w) + Cardinality(Committed) * MostSpent
          < Limit[w] + Cardinality(Threads) * MostSpent
    BY <1>3 DEF CallsInv, SpendFits
  <2>2. /\ Cardinality(Committed) * MostSpent \in Nat /\ Cardinality(Threads) * MostSpent \in Nat
        /\ Limit[w] \in Nat /\ InWindowSpend(w) \in Nat
    BY CommittedFinite, MostSpentIsMost, Multiples, LedgerAssumption, WindowedFacts
       DEF CallsInv, CallsBase, CallsTypeOK, RollingWindows, WindowNames
  <2>. QED  BY <2>1, <2>2
<1>4. BudgetOvershootBounded
  BY <1>3, MostSpentIsMost DEF BudgetOvershootBounded
<1>. QED  BY <1>2, <1>4 DEF OvershootBounded

(***************************************************************************)
(* For any number of threads, any limits and window lengths, and any costs *)
(* with a largest one: a rate window never holds more hits than its limit  *)
(* and one per other thread, and a rolling budget window never more spend  *)
(* than its limit and one call of every thread, although check and record  *)
(* are apart and every thread works with a clock of its own                *)
(* (RateLimiter.check and record, BudgetLedger.check and record).          *)
(***************************************************************************)
THEOREM OvershootIsBounded == CallsSpec => []OvershootBounded
<1>1. CallsInit => CallsInv
  BY CallsInitInv
<1>2. CallsInv /\ [CallsNext]_callVars => CallsInv'
  BY CallsNextInv
<1>3. CallsInv => OvershootBounded
  BY CallsInvBounds
<1>. QED  BY <1>1, <1>2, <1>3, PTL DEF CallsSpec
=============================================================================
