----------------------------- MODULE LearningProofs -----------------------------
(***************************************************************************)
(* Proofs about Learning and the signals below it.  The sections: what the *)
(* six rules of SignalRules promise; the tables, which no session of the   *)
(* reviews touches; what a period measures once its horizon is over; the   *)
(* reviews and their notes; the theorems.                                  *)
(***************************************************************************)
EXTENDS Learning, FiniteSetTheorems, SequenceTheorems, WellFoundedInduction, TLAPS

Stances == {"supports", "contradicts", "unknown"}

Sources == {"thesis", "position", "quant", "regime", "research", "valuation"}

Evidence == Seq([kind : Sources, stance : Stances])

\* Somewhere the evidence supports the signal.
Supported(e) == \E i \in DOMAIN e : e[i].stance = "supports"

LEMMA Division ==
    ASSUME NEW n \in Int, NEW d \in Int, d > 0
    PROVE  \E q \in Int : q = n \div d /\ d * q <= n /\ n < d * q + d
OBVIOUS

LEMMA Quotients ==
    ASSUME NEW d \in Int, d > 0, NEW p \in Int, NEW q \in Int, d * p < d * q + d
    PROVE  p <= q
<1>. SUFFICES ASSUME p > q PROVE FALSE
  OBVIOUS
<1>1. PICK k \in Nat : p = q + 1 + k
  BY p - q - 1 \in Nat
<1>2. d * p = d * q + d + d * k /\ d * k >= 0 /\ d * q \in Int /\ d * k \in Int
  BY <1>1
<1>. QED  BY <1>2

\* A part of a whole, in units of which the whole has u.
LEMMA ShareFacts ==
    ASSUME NEW u \in Nat, NEW n \in Nat, NEW d \in Nat, d > 0, d <= n, n <= d * u
    PROVE  n \div d \in 1..u /\ (n \div d = u <=> n = d * u)
<1>1. PICK q \in Int : q = n \div d /\ d * q <= n /\ n < d * q + d
  BY Division
<1>2. d * q \in Int /\ d * 1 = d
  OBVIOUS
<1>a. d * u \in Int
  OBVIOUS
<1>3. 1 <= q
  <2>1. d * 1 < d * q + d
    BY <1>1, <1>2
  <2>. QED  BY <2>1, Quotients
<1>4. q <= u
  <2>1. d * q < d * u + d
    BY <1>1, <1>2, <1>a
  <2>. QED  BY <2>1, Quotients
<1>5. ASSUME n = d * u  PROVE u <= q
  <2>1. d * u < d * q + d
    BY <1>1, <1>2, <1>a, <1>5
  <2>. QED  BY <2>1, Quotients
<1>6. ASSUME q = u  PROVE n = d * u
  BY <1>1, <1>a, <1>6
<1>. QED  BY <1>1, <1>3, <1>4, <1>5, <1>6

LEMMA Empty ==
    ASSUME NEW S
    PROVE  <<>> \in Seq(S) /\ Len(<<>>) = 0
OBVIOUS

LEMMA SaysFacts ==
    ASSUME NEW kind \in Sources, NEW stance \in Stances
    PROVE  /\ Says(kind, stance) \in Evidence /\ Len(Says(kind, stance)) = 1
           /\ stance = "supports" => Supported(Says(kind, stance))
  BY DEF Says, Evidence, Supported

LEMMA WhenFacts ==
    ASSUME NEW condition, NEW e \in Evidence, Len(e) = 1
    PROVE  /\ When(condition, e) \in Evidence /\ Len(When(condition, e)) <= 1
           /\ condition => When(condition, e) = e
<1>1. CASE condition
  <2>1. When(condition, e) = e
    BY <1>1, Zenon DEF When
  <2>2. Len(e) <= 1
    OBVIOUS
  <2>. QED  BY <2>1, <2>2, Zenon
<1>2. CASE ~condition
  <2>1. <<>> \in Evidence /\ Len(<<>>) = 0
    BY Empty DEF Evidence
  <2>2. When(condition, e) = <<>>
    BY <1>2, Zenon DEF When
  <2>. QED  BY <1>2, <2>1, <2>2
<1>. QED  BY <1>1, <1>2

LEMMA JoinFacts ==
    ASSUME NEW e \in Evidence, NEW f \in Evidence
    PROVE  /\ e \o f \in Evidence /\ Len(e \o f) = Len(e) + Len(f)
           /\ Supported(e) \/ Supported(f) => Supported(e \o f)
<1>1. e \o f \in Evidence /\ Len(e \o f) = Len(e) + Len(f)
  BY DEF Evidence
<1>2. Len(e) \in Nat /\ DOMAIN e = 1..Len(e) /\ Len(f) \in Nat /\ DOMAIN f = 1..Len(f)
      /\ DOMAIN (e \o f) = 1..(Len(e) + Len(f))
  BY <1>1 DEF Evidence
<1>3. ASSUME NEW i \in DOMAIN e, e[i].stance = "supports"
      PROVE  Supported(e \o f)
  <2>1. i \in DOMAIN (e \o f) /\ (e \o f)[i] = e[i]
    BY <1>2 DEF Evidence
  <2>. QED  BY <1>3, <2>1, Zenon DEF Supported
<1>4. ASSUME NEW i \in DOMAIN f, f[i].stance = "supports"
      PROVE  Supported(e \o f)
  <2>1. i + Len(e) \in DOMAIN (e \o f) /\ (e \o f)[i + Len(e)] = f[i]
    BY <1>2 DEF Evidence
  <2>. QED  BY <1>4, <2>1, Zenon DEF Supported
<1>. QED  BY <1>1, <1>3, <1>4, Zenon DEF Supported

LEMMA StanceType ==
    ASSUME NEW e \in Evidence, NEW stance
    PROVE  /\ Stance(e, stance) \in Nat /\ Stance(e, stance) <= Len(e)
           /\ Stance(e, stance) > 0 <=> \E i \in DOMAIN e : e[i].stance = stance
<1>. DEFINE found == {i \in DOMAIN e : e[i].stance = stance}
<1>1. Len(e) \in Nat /\ DOMAIN e = 1..Len(e)
  BY DEF Evidence
<1>2. IsFiniteSet(1..Len(e)) /\ Cardinality(1..Len(e)) = Len(e)
  <2>1. 1 \in Int /\ Len(e) \in Int
    BY <1>1
  <2>2. /\ IsFiniteSet(1..Len(e))
        /\ Cardinality(1..Len(e)) = IF 1 > Len(e) THEN 0 ELSE Len(e) - 1 + 1
    BY <2>1, FS_Interval, Zenon
  <2>. QED  BY <1>1, <2>2
<1>3. IsFiniteSet(found) /\ Cardinality(found) <= Len(e) /\ Cardinality(found) \in Nat
  BY <1>1, <1>2, FS_Subset, FS_CardinalityType
<1>4. Cardinality(found) = 0 <=> found = {}
  BY <1>3, FS_EmptySet
<1>5. Stance(e, stance) = Cardinality(found)
  BY DEF Stance
<1>6. found = {} <=> ~\E i \in DOMAIN e : e[i].stance = stance
  OBVIOUS
<1>. HIDE DEF found
<1>. QED  BY <1>3, <1>4, <1>5, <1>6

LEMMA ConfidenceFacts ==
    ASSUME NEW e \in Evidence, Len(e) <= 6, Supported(e)
    PROVE  /\ Confidence(e) \in 1..Full /\ Stance(e, "supports") > 0
           /\ Confidence(e) = Full <=> Stance(e, "contradicts") + Stance(e, "unknown") = 0
<1>. DEFINE s == Stance(e, "supports")
            c == Stance(e, "contradicts")
            u == Stance(e, "unknown")
            weight == 2 * s + 2 * c + u
<1>1. s \in 1..6 /\ c \in 0..6 /\ u \in 0..6
  <2>1. Len(e) \in Nat
    BY DEF Evidence
  <2>. QED  BY <2>1, StanceType DEF Supported
<1>. DEFINE total == 2 * s * Full
<1>2. Full \in Nat /\ Full >= 6 * 6
  BY DEF Full
<1>3. Confidence(e) = IF weight = 0 THEN 0 ELSE total \div weight
  BY DEF Confidence
<1>. HIDE DEF s, c, u
<1>4. /\ s * Full \in Nat /\ c * Full \in Nat /\ u * Full \in Nat
      /\ c * Full = 0 <=> c = 0
      /\ u * Full = 0 <=> u = 0
      /\ Full <= s * Full
  BY <1>1, <1>2
<1>5. /\ total = 2 * (s * Full)
      /\ weight * Full = 2 * (s * Full) + 2 * (c * Full) + u * Full
  BY <1>1, <1>2
<1>6. weight \in Nat /\ weight > 0 /\ weight <= 30
  BY <1>1
<1>. HIDE DEF weight, total
<1>7. total \in Nat /\ weight <= total /\ total <= weight * Full
  BY <1>2, <1>4, <1>5, <1>6
<1>8. total = weight * Full <=> c + u = 0
  <2>1. total = weight * Full <=> c * Full = 0 /\ u * Full = 0
    BY <1>4, <1>5
  <2>2. c + u = 0 <=> c = 0 /\ u = 0
    BY <1>1
  <2>. QED  BY <1>4, <2>1, <2>2
<1>9. total \div weight \in 1..Full /\ (total \div weight = Full <=> total = weight * Full)
  BY <1>2, <1>6, <1>7, ShareFacts
<1>10. Confidence(e) = total \div weight
  BY <1>3, <1>6
<1>11. s > 0
  BY <1>1
<1>12. Confidence(e) \in 1..Full /\ (Confidence(e) = Full <=> c + u = 0)
  BY <1>8, <1>9, <1>10, Zenon
<1>. QED  BY <1>11, <1>12 DEF s, c, u

\* At most n pieces of evidence.
Within(e, n) == e \in Evidence /\ Len(e) <= n

LEMMA SaidWithin ==
    ASSUME NEW kind \in Sources, NEW stance \in Stances
    PROVE  /\ Within(Says(kind, stance), 1)
           /\ stance = "supports" => Supported(Says(kind, stance))
<1>. DEFINE e == Says(kind, stance)
<1>1. e \in Evidence /\ Len(e) = 1 /\ (stance = "supports" => Supported(e))
  BY SaysFacts
<1>. HIDE DEF e
<1>2. Within(e, 1)
  BY <1>1 DEF Within
<1>. QED  BY <1>1, <1>2, Zenon DEF e

LEMMA WhenWithin ==
    ASSUME NEW condition, NEW kind \in Sources, NEW stance \in Stances
    PROVE  /\ Within(When(condition, Says(kind, stance)), 1)
           /\ condition /\ stance = "supports" => Supported(When(condition, Says(kind, stance)))
<1>. DEFINE e == Says(kind, stance)
<1>1. e \in Evidence /\ Len(e) = 1 /\ (stance = "supports" => Supported(e))
  BY SaysFacts
<1>. HIDE DEF e
<1>2. /\ When(condition, e) \in Evidence /\ Len(When(condition, e)) <= 1
      /\ condition => When(condition, e) = e
  BY <1>1, WhenFacts, Zenon
<1>3. /\ Within(When(condition, e), 1)
      /\ condition /\ stance = "supports" => Supported(When(condition, e))
  BY <1>1, <1>2, Zenon DEF Within
<1>. QED  BY <1>3, Zenon DEF e

LEMMA JoinWithin ==
    ASSUME NEW n \in Nat, NEW m \in Nat, NEW e, NEW f, Within(e, n), Within(f, m)
    PROVE  /\ Within(e \o f, n + m)
           /\ Supported(e) \/ Supported(f) => Supported(e \o f)
<1>1. e \in Evidence /\ f \in Evidence /\ Len(e) \in Nat /\ Len(f) \in Nat
      /\ Len(e) <= n /\ Len(f) <= m
  BY DEF Within, Evidence
<1>. QED  BY <1>1, JoinFacts DEF Within

\* What every rule's verdict is: of its category, with at most six pieces of
\* evidence, and supported when it fires.
VerdictOK(v, category) ==
    /\ v.category = category
    /\ Within(v.evidence, 6)
    /\ v.fires => Supported(v.evidence)

LEMMA VerdictFacts ==
    ASSUME NEW category, NEW fires, NEW e, NEW n \in Nat, n <= 6, Within(e, n),
           fires => Supported(e)
    PROVE  VerdictOK(Verdict(category, fires, e), category)
<1>1. Within(e, 6)
  <2>1. Len(e) \in Nat /\ Len(e) <= n
    BY DEF Within, Evidence
  <2>. QED  BY <2>1 DEF Within
<1>2. LET v == Verdict(category, fires, e)
      IN  v.category = category /\ v.evidence = e /\ v.fires = fires
  BY DEF Verdict
<1>. QED  BY <1>1, <1>2, Zenon DEF VerdictOK

LEMMA ThesisReviewOK == ASSUME NEW c PROVE VerdictOK(ThesisReview(c), "THESIS_REVIEW")
<1>. DEFINE held == When(IsHeld(c), Says("position", "supports"))
            said == Says("thesis", "supports")
<1>1. Within(said, 1) /\ Supported(said) /\ Within(held, 1)
  BY SaidWithin, WhenWithin, Zenon DEF Stances, Sources
<1>. HIDE DEF held, said
<1>2. Within(said \o held, 1 + 1) /\ Supported(said \o held)
  BY <1>1, JoinWithin
<1>. DEFINE age == IF c.thesis.reviewed = Never THEN ThesisStaleDays + 1
                   ELSE c.day - c.thesis.reviewed
            fires == HasThesis(c) /\ (c.thesis.assessment \in Broken \/ age > ThesisStaleDays)
<1>3. ThesisReview(c) = Verdict("THESIS_REVIEW", fires, said \o held)
  BY Zenon DEF ThesisReview, said, held
<1>. HIDE DEF fires
<1>. QED  BY <1>2, <1>3, VerdictFacts

\* The order of the first two conditions does not matter: a valuation is
\* known before it is compared.
LEMMA ValuedFacts ==
    ASSUME NEW unknown, NEW deep
    PROVE  LET v == CASE unknown -> "unknown" [] deep -> "supports" [] OTHER -> "contradicts"
           IN  v \in Stances /\ (deep /\ ~unknown => v = "supports")
<1>. DEFINE v == CASE unknown -> "unknown" [] deep -> "supports" [] OTHER -> "contradicts"
<1>1. v \in {"unknown", "supports", "contradicts"} /\ (deep /\ ~unknown => v = "supports")
  BY Zenon
<1>. QED  BY <1>1, Zenon DEF Stances

LEMMA ExitReviewOK == ASSUME NEW c PROVE VerdictOK(ExitReview(c), "EXIT_REVIEW")
<1>. DEFINE invalid == c.thesis.assessment = "THESIS_INVALIDATED"
            valued == CASE c.quant.last = 0 -> "unknown"
                        [] InDrawdown(c) -> "supports"
                        [] OTHER -> "contradicts"
            below == c.quant.long = "below"
            w1 == When(invalid, Says("thesis", "supports"))
            w2 == Says("position", valued)
            w3 == When(below, Says("quant", "supports"))
            w4 == When(c.quant.long = "unknown", Says("quant", "unknown"))
            fires == IsHeld(c) /\ (invalid \/ InDrawdown(c) \/ below)
<1>1. ExitReview(c) = Verdict("EXIT_REVIEW", fires, w1 \o w2 \o w3 \o w4)
  BY Zenon DEF ExitReview
<1>2. valued \in Stances /\ (InDrawdown(c) /\ ~(c.quant.last = 0) => valued = "supports")
  BY ValuedFacts, Zenon
<1>3. InDrawdown(c) => valued = "supports"
  <2>1. InDrawdown(c) => ~(c.quant.last = 0)
    BY DEF InDrawdown
  <2>. QED  BY <1>2, <2>1, Zenon
<1>. HIDE DEF valued, invalid, below
<1>4. /\ Within(w1, 1) /\ (invalid => Supported(w1))
      /\ Within(w2, 1) /\ (valued = "supports" => Supported(w2))
      /\ Within(w3, 1) /\ (below => Supported(w3))
      /\ Within(w4, 1)
  BY <1>2, SaidWithin, WhenWithin, Zenon DEF Stances, Sources
<1>5. fires => Supported(w1) \/ Supported(w2) \/ Supported(w3)
  BY <1>3, <1>4, Zenon
<1>. HIDE DEF w1, w2, w3, w4, fires
<1>6. /\ Within(w1 \o w2, 1 + 1)
      /\ Supported(w1) \/ Supported(w2) => Supported(w1 \o w2)
  BY <1>4, JoinWithin
<1>7. /\ Within(w1 \o w2 \o w3, 1 + 1 + 1)
      /\ Supported(w1 \o w2) \/ Supported(w3) => Supported(w1 \o w2 \o w3)
  BY <1>4, <1>6, JoinWithin
<1>8. /\ Within(w1 \o w2 \o w3 \o w4, 1 + 1 + 1 + 1)
      /\ Supported(w1 \o w2 \o w3) => Supported(w1 \o w2 \o w3 \o w4)
  BY <1>4, <1>7, JoinWithin
<1>9. fires => Supported(w1 \o w2 \o w3 \o w4)
  BY <1>5, <1>6, <1>7, <1>8, Zenon
<1>. HIDE DEF fires
<1>. QED  BY <1>1, <1>8, <1>9, VerdictFacts

LEMMA ReduceOK == ASSUME NEW c PROVE VerdictOK(Reduce(c), "REDUCE")
<1>. DEFINE riskOff == c.regime.risk = "RISK_OFF"
            bearish == c.regime.trend = "BEARISH"
            falling == c.quant.momentum = "down"
            w1 == When(riskOff, Says("regime", "supports"))
            w2 == When(bearish, Says("regime", "supports"))
            w3 == When(c.regime = NoRegime, Says("regime", "unknown"))
            w4 == When(falling, Says("quant", "supports"))
            w5 == When(c.quant.momentum = "unknown", Says("quant", "unknown"))
            w6 == When(HasThesis(c), Says("thesis", "contradicts"))
            fires == /\ IsHeld(c) /\ c.thesis.assessment \notin Broken
                     /\ riskOff \/ bearish \/ falling
<1>1. Reduce(c) = Verdict("REDUCE", fires, w1 \o w2 \o w3 \o w4 \o w5 \o w6)
  BY Zenon DEF Reduce
<1>. HIDE DEF riskOff, bearish, falling
<1>2. /\ Within(w1, 1) /\ (riskOff => Supported(w1))
      /\ Within(w2, 1) /\ (bearish => Supported(w2))
      /\ Within(w3, 1)
      /\ Within(w4, 1) /\ (falling => Supported(w4))
      /\ Within(w5, 1) /\ Within(w6, 1)
  BY WhenWithin, Zenon DEF Stances, Sources
<1>3. fires => Supported(w1) \/ Supported(w2) \/ Supported(w4)
  BY <1>2, Zenon
<1>. HIDE DEF w1, w2, w3, w4, w5, w6, fires
<1>4. /\ Within(w1 \o w2, 1 + 1)
      /\ Supported(w1) \/ Supported(w2) => Supported(w1 \o w2)
  BY <1>2, JoinWithin
<1>5. /\ Within(w1 \o w2 \o w3, 1 + 1 + 1)
      /\ Supported(w1 \o w2) => Supported(w1 \o w2 \o w3)
  BY <1>2, <1>4, JoinWithin
<1>6. /\ Within(w1 \o w2 \o w3 \o w4, 1 + 1 + 1 + 1)
      /\ Supported(w1 \o w2 \o w3) \/ Supported(w4) => Supported(w1 \o w2 \o w3 \o w4)
  BY <1>2, <1>5, JoinWithin
<1>7. /\ Within(w1 \o w2 \o w3 \o w4 \o w5, 1 + 1 + 1 + 1 + 1)
      /\ Supported(w1 \o w2 \o w3 \o w4) => Supported(w1 \o w2 \o w3 \o w4 \o w5)
  BY <1>2, <1>6, JoinWithin
<1>8. /\ Within(w1 \o w2 \o w3 \o w4 \o w5 \o w6, 1 + 1 + 1 + 1 + 1 + 1)
      /\ Supported(w1 \o w2 \o w3 \o w4 \o w5) => Supported(w1 \o w2 \o w3 \o w4 \o w5 \o w6)
  BY <1>2, <1>7, JoinWithin
<1>9. fires => Supported(w1 \o w2 \o w3 \o w4 \o w5 \o w6)
  BY <1>3, <1>4, <1>5, <1>6, <1>7, <1>8, Zenon
<1>. QED  BY <1>1, <1>8, <1>9, VerdictFacts

LEMMA AccumulateOK == ASSUME NEW c PROVE VerdictOK(Accumulate(c), "ACCUMULATE")
<1>. DEFINE priced == IF c.pe = "unknown" THEN "unknown" ELSE "supports"
            w1 == Says("thesis", "supports")
            w2 == Says("regime", "supports")
            w3 == Says("quant", "supports")
            w4 == Says("valuation", priced)
            w5 == When(c.quant.extended, Says("quant", "contradicts"))
            fires == /\ c.thesis.assessment \in Sound /\ c.regime.trend = "BULLISH"
                     /\ c.quant.momentum = "up" /\ c.pe # "high"
<1>1. Accumulate(c) = Verdict("ACCUMULATE", fires, w1 \o w2 \o w3 \o w4 \o w5)
  BY Zenon DEF Accumulate
<1>2. priced \in Stances
  BY DEF Stances
<1>. HIDE DEF priced
<1>3. /\ Within(w1, 1) /\ Supported(w1)
      /\ Within(w2, 1) /\ Within(w3, 1) /\ Within(w4, 1) /\ Within(w5, 1)
  BY <1>2, SaidWithin, WhenWithin, Zenon DEF Stances, Sources
<1>. HIDE DEF w1, w2, w3, w4, w5, fires
<1>4. Within(w1 \o w2, 1 + 1) /\ Supported(w1 \o w2)
  BY <1>3, JoinWithin
<1>5. Within(w1 \o w2 \o w3, 1 + 1 + 1) /\ Supported(w1 \o w2 \o w3)
  BY <1>3, <1>4, JoinWithin
<1>6. Within(w1 \o w2 \o w3 \o w4, 1 + 1 + 1 + 1) /\ Supported(w1 \o w2 \o w3 \o w4)
  BY <1>3, <1>5, JoinWithin
<1>7. /\ Within(w1 \o w2 \o w3 \o w4 \o w5, 1 + 1 + 1 + 1 + 1)
      /\ Supported(w1 \o w2 \o w3 \o w4 \o w5)
  BY <1>3, <1>6, JoinWithin
<1>. QED  BY <1>1, <1>7, VerdictFacts

LEMMA WatchOK == ASSUME NEW c PROVE VerdictOK(Watch(c), "WATCH")
<1>. DEFINE w1 == When(c.watched, Says("research", "supports"))
            w2 == When(IsHeld(c), Says("position", "supports"))
            w3 == When(~c.researched, Says("research", "unknown"))
            w4 == When(c.regime # NoRegime, Says("regime", "supports"))
            w5 == When(c.quant.last = 0, Says("quant", "unknown"))
            fires == c.watched \/ IsHeld(c)
<1>1. Watch(c) = Verdict("WATCH", fires, w1 \o w2 \o w3 \o w4 \o w5)
  BY Zenon DEF Watch
<1>2. /\ Within(w1, 1) /\ (c.watched => Supported(w1))
      /\ Within(w2, 1) /\ (IsHeld(c) => Supported(w2))
      /\ Within(w3, 1) /\ Within(w4, 1) /\ Within(w5, 1)
  BY WhenWithin, Zenon DEF Stances, Sources
<1>3. fires => Supported(w1) \/ Supported(w2)
  BY <1>2, Zenon
<1>. HIDE DEF w1, w2, w3, w4, w5, fires
<1>4. /\ Within(w1 \o w2, 1 + 1)
      /\ Supported(w1) \/ Supported(w2) => Supported(w1 \o w2)
  BY <1>2, JoinWithin
<1>5. /\ Within(w1 \o w2 \o w3, 1 + 1 + 1)
      /\ Supported(w1 \o w2) => Supported(w1 \o w2 \o w3)
  BY <1>2, <1>4, JoinWithin
<1>6. /\ Within(w1 \o w2 \o w3 \o w4, 1 + 1 + 1 + 1)
      /\ Supported(w1 \o w2 \o w3) => Supported(w1 \o w2 \o w3 \o w4)
  BY <1>2, <1>5, JoinWithin
<1>7. /\ Within(w1 \o w2 \o w3 \o w4 \o w5, 1 + 1 + 1 + 1 + 1)
      /\ Supported(w1 \o w2 \o w3 \o w4) => Supported(w1 \o w2 \o w3 \o w4 \o w5)
  BY <1>2, <1>6, JoinWithin
<1>8. fires => Supported(w1 \o w2 \o w3 \o w4 \o w5)
  BY <1>3, <1>4, <1>5, <1>6, <1>7, Zenon
<1>. QED  BY <1>1, <1>7, <1>8, VerdictFacts

LEMMA ResearchWaitsOK ==
    ASSUME NEW c, c.top.reasons \in Nat
    PROVE  VerdictOK(ResearchWaits(c), "RESEARCH")
<1>. DEFINE reasons == IF c.top.reasons > 4 THEN 4 ELSE c.top.reasons
            e == [i \in 1..(reasons + 1) |-> [kind |-> "research", stance |-> "supports"]]
            fires == c.top.score >= TriggerScore
<1>1. ResearchWaits(c) = Verdict("RESEARCH", fires, e)
  BY Zenon DEF ResearchWaits
<1>2. reasons \in Nat /\ reasons + 1 \in Nat /\ reasons + 1 <= 5 /\ 1 \in 1..(reasons + 1)
  OBVIOUS
<1>. HIDE DEF reasons
<1>3. e \in Evidence /\ Len(e) = reasons + 1 /\ DOMAIN e = 1..(reasons + 1)
  BY <1>2 DEF Evidence, Sources, Stances
<1>4. e[1].stance = "supports"
  BY <1>2
<1>5. Supported(e)
  BY <1>2, <1>3, <1>4 DEF Supported
<1>6. Within(e, 5)
  BY <1>2, <1>3 DEF Within
<1>. HIDE DEF e, fires
<1>. QED  BY <1>1, <1>5, <1>6, VerdictFacts

LEMMA RulesFacts ==
    ASSUME NEW c, c.top.reasons \in Nat
    PROVE  /\ DOMAIN Rules(c) = 1..6
           /\ Rules(c)[1] = ThesisReview(c) /\ Rules(c)[2] = ExitReview(c)
           /\ Rules(c)[3] = Reduce(c) /\ Rules(c)[4] = Accumulate(c)
           /\ VerdictOK(Rules(c)[1], "THESIS_REVIEW") /\ VerdictOK(Rules(c)[2], "EXIT_REVIEW")
           /\ VerdictOK(Rules(c)[3], "REDUCE") /\ VerdictOK(Rules(c)[4], "ACCUMULATE")
           /\ VerdictOK(Rules(c)[5], "RESEARCH") /\ VerdictOK(Rules(c)[6], "WATCH")
<1>1. /\ DOMAIN Rules(c) = 1..6
      /\ Rules(c)[1] = ThesisReview(c) /\ Rules(c)[2] = ExitReview(c)
      /\ Rules(c)[3] = Reduce(c) /\ Rules(c)[4] = Accumulate(c)
      /\ Rules(c)[5] = ResearchWaits(c) /\ Rules(c)[6] = Watch(c)
  BY DEF Rules
<1>2. /\ VerdictOK(ThesisReview(c), "THESIS_REVIEW") /\ VerdictOK(ExitReview(c), "EXIT_REVIEW")
      /\ VerdictOK(Reduce(c), "REDUCE") /\ VerdictOK(Accumulate(c), "ACCUMULATE")
      /\ VerdictOK(ResearchWaits(c), "RESEARCH") /\ VerdictOK(Watch(c), "WATCH")
  BY ThesisReviewOK, ExitReviewOK, ReduceOK, AccumulateOK, ResearchWaitsOK, WatchOK, Zenon
<1>. QED  BY <1>1, <1>2, Zenon

\* A signal is the verdict of the first rule that fires.
LEMMA FirstRule ==
    ASSUME NEW c, c.top.reasons \in Nat, NEW signal \in SignalsFor(c)
    PROVE  \E i \in 1..6 : /\ signal = Rules(c)[i] /\ Rules(c)[i].fires
                           /\ \A j \in 1..(i - 1) : ~Rules(c)[j].fires
<1>1. DOMAIN Rules(c) = 1..6
  BY RulesFacts
<1>. QED  BY <1>1 DEF SignalsFor

LEMMA SignalFacts ==
    ASSUME NEW c, c.top.reasons \in Nat, NEW signal \in SignalsFor(c)
    PROVE  /\ signal.category \in Categories
           /\ Within(signal.evidence, 6) /\ Supported(signal.evidence)
<1>1. PICK i \in 1..6 : /\ signal = Rules(c)[i] /\ Rules(c)[i].fires
                        /\ \A j \in 1..(i - 1) : ~Rules(c)[j].fires
  BY FirstRule
<1>2. \E category \in Categories : VerdictOK(Rules(c)[i], category)
  <2>1. i = 1 \/ i = 2 \/ i = 3 \/ i = 4 \/ i = 5 \/ i = 6
    OBVIOUS
  <2>. QED  BY <2>1, RulesFacts, Zenon DEF Categories
<1>. QED  BY <1>1, <1>2, Zenon DEF VerdictOK

LEMMA OneSignal ==
    ASSUME NEW c, c.top.reasons \in Nat
    PROVE  /\ \A x, y \in SignalsFor(c) : x = y
           /\ IsFiniteSet(SignalsFor(c))
<1>1. ASSUME NEW x \in SignalsFor(c), NEW y \in SignalsFor(c)
      PROVE  x = y
  <2>1. PICK i \in 1..6 : /\ x = Rules(c)[i] /\ Rules(c)[i].fires
                          /\ \A j \in 1..(i - 1) : ~Rules(c)[j].fires
    BY FirstRule
  <2>2. PICK k \in 1..6 : /\ y = Rules(c)[k] /\ Rules(c)[k].fires
                          /\ \A j \in 1..(k - 1) : ~Rules(c)[j].fires
    BY FirstRule
  <2>3. ~(i \in 1..(k - 1)) /\ ~(k \in 1..(i - 1))
    BY <2>1, <2>2
  <2>4. i = k
    BY <2>3
  <2>. QED  BY <2>1, <2>2, <2>4
<1>2. CASE SignalsFor(c) = {}
  BY <1>2, FS_EmptySet
<1>3. CASE SignalsFor(c) # {}
  <2>1. PICK x : SignalsFor(c) = {x}
    BY <1>1, <1>3
  <2>. QED  BY <1>1, <2>1, FS_Singleton
<1>. QED  BY <1>1, <1>2, <1>3

(***************************************************************************)
(* Whatever the rules say of a context is honest: the order of the rules   *)
(* does what no single rule checks.                                        *)
(***************************************************************************)
LEMMA HonestSignals ==
    ASSUME NEW c, c.top.reasons \in Nat, NEW signal \in SignalsFor(c)
    PROVE  Honest(c, signal)
<1>1. PICK i \in 1..6 : /\ signal = Rules(c)[i] /\ Rules(c)[i].fires
                        /\ \A j \in 1..(i - 1) : ~Rules(c)[j].fires
  BY FirstRule
<1>2. c.thesis.assessment \in Broken => ThesisReview(c).fires
  <2>1. c.thesis.assessment \in Broken => HasThesis(c)
    BY DEF Broken, HasThesis, NoThesis
  <2>. QED  BY <2>1 DEF ThesisReview, Verdict
<1>3. IsHeld(c) /\ (InDrawdown(c) \/ c.quant.long = "below") => ExitReview(c).fires
  BY DEF ExitReview, Verdict
<1>4. IsHeld(c) /\ c.regime.risk = "RISK_OFF" /\ c.thesis.assessment \notin Broken => Reduce(c).fires
  BY DEF Reduce, Verdict
<1>5. Accumulate(c).fires => c.thesis.assessment \in Sound /\ c.regime.trend = "BULLISH"
  BY DEF Accumulate, Verdict
<1>6. i > 1 => ~ThesisReview(c).fires
  <2>1. i > 1 => ~Rules(c)[1].fires
    BY <1>1
  <2>. QED  BY <2>1, RulesFacts
<1>7. i > 2 => ~ExitReview(c).fires
  <2>1. i > 2 => ~Rules(c)[2].fires
    BY <1>1
  <2>. QED  BY <2>1, RulesFacts
<1>8. i > 3 => ~Reduce(c).fires
  <2>1. i > 3 => ~Rules(c)[3].fires
    BY <1>1
  <2>. QED  BY <2>1, RulesFacts
<1>9. /\ i = 1 => signal.category = "THESIS_REVIEW"
      /\ i = 2 => signal.category = "EXIT_REVIEW"
      /\ signal.category = "ACCUMULATE" => i = 4 /\ Accumulate(c).fires
  <2>1. /\ VerdictOK(Rules(c)[1], "THESIS_REVIEW") /\ VerdictOK(Rules(c)[2], "EXIT_REVIEW")
        /\ VerdictOK(Rules(c)[3], "REDUCE") /\ VerdictOK(Rules(c)[4], "ACCUMULATE")
        /\ VerdictOK(Rules(c)[5], "RESEARCH") /\ VerdictOK(Rules(c)[6], "WATCH")
        /\ Rules(c)[4] = Accumulate(c)
    BY RulesFacts
  <2>2. i = 1 \/ i = 2 \/ i = 3 \/ i = 4 \/ i = 5 \/ i = 6
    OBVIOUS
  <2>. QED  BY <1>1, <2>1, <2>2 DEF VerdictOK
<1>10. c.thesis.assessment \in Broken => signal.category = "THESIS_REVIEW"
  BY <1>2, <1>6, <1>9
<1>11. IsHeld(c) /\ InDrawdown(c) => signal.category \in {"THESIS_REVIEW", "EXIT_REVIEW"}
  <2>1. IsHeld(c) /\ InDrawdown(c) => ~(i > 2)
    BY <1>3, <1>7
  <2>. QED  BY <1>9, <2>1
<1>12. ASSUME IsHeld(c), signal.category = "ACCUMULATE"
       PROVE  c.quant.long # "below" /\ c.regime.trend # "BEARISH" /\ c.regime.risk # "RISK_OFF"
  <2>1. i = 4 /\ c.thesis.assessment \in Sound /\ c.regime.trend = "BULLISH"
    BY <1>5, <1>9, <1>12
  <2>2. c.thesis.assessment \notin Broken
    BY <2>1 DEF Sound, Broken
  <2>3. ~ExitReview(c).fires /\ ~Reduce(c).fires
    BY <1>7, <1>8, <2>1
  <2>. QED  BY <1>3, <1>4, <1>12, <2>1, <2>2, <2>3
<1>13. /\ Stance(signal.evidence, "supports") > 0
       /\ (Confidence(signal.evidence) = Full) <=>
            Stance(signal.evidence, "contradicts") + Stance(signal.evidence, "unknown") = 0
  BY SignalFacts, ConfidenceFacts DEF Within
<1>. QED  BY <1>10, <1>11, <1>12, <1>13 DEF Honest

-----------------------------------------------------------------------------
(***************************************************************************)
(* Signals: what holds of the tables whatever the sessions do.             *)
(***************************************************************************)
MarketOK ==
    /\ today \in Days /\ stamps \in Nat /\ events \in 0..MaxEvents
    /\ stored \in [Assets -> Days] /\ \A a \in Assets : stored[a] <= today
    /\ update \in [pc : {"none", "bars", "regime"}, day : Days]
    /\ ~Quiet => stamps > 0
    /\ \A o \in observed : o.at \in 1..stamps

Assessments == FirstTheses \cup Verdicts

ReviewsOK ==
    /\ theses \in [Assets -> [assessment : Assessments, reviewed : Days \cup {Never}]]
    /\ \A r \in reviewed : r.day \in 0..today

\* A row, in what it has and in its times; a signal made while no update was
\* under way is older than the update that is.
RowOK(row) ==
    /\ row = [id |-> row.id, asset |-> row.asset, category |-> row.category,
              confidence |-> row.confidence, day |-> row.day, at |-> row.at,
              status |-> row.status, used |-> row.used, quiet |-> row.quiet]
    /\ row.asset \in Assets /\ row.category \in Categories /\ row.confidence \in 1..Full
    /\ row.day \in 0..today /\ row.at \in 0..stamps
    /\ row.id \in Nat /\ row.id < events
    /\ row.quiet /\ ~Quiet => row.at < stamps

RowsOK ==
    /\ IsFiniteSet(signals)
    /\ \A row \in signals : RowOK(row)
    /\ \A x, y \in signals : x.id = y.id /\ x.asset = y.asset => x = y

TablesOK == MarketOK /\ ReviewsOK /\ RowsOK /\ LineageKept

LEMMA Bounds ==
    /\ MaxDay \in Nat /\ MaxEvents \in Nat /\ MinCloses \in Nat
    /\ Days = 0..MaxDay /\ Days \subseteq Nat /\ 0 \in Days
  BY SignalsAssumption DEF Days

LEMMA TablesInit == SignalsInit => TablesOK
<1>. SUFFICES ASSUME SignalsInit PROVE TablesOK
  OBVIOUS
<1>. USE Bounds
<1>1. MarketOK
  <2>1. Quiet
    BY DEF SignalsInit, Quiet
  <2>. QED  BY <2>1 DEF SignalsInit, MarketOK
<1>2. ReviewsOK
  <2>1. PICK initial \in [Assets -> FirstTheses] :
          LET broken == {a \in Assets : initial[a] = "THESIS_INVALIDATED"} IN
          /\ theses = [a \in Assets |->
               [assessment |-> initial[a], reviewed |-> IF a \in broken THEN 0 ELSE Never]]
          /\ reviewed = {[asset |-> a, day |-> 0, id |-> -1, to |-> initial[a]] : a \in broken}
    BY DEF SignalsInit
  <2>2. theses \in [Assets -> [assessment : Assessments, reviewed : Days \cup {Never}]]
    BY <2>1 DEF Assessments
  <2>3. \A r \in reviewed : r.day = 0
    BY <2>1
  <2>. QED  BY <2>2, <2>3 DEF SignalsInit, ReviewsOK
<1>3. RowsOK /\ LineageKept
  BY FS_EmptySet DEF SignalsInit, RowsOK, LineageKept
<1>. QED  BY <1>1, <1>2, <1>3 DEF TablesOK

\* A step that leaves the signals and the observations alone keeps what was
\* so of the rows, as long as time, stamps and events do not go back.
LEMMA RowsKept ==
    ASSUME TablesOK, UNCHANGED signals,
           today' \in Int, today <= today', stamps' \in Int, stamps <= stamps',
           events' \in Int, events <= events',
           Quiet' \/ stamps < stamps' \/ (~Quiet /\ stamps' = stamps)
    PROVE  RowsOK'
<1>. USE Bounds
<1>1. ASSUME NEW row \in signals  PROVE RowOK(row)'
  <2>1. RowOK(row)
    BY DEF TablesOK, RowsOK
  <2>2. today \in Int /\ stamps \in Int /\ events \in Int
    BY DEF TablesOK, MarketOK
  <2>3. row.day \in 0..today' /\ row.at \in 0..stamps' /\ row.id < events'
    BY <2>1, <2>2 DEF RowOK
  <2>4. row.quiet /\ ~Quiet' => row.at < stamps'
    BY <2>1, <2>2 DEF RowOK
  <2>. QED  BY <2>1, <2>3, <2>4 DEF RowOK
<1>. QED  BY <1>1 DEF TablesOK, RowsOK

LEMMA LineageSame ==
    ASSUME TablesOK, UNCHANGED <<signals, observed>>
    PROVE  LineageKept'
  BY DEF TablesOK, LineageKept, RegimeAt

LEMMA NextDayKeeps == TablesOK /\ NextDay => TablesOK'
<1>. SUFFICES ASSUME TablesOK, NextDay PROVE TablesOK'
  OBVIOUS
<1>. USE Bounds
<1>1. MarketOK' /\ today' \in Int /\ today <= today'
  BY DEF TablesOK, MarketOK, NextDay, Quiet
<1>2. ReviewsOK'
  BY DEF TablesOK, MarketOK, ReviewsOK, NextDay
<1>3. stamps \in Int /\ events \in Int /\ Quiet'
  BY DEF TablesOK, MarketOK, NextDay, Quiet
<1>4. RowsOK'
  BY <1>1, <1>3, RowsKept DEF NextDay
<1>5. LineageKept'
  BY LineageSame DEF NextDay
<1>. QED  BY <1>1, <1>2, <1>4, <1>5 DEF TablesOK

LEMMA BeginUpdateKeeps == TablesOK /\ BeginUpdate => TablesOK'
<1>. SUFFICES ASSUME TablesOK, BeginUpdate PROVE TablesOK'
  OBVIOUS
<1>. USE Bounds
<1>1. MarketOK'
  BY DEF TablesOK, MarketOK, BeginUpdate, Quiet
<1>2. ReviewsOK'
  BY DEF TablesOK, ReviewsOK, BeginUpdate
<1>3. today \in Int /\ stamps \in Int /\ events \in Int /\ stamps' = stamps + 1
  BY DEF TablesOK, MarketOK, BeginUpdate
<1>4. RowsOK'
  BY <1>3, RowsKept DEF BeginUpdate
<1>5. LineageKept'
  BY LineageSame DEF BeginUpdate
<1>. QED  BY <1>1, <1>2, <1>4, <1>5 DEF TablesOK

LEMMA CommitBarsKeeps == TablesOK /\ CommitBars => TablesOK'
<1>. SUFFICES ASSUME TablesOK, CommitBars PROVE TablesOK'
  OBVIOUS
<1>. USE Bounds
<1>1. update = [pc |-> "bars", day |-> update.day] /\ update' = [pc |-> "regime", day |-> update.day]
  BY DEF TablesOK, MarketOK, CommitBars
<1>2. ~Quiet /\ ~Quiet'
  BY <1>1 DEF Quiet
<1>3. PICK done \in SUBSET Assets : stored' = [a \in Assets |-> IF a \in done THEN today ELSE stored[a]]
  BY DEF CommitBars
<1>4. MarketOK'
  <2>1. stored' \in [Assets -> Days] /\ \A a \in Assets : stored'[a] <= today
    BY <1>3 DEF TablesOK, MarketOK
  <2>2. update' \in [pc : {"none", "bars", "regime"}, day : Days]
    BY <1>1 DEF TablesOK, MarketOK
  <2>. QED  BY <1>2, <2>1, <2>2 DEF TablesOK, MarketOK, CommitBars
<1>5. ReviewsOK'
  BY DEF TablesOK, ReviewsOK, CommitBars
<1>6. today \in Int /\ stamps \in Int /\ events \in Int
  BY DEF TablesOK, MarketOK
<1>7. RowsOK'
  BY <1>2, <1>6, RowsKept DEF CommitBars
<1>8. LineageKept'
  BY LineageSame DEF CommitBars
<1>. QED  BY <1>4, <1>5, <1>7, <1>8 DEF TablesOK

\* The observation of an update carries a later stamp than every signal made
\* while no update was under way.
LEMMA CommitRegimeKeeps == TablesOK /\ CommitRegime => TablesOK'
<1>. SUFFICES ASSUME TablesOK, CommitRegime PROVE TablesOK'
  OBVIOUS
<1>. USE Bounds
<1>1. update = [pc |-> "regime", day |-> update.day] /\ update' = [pc |-> "none", day |-> update.day]
  BY DEF TablesOK, MarketOK, CommitRegime
<1>2. ~Quiet /\ Quiet'
  BY <1>1 DEF Quiet
<1>3. today \in Int /\ stamps \in Nat /\ stamps > 0 /\ events \in Int
  BY <1>2 DEF TablesOK, MarketOK
<1>4. \A o \in observed' : o \in observed \/ o.at = stamps
  BY DEF CommitRegime
<1>5. observed \subseteq observed'
  BY DEF CommitRegime
<1>6. MarketOK'
  <2>1. \A o \in observed' : o.at \in 1..stamps
    BY <1>3, <1>4 DEF TablesOK, MarketOK
  <2>2. update' \in [pc : {"none", "bars", "regime"}, day : Days]
    BY <1>1 DEF TablesOK, MarketOK
  <2>. QED  BY <1>2, <2>1, <2>2 DEF TablesOK, MarketOK, CommitRegime
<1>7. ReviewsOK'
  BY DEF TablesOK, ReviewsOK, CommitRegime
<1>8. RowsOK'
  BY <1>2, <1>3, RowsKept DEF CommitRegime
<1>9. ASSUME NEW signal \in signals, signal.quiet
      PROVE  RegimeAt(signal.at)' = signal.used
  <2>1. signal.at < stamps /\ signal.at \in Int
    BY <1>2, <1>9 DEF TablesOK, RowsOK, RowOK
  <2>2. {o \in observed' : o.at <= signal.at} = {o \in observed : o.at <= signal.at}
    BY <1>3, <1>4, <1>5, <2>1
  <2>3. RegimeAt(signal.at) = signal.used
    BY <1>9 DEF TablesOK, LineageKept
  <2>. QED  BY <2>2, <2>3, Zenon DEF RegimeAt
<1>10. LineageKept'
  <2>1. signals' = signals
    BY DEF CommitRegime
  <2>. QED  BY <1>9, <2>1, Zenon DEF LineageKept
<1>. QED  BY <1>6, <1>7, <1>8, <1>10 DEF TablesOK

LEMMA ReviewThesisKeeps ==
    ASSUME TablesOK, NEW a \in Assets, NEW assessment \in Verdicts, ReviewThesis(a, assessment)
    PROVE  TablesOK'
<1>. USE Bounds
<1>1. events \in Int /\ events' = events + 1 /\ events' \in 0..MaxEvents
  BY DEF TablesOK, MarketOK, ReviewThesis, Happens
<1>2. MarketOK'
  BY <1>1 DEF TablesOK, MarketOK, ReviewThesis, Quiet
<1>3. ReviewsOK'
  <2>1. today \in Days
    BY DEF TablesOK, MarketOK
  <2>2. \A r \in reviewed' : r \in reviewed \/ r.day = today
    BY DEF ReviewThesis
  <2>3. theses' \in [Assets -> [assessment : Assessments, reviewed : Days \cup {Never}]]
    BY <2>1 DEF TablesOK, ReviewsOK, ReviewThesis, Assessments
  <2>. QED  BY <2>1, <2>2, <2>3 DEF TablesOK, ReviewsOK, ReviewThesis
<1>4. today \in Int /\ stamps \in Int /\ (Quiet' <=> Quiet)
  BY DEF TablesOK, MarketOK, ReviewThesis, Quiet
<1>5. RowsOK'
  BY <1>1, <1>4, RowsKept DEF ReviewThesis
<1>6. LineageKept'
  BY LineageSame DEF ReviewThesis
<1>. QED  BY <1>2, <1>3, <1>5, <1>6 DEF TablesOK

\* Sessions and people touch none of the market's tables but count an event.
LEMMA EventKeeps == TablesOK /\ Happens /\ UNCHANGED marketVars => TablesOK'
<1>. SUFFICES ASSUME TablesOK, Happens, UNCHANGED marketVars PROVE TablesOK'
  OBVIOUS
<1>. USE Bounds
<1>1. events \in Int /\ events' = events + 1 /\ events' \in 0..MaxEvents
  BY DEF TablesOK, MarketOK, Happens
<1>2. MarketOK'
  BY <1>1 DEF TablesOK, MarketOK, marketVars, Quiet
<1>3. ReviewsOK'
  BY DEF TablesOK, ReviewsOK, marketVars
<1>4. today \in Int /\ stamps \in Int /\ (Quiet' <=> Quiet)
  BY DEF TablesOK, MarketOK, marketVars, Quiet
<1>5. RowsOK'
  BY <1>1, <1>4, RowsKept DEF marketVars
<1>6. LineageKept'
  BY LineageSame DEF marketVars
<1>. QED  BY <1>2, <1>3, <1>5, <1>6 DEF TablesOK

LEMMA StutterKeeps == TablesOK /\ UNCHANGED signalVars => TablesOK'
<1>. SUFFICES ASSUME TablesOK, UNCHANGED signalVars PROVE TablesOK'
  OBVIOUS
<1>1. MarketOK'
  BY DEF TablesOK, MarketOK, signalVars, Quiet
<1>2. ReviewsOK'
  BY DEF TablesOK, ReviewsOK, signalVars
<1>3. today \in Int /\ stamps \in Int /\ events \in Int /\ (Quiet' <=> Quiet)
  BY Bounds DEF TablesOK, MarketOK, signalVars, Quiet
<1>4. RowsOK'
  BY <1>3, RowsKept DEF signalVars
<1>5. LineageKept'
  BY LineageSame DEF signalVars
<1>. QED  BY <1>1, <1>2, <1>4, <1>5 DEF TablesOK

\* The contexts of a run of the engine, and what it adds.
LEMMA ContextReasons ==
    ASSUME NEW situation \in [Assets -> Situations], NEW a \in Assets
    PROVE  Context(a, situation[a]).top.reasons \in Nat
<1>1. Context(a, situation[a]).top = situation[a].top
  BY DEF Context
<1>. QED  BY <1>1, SignalsAssumption

LEMMA RunStampFacts == TablesOK => RunStamps \subseteq 0..stamps
BY DEF RunStamps, TablesOK, MarketOK

LEMMA RowFacts ==
    ASSUME TablesOK, NEW situation \in [Assets -> Situations], NEW a \in Assets,
           NEW signal \in SignalsFor(Context(a, situation[a])), NEW at
    PROVE  LET row == Row(a, signal, at)
           IN  /\ row = [id |-> row.id, asset |-> row.asset, category |-> row.category,
                         confidence |-> row.confidence, day |-> row.day, at |-> row.at,
                         status |-> row.status, used |-> row.used, quiet |-> row.quiet]
               /\ row.category \in Categories /\ row.confidence \in 1..Full
               /\ row.id = events /\ row.asset = a /\ row.day = today /\ row.at = at
               /\ row.used = Latest(observed).trend /\ (row.quiet <=> Quiet /\ at = stamps)
<1>. DEFINE c == Context(a, situation[a])
<1>1. c.top.reasons \in Nat
  BY ContextReasons
<1>. HIDE DEF c
<1>2. signal \in SignalsFor(c)
  BY DEF c
<1>3. signal.category \in Categories /\ Confidence(signal.evidence) \in 1..Full
  BY <1>1, <1>2, SignalFacts, ConfidenceFacts DEF Within
<1>. QED  BY <1>3 DEF Row

LEMMA NewRowFacts ==
    ASSUME TablesOK, NEW situation \in [Assets -> Situations], NEW at
    PROVE  /\ IsFiniteSet(NewRows(situation, at))
           /\ \A row \in NewRows(situation, at) :
                \E a \in Assets : \E signal \in SignalsFor(Context(a, situation[a])) : row = Row(a, signal, at)
           /\ \A x, y \in NewRows(situation, at) : x.asset = y.asset => x = y
<1>. DEFINE rows(a) == {Row(a, signal, at) : signal \in SignalsFor(Context(a, situation[a]))}
<1>1. NewRows(situation, at) = UNION {rows(a) : a \in Assets}
  BY DEF NewRows
<1>2. ASSUME NEW a \in Assets
      PROVE  IsFiniteSet(rows(a))
  <2>. DEFINE S == SignalsFor(Context(a, situation[a]))
              f == [signal \in S |-> Row(a, signal, at)]
              T == rows(a)
  <2>1. IsFiniteSet(S)
    BY ContextReasons, OneSignal
  <2>2. T = {f[signal] : signal \in S}
    OBVIOUS
  <2>3. f \in Surjection(S, T)
    BY <2>2 DEF Surjection
  <2>. HIDE DEF S, f, T
  <2>4. IsFiniteSet(T)
    BY <2>1, <2>3, FS_Surjection
  <2>. QED  BY <2>4 DEF T
<1>3. IsFiniteSet({rows(a) : a \in Assets})
  <2>. DEFINE T == {rows(a) : a \in Assets}
              g == [a \in Assets |-> rows(a)]
  <2>. HIDE DEF rows
  <2>1. g \in Surjection(Assets, T)
    BY DEF Surjection
  <2>. HIDE DEF T, g
  <2>2. IsFiniteSet(T)
    BY <2>1, SignalsAssumption, FS_Surjection
  <2>. QED  BY <2>2 DEF T
<1>4. IsFiniteSet(NewRows(situation, at))
  <2>. DEFINE T == {rows(a) : a \in Assets}
  <2>1. \A s \in T : IsFiniteSet(s)
    BY <1>2
  <2>2. IsFiniteSet(T)
    BY <1>3
  <2>. HIDE DEF T
  <2>3. IsFiniteSet(UNION T)
    BY <2>1, <2>2, FS_UNION
  <2>. QED  BY <1>1, <2>3 DEF T
<1>5. ASSUME NEW row \in NewRows(situation, at)
      PROVE  \E a \in Assets : \E signal \in SignalsFor(Context(a, situation[a])) : row = Row(a, signal, at)
  BY DEF NewRows
<1>6. ASSUME NEW x \in NewRows(situation, at), NEW y \in NewRows(situation, at), x.asset = y.asset
      PROVE  x = y
  <2>1. PICK a \in Assets : \E s \in SignalsFor(Context(a, situation[a])) : x = Row(a, s, at)
    BY <1>5
  <2>2. PICK b \in Assets : \E t \in SignalsFor(Context(b, situation[b])) : y = Row(b, t, at)
    BY <1>5
  <2>3. PICK s \in SignalsFor(Context(a, situation[a])) : x = Row(a, s, at)
    BY <2>1
  <2>4. PICK t \in SignalsFor(Context(b, situation[b])) : y = Row(b, t, at)
    BY <2>2
  <2>5. a = b
    BY <1>6, <2>3, <2>4 DEF Row
  <2>6. s = t
    BY <2>5, ContextReasons, OneSignal
  <2>. QED  BY <2>3, <2>4, <2>5, <2>6
<1>. QED  BY <1>4, <1>5, <1>6

\* A signal made while no update is under way sees the newest observation,
\* and no later one will carry its stamp.
LEMMA RunSignalsKeeps ==
    ASSUME TablesOK, NEW situation \in [Assets -> Situations], RunSignals(situation)
    PROVE  TablesOK'
<1>. USE Bounds
<1>0. PICK at \in RunStamps : signals' = signals \cup NewRows(situation, at)
  BY DEF RunSignals
<1>. DEFINE new == NewRows(situation, at)
<1>1. events \in Nat /\ events' = events + 1 /\ events' \in 0..MaxEvents
  BY DEF TablesOK, MarketOK, RunSignals, Happens
<1>2. MarketOK'
  BY <1>1 DEF TablesOK, MarketOK, RunSignals, Quiet
<1>3. ReviewsOK'
  BY DEF TablesOK, ReviewsOK, RunSignals
<1>4. today \in Nat /\ stamps \in Nat /\ (Quiet' <=> Quiet)
  BY DEF TablesOK, MarketOK, RunSignals, Quiet
<1>5. signals' = signals \cup new /\ at \in 0..stamps
  BY <1>0, RunStampFacts
<1>6. ASSUME NEW row \in new
      PROVE  /\ RowOK(row)' /\ row.id = events
             /\ row.quiet => RegimeAt(row.at)' = row.used
  <2>0. PICK a \in Assets : \E signal \in SignalsFor(Context(a, situation[a])) : row = Row(a, signal, at)
    BY NewRowFacts
  <2>1. PICK signal \in SignalsFor(Context(a, situation[a])) : row = Row(a, signal, at)
    BY <2>0
  <2>2. /\ row = [id |-> row.id, asset |-> row.asset, category |-> row.category,
                  confidence |-> row.confidence, day |-> row.day, at |-> row.at,
                  status |-> row.status, used |-> row.used, quiet |-> row.quiet]
        /\ row.category \in Categories /\ row.confidence \in 1..Full
        /\ row.id = events /\ row.asset = a /\ row.day = today /\ row.at = at
        /\ row.used = Latest(observed).trend /\ (row.quiet <=> Quiet /\ at = stamps)
    BY <2>1, RowFacts
  <2>3. today' = today /\ stamps' = stamps /\ observed' = observed
    BY DEF RunSignals
  <2>4. RowOK(row)'
    BY <1>1, <1>4, <1>5, <2>2, <2>3 DEF RowOK
  <2>5. {o \in observed' : o.at <= stamps} = observed
    BY <1>4, <2>3 DEF TablesOK, MarketOK
  <2>6. row.quiet => RegimeAt(row.at)' = row.used
    BY <2>2, <2>5 DEF RegimeAt
  <2>. QED  BY <2>2, <2>4, <2>6
<1>7. ASSUME NEW row \in signals
      PROVE  RowOK(row)' /\ row.id # events /\ (row.quiet => RegimeAt(row.at)' = row.used)
  <2>1. RowOK(row)
    BY DEF TablesOK, RowsOK
  <2>2. today' = today /\ stamps' = stamps /\ observed' = observed
    BY DEF RunSignals
  <2>3. RowOK(row)' /\ row.id # events
    BY <1>1, <1>4, <2>1, <2>2 DEF RowOK
  <2>4. row.quiet => RegimeAt(row.at) = row.used
    BY DEF TablesOK, LineageKept
  <2>. QED  BY <2>2, <2>3, <2>4 DEF RegimeAt
<1>8. RowsOK'
  <2>1. IsFiniteSet(signals')
    BY <1>5, NewRowFacts, FS_Union DEF TablesOK, RowsOK
  <2>2. ASSUME NEW x \in signals', NEW y \in signals', x.id = y.id, x.asset = y.asset
        PROVE  x = y
    <3>1. CASE x \in new /\ y \in new
      BY <2>2, <3>1, NewRowFacts
    <3>2. CASE x \in signals /\ y \in signals
      BY <2>2, <3>2 DEF TablesOK, RowsOK
    <3>. QED  BY <1>5, <1>6, <1>7, <2>2, <3>1, <3>2
  <2>. QED  BY <1>5, <1>6, <1>7, <2>1, <2>2 DEF RowsOK
<1>9. LineageKept'
  BY <1>5, <1>6, <1>7 DEF LineageKept
<1>. QED  BY <1>2, <1>3, <1>8, <1>9 DEF TablesOK

LEMMA SettleKeeps ==
    ASSUME TablesOK, NEW x \in signals, NEW status \in {"acknowledged", "dismissed"},
           Settle(x, status)
    PROVE  TablesOK'
<1>. USE Bounds
<1>. DEFINE y == [x EXCEPT !.status = status]
<1>1. events \in Nat /\ events' = events + 1 /\ events' \in 0..MaxEvents
  BY DEF TablesOK, MarketOK, Settle, Happens
<1>2. MarketOK'
  BY <1>1 DEF TablesOK, MarketOK, Settle, Quiet
<1>3. ReviewsOK'
  BY DEF TablesOK, ReviewsOK, Settle
<1>4. today \in Nat /\ stamps \in Nat /\ (Quiet' <=> Quiet)
  BY DEF TablesOK, MarketOK, Settle, Quiet
<1>5. signals' = (signals \ {x}) \cup {y}
  BY DEF Settle
<1>6. today' = today /\ stamps' = stamps /\ observed' = observed
  BY DEF Settle
<1>7. RowOK(x)
  BY DEF TablesOK, RowsOK
<1>8. /\ y = [id |-> x.id, asset |-> x.asset, category |-> x.category,
              confidence |-> x.confidence, day |-> x.day, at |-> x.at,
              status |-> status, used |-> x.used, quiet |-> x.quiet]
      /\ y.id = x.id /\ y.asset = x.asset /\ y.category = x.category
      /\ y.confidence = x.confidence /\ y.day = x.day /\ y.at = x.at
      /\ y.used = x.used /\ y.quiet = x.quiet /\ y.status = status
  BY <1>7 DEF RowOK
<1>. HIDE DEF y
<1>9. ASSUME NEW row \in signals
      PROVE  RowOK(row)' /\ (row.quiet => RegimeAt(row.at)' = row.used)
  <2>1. RowOK(row)
    BY DEF TablesOK, RowsOK
  <2>2. RowOK(row)'
    BY <1>1, <1>4, <1>6, <2>1 DEF RowOK
  <2>3. row.quiet => RegimeAt(row.at) = row.used
    BY DEF TablesOK, LineageKept
  <2>. QED  BY <1>6, <2>2, <2>3 DEF RegimeAt
<1>10. RowOK(y)' /\ (y.quiet => RegimeAt(y.at)' = y.used)
  <2>1. RowOK(x)' /\ (x.quiet => RegimeAt(x.at)' = x.used)
    BY <1>9
  <2>2. RowOK(y)'
    BY <1>8, <2>1 DEF RowOK
  <2>. QED  BY <1>8, <2>1, <2>2
<1>11. RowsOK'
  <2>1. IsFiniteSet(signals')
    <3>1. IsFiniteSet(signals \ {x}) /\ IsFiniteSet({y})
      BY FS_Subset, FS_Singleton DEF TablesOK, RowsOK
    <3>. QED  BY <1>5, <3>1, FS_Union
  <2>2. ASSUME NEW p \in signals', NEW q \in signals', p.id = q.id, p.asset = q.asset
        PROVE  p = q
    BY <1>5, <1>8, <2>2 DEF TablesOK, RowsOK
  <2>. QED  BY <1>5, <1>9, <1>10, <2>1, <2>2 DEF RowsOK
<1>12. LineageKept'
  BY <1>5, <1>9, <1>10 DEF LineageKept
<1>. QED  BY <1>2, <1>3, <1>11, <1>12 DEF TablesOK

LEMMA SignalsNextKeeps == TablesOK /\ SignalsNext => TablesOK'
  BY NextDayKeeps, BeginUpdateKeeps, CommitBarsKeeps, CommitRegimeKeeps, ReviewThesisKeeps,
     RunSignalsKeeps, SettleKeeps DEF SignalsNext

-----------------------------------------------------------------------------
(***************************************************************************)
(* Reviews: what is measured once the horizon is over and stored stays as  *)
(* measured.                                                               *)
(***************************************************************************)
LEMMA LeastNatural ==
    ASSUME NEW T, T \subseteq Nat, T # {}
    PROVE  \E i \in T : \A j \in T : i <= j
<1>1. PICK i \in T : \A j \in T : ~(<<j, i>> \in OpToRel(<, Nat))
  BY NatLessThanWellFounded, WFMin
<1>2. ASSUME NEW j \in T, j < i  PROVE FALSE
  <2>1. <<j, i>> \in Nat \X Nat /\ <<j, i>>[1] < <<j, i>>[2]
    BY <1>2
  <2>2. <<j, i>> \in OpToRel(<, Nat)
    BY <2>1, Zenon DEF OpToRel
  <2>. QED  BY <1>1, <2>2
<1>. QED  BY <1>2

\* What comes later does not change the first day.
LEMMA FirstDayStays ==
    ASSUME NEW T, NEW U, T # {}, T \subseteq U, U \subseteq Nat,
           \A u \in U : u \in T \/ \A t \in T : t <= u
    PROVE  FirstDay(U) = FirstDay(T)
<1>1. PICK i \in T : \A j \in T : i <= j
  BY LeastNatural
<1>2. i \in U /\ \A j \in U : i <= j
  BY <1>1
<1>3. FirstDay(T) = i
  <2>1. FirstDay(T) \in T /\ \A j \in T : FirstDay(T) <= j
    BY <1>1 DEF FirstDay
  <2>2. i \in Nat /\ FirstDay(T) \in Nat /\ i <= FirstDay(T) /\ FirstDay(T) <= i
    BY <1>1, <2>1
  <2>. QED  BY <2>2
<1>4. FirstDay(U) = i
  <2>1. FirstDay(U) \in U /\ \A j \in U : FirstDay(U) <= j
    BY <1>2 DEF FirstDay
  <2>2. i \in Nat /\ FirstDay(U) \in Nat /\ i <= FirstDay(U) /\ FirstDay(U) <= i
    BY <1>1, <1>2, <2>1
  <2>. QED  BY <2>2
<1>. QED  BY <1>3, <1>4

\* Documents of the model's assets and days.
RecordsOK == \A d \in documents : d.asset \in Assets /\ d.day \in 0..today

\* Bars are added at the end and never change.
Grows == history' = history /\ \A a \in Assets : stored[a] <= stored'[a]

PeriodOK(period) == period.start \in Int /\ period.end \in Int /\ period.start <= period.end

\* The bars of the horizon after the period are in.
Over(period) == \A a \in Assets : period.end + Horizon <= stored[a]

\* A return whose horizon is stored is the same after any step.
LEMMA ForwardStays ==
    ASSUME TablesOK, TablesOK', Grows, NEW a \in Assets, NEW anchor \in Int,
           anchor + Horizon <= stored[a]
    PROVE  ForwardReturn(a, anchor)' = ForwardReturn(a, anchor)
<1>. DEFINE before == {day \in BarDays(a) : day <= anchor}
            window == {day \in BarDays(a) : anchor < day /\ day <= anchor + Horizon}
<1>1. /\ stored[a] \in Nat /\ stored'[a] \in Nat /\ stored[a] <= stored'[a]
      /\ history' = history /\ Horizon \in Nat
  BY Bounds, MetricsAssumption DEF TablesOK, MarketOK, Grows
<1>2. BarDays(a) = {day \in 0..stored[a] : history[a][day] # NoBar}
      /\ BarDays(a)' = {day \in 0..stored'[a] : history[a][day] # NoBar}
  BY <1>1 DEF BarDays
<1>3. ASSUME NEW day, day \in Int /\ day <= anchor + Horizon
      PROVE  day \in BarDays(a)' <=> day \in BarDays(a)
  BY <1>1, <1>2, <1>3
<1>4. \A day \in BarDays(a) \cup BarDays(a)' : day \in Int
  BY <1>1, <1>2
<1>5. before' = before
  BY <1>1, <1>3, <1>4
<1>6. window' = window
  BY <1>1, <1>3, <1>4
<1>7. ForwardReturn(a, anchor) =
        IF before = {} \/ window = {} THEN NoMove
        ELSE [from |-> history[a][LastDay(before)], to |-> history[a][LastDay(window)]]
  BY Zenon DEF ForwardReturn
<1>8. ForwardReturn(a, anchor)' =
        IF before' = {} \/ window' = {} THEN NoMove
        ELSE [from |-> history'[a][LastDay(before')], to |-> history'[a][LastDay(window')]]
  BY Zenon DEF ForwardReturn
<1>. HIDE DEF before, window
<1>. QED  BY <1>1, <1>5, <1>6, <1>7, <1>8, Zenon

LEMMA DuringFacts ==
    ASSUME TablesOK, Grows, NEW period, PeriodOK(period), Over(period)
    PROVE  period.end < today
<1>1. Benchmark \in Assets /\ Horizon \in Nat /\ Horizon > 0
  BY SignalsAssumption, MetricsAssumption
<1>2. stored[Benchmark] <= today /\ stored[Benchmark] \in Nat /\ today \in Nat
  BY <1>1, Bounds DEF TablesOK, MarketOK
<1>3. period.end + Horizon <= stored[Benchmark] /\ period.end \in Int
  BY <1>1 DEF Over, PeriodOK
<1>. QED  BY <1>1, <1>2, <1>3

\* How many of the scored signals of a category had an outcome.
OfOutcome(period, category, outcome) ==
    {s \in Scored(period) : s.category = category /\ Outcome(s) = outcome}

LEMMA AccuracyIs ==
    ASSUME NEW period
    PROVE  SignalAccuracy(period) =
             [scores |-> [category \in DOMAIN Directional |->
                [outcome \in {"correct", "incorrect", "unresolved"} |->
                   Cardinality(OfOutcome(period, category, outcome))]],
              missed |-> FalseNegatives(period)]
  BY DEF SignalAccuracy, OfOutcome

(***************************************************************************)
(* A step that only renames the scored signals of a period scores them the *)
(* same way.                                                               *)
(***************************************************************************)
LEMMA AccuracyStays ==
    ASSUME TablesOK, TablesOK', Grows, NEW period, PeriodOK(period), Over(period),
           NEW m, m \in Bijection(Scored(period), Scored(period)'),
           \A s \in Scored(period) :
             m[s].asset = s.asset /\ m[s].day = s.day /\ m[s].category = s.category
    PROVE  SignalAccuracy(period)' = SignalAccuracy(period)
<1>1. ASSUME NEW s \in Scored(period)
      PROVE  /\ s \in signals /\ m[s] \in Scored(period)' /\ m[s].asset = s.asset
             /\ m[s].day = s.day /\ m[s].category = s.category
             /\ s.asset \in Assets /\ s.day \in Int /\ s.day <= period.end
  <2>1. s \in signals /\ s.day <= period.end
    BY DEF Scored, During
  <2>2. s.asset \in Assets /\ s.day \in Int
    BY <2>1 DEF TablesOK, RowsOK, RowOK
  <2>3. m[s] \in Scored(period)'
    BY DEF Bijection, Injection
  <2>. QED  BY <2>1, <2>2, <2>3
<1>2. ASSUME NEW s \in Scored(period)
      PROVE  Outcome(m[s])' = Outcome(s)
  <2>1. s.day + Horizon <= stored[s.asset]
    <3>1. period.end + Horizon <= stored[s.asset] /\ stored[s.asset] \in Nat
      BY <1>1, Bounds DEF Over, TablesOK, MarketOK
    <3>2. period.end \in Int /\ Horizon \in Nat
      BY MetricsAssumption DEF PeriodOK
    <3>. QED  BY <1>1, <3>1, <3>2
  <2>2. ForwardReturn(s.asset, s.day)' = ForwardReturn(s.asset, s.day)
    BY <1>1, <2>1, ForwardStays
  <2>3. MoveOf(m[s])' = MoveOf(s)
    BY <1>1, <2>2, Zenon DEF MoveOf
  <2>. QED  BY <1>1, <2>3, Zenon DEF Outcome
<1>3. ASSUME NEW t \in Scored(period)'
      PROVE  \E s \in Scored(period) : m[s] = t
  BY DEF Bijection, Surjection
<1>4. ASSUME NEW category, NEW outcome
      PROVE  Cardinality(OfOutcome(period, category, outcome)') =
               Cardinality(OfOutcome(period, category, outcome))
  <2>. DEFINE S == OfOutcome(period, category, outcome)
              T == OfOutcome(period, category, outcome)'
              f == [s \in S |-> m[s]]
  <2>1. \A s \in S : s \in Scored(period) /\ m[s] \in T
    BY <1>1, <1>2 DEF OfOutcome
  <2>2. \A t \in T : \E s \in S : m[s] = t
    BY <1>1, <1>2, <1>3 DEF OfOutcome
  <2>3. \A s, r \in S : m[s] = m[r] => s = r
    BY <2>1 DEF Bijection, Injection, IsInjective
  <2>4. IsFiniteSet(S)
    <3>1. S \subseteq signals
      BY <1>1, <2>1
    <3>. QED  BY <3>1, FS_Subset DEF TablesOK, RowsOK
  <2>. HIDE DEF S, T
  <2>5. f \in Bijection(S, T)
    BY <2>1, <2>2, <2>3 DEF Bijection, Injection, Surjection, IsInjective
  <2>. HIDE DEF f
  <2>6. ExistsBijection(S, T)
    BY <2>5 DEF ExistsBijection
  <2>7. Cardinality(T) = Cardinality(S)
    BY <2>4, <2>6, FS_Bijection
  <2>. QED  BY <2>7 DEF S, T
<1>5. Warned(period)' = Warned(period)
  <2>. DEFINE warns(s) == Directional[s.category] < 0 /\ Outcome(s) # "unresolved"
  <2>1. ASSUME NEW a
        PROVE  a \in Warned(period) <=> \E s \in Scored(period) : warns(s) /\ s.asset = a
    BY DEF Warned
  <2>2. ASSUME NEW a
        PROVE  a \in Warned(period)' <=>
                 \E t \in Scored(period)' :
                   Directional[t.category] < 0 /\ Outcome(t)' # "unresolved" /\ t.asset = a
    BY DEF Warned
  <2>3. ASSUME NEW a \in Warned(period)
        PROVE  a \in Warned(period)'
    <3>1. PICK s \in Scored(period) : warns(s) /\ s.asset = a
      BY <2>1
    <3>2. /\ m[s] \in Scored(period)' /\ m[s].asset = a /\ m[s].category = s.category
          /\ Outcome(m[s])' = Outcome(s)
      BY <1>1, <1>2, <3>1
    <3>. QED  BY <2>2, <3>1, <3>2
  <2>4. ASSUME NEW a, a \in Warned(period)'
        PROVE  a \in Warned(period)
    <3>1. PICK t \in Scored(period)' :
            Directional[t.category] < 0 /\ Outcome(t)' # "unresolved" /\ t.asset = a
      BY <2>2, <2>4
    <3>2. PICK s \in Scored(period) : m[s] = t
      BY <1>3
    <3>3. s.asset = a /\ t.category = s.category /\ Outcome(t)' = Outcome(s)
      BY <1>1, <1>2, <3>1, <3>2
    <3>. QED  BY <2>1, <3>1, <3>3
  <2>. QED  BY <2>3, <2>4
<1>6. FalseNegatives(period)' = FalseNegatives(period)
  <2>1. ASSUME NEW a \in Assets
        PROVE  ForwardReturn(a, period.start)' = ForwardReturn(a, period.start)
    <3>1. /\ period.end + Horizon <= stored[a] /\ stored[a] \in Nat
          /\ period.start \in Int /\ period.end \in Int /\ period.start <= period.end
          /\ Horizon \in Nat
      BY Bounds, MetricsAssumption DEF Over, PeriodOK, TablesOK, MarketOK
    <3>2. period.start + Horizon <= stored[a]
      BY <3>1
    <3>. QED  BY <3>1, <3>2, ForwardStays
  <2>. DEFINE dropped(a) == LET move == ForwardReturn(a, period.start)
                            IN  move # NoMove /\ move.to * 100 <= 85 * move.from
  <2>2. {a \in Assets \ Warned(period)' : dropped(a)'} = {a \in Assets \ Warned(period) : dropped(a)}
    BY <1>5, <2>1
  <2>. QED  BY <2>2 DEF FalseNegatives
<1>7. SignalAccuracy(period)' =
        [scores |-> [category \in DOMAIN Directional |->
           [outcome \in {"correct", "incorrect", "unresolved"} |->
              Cardinality(OfOutcome(period, category, outcome)')]],
         missed |-> FalseNegatives(period)']
  BY DEF SignalAccuracy, OfOutcome
<1>. QED  BY <1>4, <1>6, <1>7, AccuracyIs

LEMMA AccuracySame ==
    ASSUME TablesOK, TablesOK', Grows, NEW period, PeriodOK(period), Over(period),
           During(period, signals') = During(period, signals)
    PROVE  SignalAccuracy(period)' = SignalAccuracy(period)
<1>. DEFINE m == [s \in Scored(period) |-> s]
<1>1. Scored(period)' = Scored(period)
  BY DEF Scored
<1>2. m \in Bijection(Scored(period), Scored(period)')
  BY <1>1 DEF Bijection, Injection, Surjection, IsInjective
<1>3. \A s \in Scored(period) :
        m[s].asset = s.asset /\ m[s].day = s.day /\ m[s].category = s.category
  OBVIOUS
<1>. HIDE DEF m
<1>. QED  BY <1>2, <1>3, AccuracyStays

\* Acknowledging a signal renames it.
LEMMA AccuracySettled ==
    ASSUME TablesOK, TablesOK', Grows, NEW period, PeriodOK(period), Over(period),
           NEW x \in signals, NEW status, Settle(x, status),
           status \in {"acknowledged", "dismissed"}
    PROVE  SignalAccuracy(period)' = SignalAccuracy(period)
<1>. DEFINE y == [x EXCEPT !.status = status]
            m == [s \in Scored(period) |-> IF s = x THEN y ELSE s]
<1>1. signals' = (signals \ {x}) \cup {y}
  BY DEF Settle
<1>2. RowOK(x)
  BY DEF TablesOK, RowsOK
<1>3. /\ y.id = x.id /\ y.asset = x.asset /\ y.category = x.category /\ y.day = x.day
      /\ y.status = status /\ x.status = "active" /\ y # x
  BY <1>2 DEF RowOK, Settle
<1>. HIDE DEF y
<1>4. \A s \in signals : s.id = x.id /\ s.asset = x.asset => s = x
  BY DEF TablesOK, RowsOK
<1>5. y \notin signals
  BY <1>3, <1>4
<1>6. ASSUME NEW s
      PROVE  s \in Scored(period) <=> /\ s \in signals /\ period.start <= s.day /\ s.day <= period.end
                                      /\ s.category \in DOMAIN Directional
  BY DEF Scored, During
<1>7. ASSUME NEW s
      PROVE  s \in Scored(period)' <=> /\ s \in signals' /\ period.start <= s.day /\ s.day <= period.end
                                       /\ s.category \in DOMAIN Directional
  BY DEF Scored, During
<1>8. \A s \in Scored(period) : m[s] \in Scored(period)'
  BY <1>1, <1>3, <1>6, <1>7
<1>9. \A t \in Scored(period)' : \E s \in Scored(period) : m[s] = t
  <2>1. ASSUME NEW t \in Scored(period)'
        PROVE  \E s \in Scored(period) : m[s] = t
    <3>1. CASE t = y
      <4>1. x \in Scored(period)
        BY <1>3, <1>6, <1>7, <2>1, <3>1
      <4>. QED  BY <3>1, <4>1
    <3>2. CASE t # y
      <4>1. t \in Scored(period) /\ t # x
        BY <1>1, <1>6, <1>7, <2>1, <3>2
      <4>. QED  BY <4>1
    <3>. QED  BY <3>1, <3>2
  <2>. QED  BY <2>1
<1>10. \A s, t \in Scored(period) : m[s] = m[t] => s = t
  BY <1>5, <1>6
<1>11. \A s \in Scored(period) :
         m[s].asset = s.asset /\ m[s].day = s.day /\ m[s].category = s.category
  BY <1>3
<1>12. m \in Bijection(Scored(period), Scored(period)')
  <2>. DEFINE S == Scored(period)
              T == Scored(period)'
  <2>1. m \in [S -> T]
    BY <1>8
  <2>2. \A t \in T : \E s \in S : m[s] = t
    BY <1>9
  <2>3. \A s, t \in S : m[s] = m[t] => s = t
    BY <1>10
  <2>. HIDE DEF S, T, m
  <2>4. m \in Bijection(S, T)
    BY <2>1, <2>2, <2>3 DEF Bijection, Injection, Surjection, IsInjective
  <2>. QED  BY <2>4 DEF S, T
<1>. HIDE DEF m
<1>. QED  BY <1>11, <1>12, AccuracyStays

LEMMA ResearchStays ==
    ASSUME TablesOK, TablesOK', RecordsOK, Grows, NEW period, PeriodOK(period), Over(period),
           During(period, documents') = During(period, documents)
    PROVE  ResearchOutcomes(period)' = ResearchOutcomes(period)
<1>. DEFINE found == During(period, documents)
            move == [d \in found |-> ForwardReturn(d.asset, d.day)]
<1>1. found' = found
  BY DEF During
<1>2. ASSUME NEW d \in found
      PROVE  ForwardReturn(d.asset, d.day)' = ForwardReturn(d.asset, d.day)
  <2>1. /\ d.asset \in Assets /\ d.day \in Int /\ d.day <= period.end
    BY DEF During, RecordsOK
  <2>2. /\ period.end + Horizon <= stored[d.asset] /\ stored[d.asset] \in Nat
        /\ period.end \in Int /\ Horizon \in Nat
    BY <2>1, Bounds, MetricsAssumption DEF Over, PeriodOK, TablesOK, MarketOK
  <2>3. d.day + Horizon <= stored[d.asset]
    BY <2>1, <2>2
  <2>. QED  BY <2>1, <2>3, ForwardStays
<1>3. move' = move
  BY <1>1, <1>2
<1>. DEFINE outcomes(f, g) ==
       LET resolved == {d \in f : g[d] # NoMove}
       IN  [documents |-> Cardinality(f), resolved |-> Cardinality(resolved),
            positive |-> Cardinality({d \in resolved : g[d].to > g[d].from}),
            negative |-> Cardinality({d \in resolved : g[d].to < g[d].from})]
<1>4. ResearchOutcomes(period) = outcomes(found, move)
  BY Zenon DEF ResearchOutcomes
<1>5. ResearchOutcomes(period)' = outcomes(found', move')
  BY Zenon DEF ResearchOutcomes
<1>. HIDE DEF outcomes, found, move
<1>. QED  BY <1>1, <1>3, <1>4, <1>5, Zenon

LEMMA StrategyStays ==
    ASSUME NEW period, During(period, trades') = During(period, trades)
    PROVE  StrategyPerformance(period)' = StrategyPerformance(period)
<1>1. StrategyPerformance(period)' = StrategyOf(During(period, trades'))
  BY DEF StrategyPerformance
<1>2. StrategyPerformance(period) = StrategyOf(During(period, trades))
  BY DEF StrategyPerformance
<1>. QED  BY <1>1, <1>2, Zenon

\* Rows of a later day do not belong to a period.
LEMMA LaterRows ==
    ASSUME NEW period, NEW rows, NEW new, NEW day \in Int, period.end \in Int, period.end < day,
           \A row \in new : row.day = day
    PROVE  During(period, rows \cup new) = During(period, rows)
  BY DEF During

(***************************************************************************)
(* What a step does to the tables that are measured: one of the market's,  *)
(* the engine's or a reviewer's, a document, a closed trade, or nothing.   *)
(***************************************************************************)
WorldStep ==
    \/ SignalsNext /\ UNCHANGED recordVars
    \/ \E a \in Assets : AddDocument(a) /\ UNCHANGED marketVars
    \/ \E a \in Assets, closing \in Closings : CloseTrade(a, closing) /\ UNCHANGED marketVars
    \/ UNCHANGED <<marketVars, recordVars>> /\ (Happens \/ UNCHANGED events)

LEMMA NextIsWorldStep == [Next]_vars => WorldStep
<1>. SUFFICES ASSUME [Next]_vars PROVE WorldStep
  OBVIOUS
<1>1. CASE UNCHANGED vars
  BY <1>1 DEF WorldStep, vars, signalVars, marketVars
<1>2. CASE SignalsNext /\ UNCHANGED <<recordVars, learningVars>>
  BY <1>2 DEF WorldStep
<1>3. ASSUME NEW a \in Assets, AddDocument(a) /\ UNCHANGED <<marketVars, learningVars>>
      PROVE  WorldStep
  BY <1>3 DEF WorldStep
<1>4. ASSUME NEW a \in Assets, NEW closing \in Closings,
             CloseTrade(a, closing) /\ UNCHANGED <<marketVars, learningVars>>
      PROVE  WorldStep
  BY <1>4 DEF WorldStep
<1>5. ASSUME NEW s \in Sessions,
             \/ \E kind \in Kinds, offset \in AsOfOffsets, mirrored \in BOOLEAN :
                  Build(s, kind, today + offset, mirrored)
             \/ Abort(s)
      PROVE  WorldStep
  BY <1>5 DEF Build, Abort, WorldStep
<1>6. ASSUME NEW s \in Sessions, PublishNote(s) \/ StoreReview(s) \/ CommitReview(s)
      PROVE  WorldStep
  <2>1. UNCHANGED <<signalVars, recordVars>>
    BY <1>6 DEF PublishNote, StoreReview, CommitReview
  <2>. QED  BY <2>1 DEF WorldStep, signalVars, marketVars
<1>. QED  BY <1>1, <1>2, <1>3, <1>4, <1>5, <1>6 DEF Next

LEMMA WorldKeeps ==
    ASSUME TablesOK, RecordsOK, WorldStep
    PROVE  TablesOK' /\ RecordsOK' /\ Grows
<1>0. today \in Nat /\ \A a \in Assets : stored[a] \in Nat /\ stored[a] <= today
  BY Bounds DEF TablesOK, MarketOK
<1>1. CASE SignalsNext /\ UNCHANGED recordVars
  <2>1. TablesOK'
    BY <1>1, SignalsNextKeeps
  <2>2. today' \in Nat /\ today <= today'
    BY <1>0, <1>1 DEF SignalsNext, NextDay, BeginUpdate, CommitBars, CommitRegime, ReviewThesis,
                      RunSignals, Settle
  <2>3. RecordsOK'
    BY <1>0, <1>1, <2>2 DEF RecordsOK, recordVars
  <2>4. Grows
    <3>1. CASE CommitBars
      <4>1. PICK done \in SUBSET Assets :
              stored' = [a \in Assets |-> IF a \in done THEN today ELSE stored[a]]
        BY <3>1 DEF CommitBars
      <4>. QED  BY <1>0, <3>1, <4>1 DEF Grows, CommitBars
    <3>2. CASE UNCHANGED <<history, stored>>
      BY <1>0, <3>2 DEF Grows
    <3>. QED  BY <1>1, <3>1, <3>2 DEF SignalsNext, NextDay, BeginUpdate, CommitRegime,
                                       ReviewThesis, RunSignals, Settle
  <2>. QED  BY <2>1, <2>3, <2>4
<1>2. CASE Happens /\ UNCHANGED marketVars
  <2>1. TablesOK'
    BY <1>2, EventKeeps
  <2>2. Grows /\ today' = today
    BY <1>0, <1>2 DEF Grows, marketVars
  <2>3. ASSUME NEW a \in Assets, AddDocument(a)
        PROVE  RecordsOK'
    BY <1>0, <2>2, <2>3 DEF AddDocument, RecordsOK
  <2>4. ASSUME UNCHANGED documents
        PROVE  RecordsOK'
    BY <2>2, <2>4 DEF RecordsOK
  <2>5. RecordsOK'
    BY <1>2, <2>3, <2>4 DEF WorldStep, recordVars, CloseTrade, SignalsNext
  <2>. QED  BY <2>1, <2>2, <2>5
<1>3. CASE UNCHANGED <<marketVars, recordVars, events>>
  <2>1. TablesOK'
    BY <1>3, StutterKeeps DEF marketVars, signalVars
  <2>2. Grows /\ RecordsOK'
    BY <1>0, <1>3 DEF Grows, RecordsOK, marketVars, recordVars
  <2>. QED  BY <2>1, <2>2
<1>. QED  BY <1>1, <1>2, <1>3 DEF WorldStep, AddDocument, CloseTrade

(***************************************************************************)
(* A period whose horizon is over and stored is measured the same way from *)
(* then on.                                                                *)
(***************************************************************************)
LEMMA MeasuresStay ==
    ASSUME TablesOK, RecordsOK, WorldStep, NEW period, PeriodOK(period), Over(period)
    PROVE  /\ SignalAccuracy(period)' = SignalAccuracy(period)
           /\ ResearchOutcomes(period)' = ResearchOutcomes(period)
           /\ StrategyPerformance(period)' = StrategyPerformance(period)
           /\ Over(period)'
<1>1. TablesOK' /\ Grows
  BY WorldKeeps
<1>2. period.end < today /\ today \in Int /\ period.end \in Int
  BY <1>1, DuringFacts, Bounds DEF TablesOK, MarketOK, PeriodOK
<1>3. Over(period)'
  <2>1. ASSUME NEW a \in Assets
        PROVE  period.end + Horizon <= stored'[a]
    <3>1. stored[a] \in Nat /\ stored'[a] \in Nat /\ Horizon \in Nat
      BY <1>1, Bounds, MetricsAssumption DEF TablesOK, MarketOK
    <3>2. period.end + Horizon <= stored[a] /\ stored[a] <= stored'[a]
      BY <1>1 DEF Over, Grows
    <3>. QED  BY <1>2, <3>1, <3>2
  <2>. QED  BY <2>1 DEF Over
<1>4. ASSUME UNCHANGED signals
      PROVE  SignalAccuracy(period)' = SignalAccuracy(period)
  <2>1. During(period, signals') = During(period, signals)
    BY <1>4
  <2>. QED  BY <1>1, <2>1, AccuracySame
<1>5. ASSUME NEW situation \in [Assets -> Situations], RunSignals(situation)
      PROVE  SignalAccuracy(period)' = SignalAccuracy(period)
  <2>0. PICK at \in RunStamps : signals' = signals \cup NewRows(situation, at)
    BY <1>5 DEF RunSignals
  <2>1. ASSUME NEW row \in NewRows(situation, at)
        PROVE  row.day = today
    <3>1. PICK a \in Assets : \E signal \in SignalsFor(Context(a, situation[a])) : row = Row(a, signal, at)
      BY NewRowFacts
    <3>. QED  BY <3>1 DEF Row
  <2>2. signals' = signals \cup NewRows(situation, at)
    BY <2>0
  <2>3. During(period, signals') = During(period, signals)
    BY <1>2, <2>1, <2>2, LaterRows
  <2>. QED  BY <1>1, <2>3, AccuracySame
<1>6. ASSUME NEW x \in signals, NEW status \in {"acknowledged", "dismissed"}, Settle(x, status)
      PROVE  SignalAccuracy(period)' = SignalAccuracy(period)
  BY <1>1, <1>6, AccuracySettled
<1>7. SignalAccuracy(period)' = SignalAccuracy(period)
  BY <1>4, <1>5, <1>6 DEF WorldStep, SignalsNext, NextDay, BeginUpdate, CommitBars, CommitRegime,
                          ReviewThesis, marketVars
<1>8. During(period, documents') = During(period, documents)
  <2>1. CASE UNCHANGED documents
    BY <2>1
  <2>2. ASSUME NEW a \in Assets, AddDocument(a)
        PROVE  During(period, documents') = During(period, documents)
    <3>. DEFINE new == {[id |-> events, asset |-> a, day |-> today]}
    <3>1. documents' = documents \cup new
      BY <2>2 DEF AddDocument
    <3>2. \A row \in new : row.day = today
      OBVIOUS
    <3>. HIDE DEF new
    <3>. QED  BY <1>2, <3>1, <3>2, LaterRows
  <2>. QED  BY <2>1, <2>2 DEF WorldStep, recordVars, CloseTrade
<1>9. During(period, trades') = During(period, trades)
  <2>1. CASE UNCHANGED trades
    BY <2>1
  <2>2. ASSUME NEW a \in Assets, NEW closing \in Closings, CloseTrade(a, closing)
        PROVE  During(period, trades') = During(period, trades)
    <3>. DEFINE new == {[id |-> events, asset |-> a, day |-> today, regime |-> closing.regime,
                         r |-> closing.r, stop |-> closing.stop]}
    <3>1. trades' = trades \cup new
      BY <2>2 DEF CloseTrade
    <3>2. \A row \in new : row.day = today
      OBVIOUS
    <3>. HIDE DEF new
    <3>. QED  BY <1>2, <3>1, <3>2, LaterRows
  <2>. QED  BY <2>1, <2>2 DEF WorldStep, recordVars, AddDocument
<1>. QED  BY <1>1, <1>3, <1>7, <1>8, <1>9, ResearchStays, StrategyStays

Invalidating(a) == {r.day : r \in {q \in reviewed : q.asset = a /\ q.to = "THESIS_INVALIDATED"}}

LEMMA InvalidationsAre ==
    ASSUME NEW x
    PROVE  x \in ThesisAccuracy.invalidations <=>
             \E a \in Assets : /\ theses[a].assessment # NoThesis /\ Invalidating(a) # {}
                               /\ x = [asset |-> a, days |-> FirstDay(Invalidating(a))]
<1>1. ThesisAccuracy.invalidations =
        {[asset |-> a, days |-> FirstDay(Invalidating(a))] :
           a \in {a \in {a \in Assets : theses[a].assessment # NoThesis} : Invalidating(a) # {}}}
  BY DEF ThesisAccuracy, Invalidating
<1>. QED  BY <1>1

LEMMA InvalidationsAreNext ==
    ASSUME NEW x
    PROVE  x \in ThesisAccuracy.invalidations' <=>
             \E a \in Assets : /\ theses'[a].assessment # NoThesis /\ Invalidating(a)' # {}
                               /\ x = [asset |-> a, days |-> FirstDay(Invalidating(a)')]
<1>1. ThesisAccuracy.invalidations' =
        {[asset |-> a, days |-> FirstDay(Invalidating(a)')] :
           a \in {a \in {a \in Assets : theses'[a].assessment # NoThesis} : Invalidating(a)' # {}}}
  BY DEF ThesisAccuracy, Invalidating
<1>. QED  BY <1>1

\* Later reviews do not move the day of the first invalidation.
LEMMA InvalidationsStay ==
    ASSUME TablesOK, RecordsOK, WorldStep
    PROVE  ThesisAccuracy.invalidations \subseteq ThesisAccuracy.invalidations'
<1>1. CASE UNCHANGED <<theses, reviewed>>
  BY <1>1 DEF ThesisAccuracy
<1>2. ASSUME NEW b \in Assets, NEW assessment \in Verdicts, ReviewThesis(b, assessment),
             NEW x \in ThesisAccuracy.invalidations
      PROVE  x \in ThesisAccuracy.invalidations'
  <2>1. PICK a \in Assets : /\ theses[a].assessment # NoThesis /\ Invalidating(a) # {}
                            /\ x = [asset |-> a, days |-> FirstDay(Invalidating(a))]
    BY InvalidationsAre
  <2>2. theses'[a].assessment # NoThesis
    BY <1>2, <2>1, SignalsAssumption DEF ReviewThesis, TablesOK, ReviewsOK
  <2>3. today \in Nat /\ \A r \in reviewed : r.day \in 0..today
    BY Bounds DEF TablesOK, MarketOK, ReviewsOK
  <2>4. reviewed \subseteq reviewed' /\ \A r \in reviewed' : r \in reviewed \/ r.day = today
    BY <1>2 DEF ReviewThesis
  <2>. DEFINE T == Invalidating(a)
              U == Invalidating(a)'
  <2>5. T \subseteq U
    BY <2>4 DEF Invalidating
  <2>6. \A u \in U : u \in T \/ u = today
    BY <2>4 DEF Invalidating
  <2>7. \A t \in T : t \in Nat /\ t <= today
    BY <2>3 DEF Invalidating
  <2>. HIDE DEF T, U
  <2>8. U \subseteq Nat /\ \A u \in U : u \in T \/ \A t \in T : t <= u
    BY <2>3, <2>6, <2>7
  <2>9. T # {}
    BY <2>1 DEF T
  <2>10. FirstDay(U) = FirstDay(T) /\ U # {}
    BY <2>5, <2>8, <2>9, FirstDayStays
  <2>11. x = [asset |-> a, days |-> FirstDay(Invalidating(a)')] /\ Invalidating(a)' # {}
    BY <2>1, <2>10 DEF T, U
  <2>. QED  BY <2>2, <2>11, InvalidationsAreNext, Zenon
<1>. QED  BY <1>1, <1>2 DEF WorldStep, SignalsNext, NextDay, BeginUpdate, CommitBars, CommitRegime,
                             RunSignals, Settle, marketVars

-----------------------------------------------------------------------------
(***************************************************************************)
(* Reviews: what holds of every review, stored or being written, and of    *)
(* the notes.                                                              *)
(***************************************************************************)
Reviews ==
    {learned[key] : key \in DOMAIN learned} \cup {desk[s].row : s \in {t \in Sessions : desk[t] # Idle}}

Length(kind) == MonthDays * Months[kind]

PeriodOf(report) == [start |-> report.start, end |-> report.end]

\* A review is of a whole period that was over on its as_of date.
ReportOK(report) ==
    /\ report.kind \in Kinds /\ report.start \in Int /\ report.start % Length(report.kind) = 0
    /\ report.end = report.start + Length(report.kind) - 1
    /\ \E offset \in AsOfOffsets : report.end < report.generated + offset

\* Made again now, the report would say the same.
Stands(row) ==
    /\ row.settled =>
         /\ Over(PeriodOf(row.report))
         /\ row.report.signals = SignalAccuracy(PeriodOf(row.report))
         /\ row.report.research = ResearchOutcomes(PeriodOf(row.report))
         /\ row.report.strategy = StrategyPerformance(PeriodOf(row.report))
    /\ row.report.theses.invalidations \subseteq ThesisAccuracy.invalidations

ReviewOK(row) ==
    /\ row = [report |-> row.report, id |-> row.id, note |-> row.note, settled |-> row.settled]
    /\ row.note \in BOOLEAN
    /\ ReportOK(row.report) /\ Stands(row)

\* Where a session is; a row it is to update is in the table.
DeskOK ==
    /\ DOMAIN desk = Sessions
    /\ \A s \in Sessions :
         /\ desk[s].pc \in {"idle", "publishing", "built", "stored"}
         /\ desk[s].pc = "idle" <=> desk[s] = Idle
         /\ desk[s].pc = "publishing" => ~desk[s].row.note
         /\ desk[s].pc = "stored" => desk[s].insert \/ KeyOf(desk[s].row.report) \in DOMAIN learned

\* s has written the note at path and not yet committed its review.
Holds(d, s, path) ==
    d[s].pc \in {"built", "stored"} /\ d[s].row.note /\ ReviewPath(d[s].row.report) = path

Shows(notes, path, row) == path \in DOMAIN notes /\ notes[path] = {row.id}

\* Of an undisturbed note: who holds it wrote what it shows; when nobody does,
\* it shows the stored review that names it.
NotesOK ==
    \A path :
        path \notin disturbed =>
          /\ \A s \in Sessions : Holds(desk, s, path) => Shows(vault, path, desk[s].row)
          /\ \A key \in DOMAIN learned :
               learned[key].note /\ ReviewPath(learned[key].report) = path =>
                 Shows(vault, path, learned[key]) \/ \E s \in Sessions : Holds(desk, s, path)

KeysOK == \A key \in DOMAIN learned : key = KeyOf(learned[key].report)

LearningOK ==
    TablesOK /\ RecordsOK /\ DeskOK /\ KeysOK /\ (\A row \in Reviews : ReviewOK(row)) /\ NotesOK


\* What a review says does not depend on whether it names its note.
LEMMA NotesFree ==
    ASSUME NEW row, ReviewOK(row), NEW note \in BOOLEAN
    PROVE  ReviewOK([row EXCEPT !.note = note])
<1>. DEFINE new == [row EXCEPT !.note = note]
<1>1. /\ new.report = row.report /\ new.settled = row.settled /\ new.note = note
      /\ new = [report |-> new.report, id |-> new.id, note |-> new.note, settled |-> new.settled]
  BY DEF ReviewOK
<1>2. ReportOK(new.report)
  BY <1>1 DEF ReviewOK
<1>3. Stands(new)
  <2>. HIDE DEF new
  <2>. QED  BY <1>1 DEF ReviewOK, Stands
<1>. HIDE DEF new
<1>4. ReviewOK(new)
  BY <1>1, <1>2, <1>3 DEF ReviewOK
<1>. QED  BY <1>4 DEF new

LEMMA LengthFacts ==
    ASSUME NEW kind \in Kinds
    PROVE  Length(kind) \in Nat /\ Length(kind) > 0
<1>1. Months[kind] \in {1, 3, 12}
  BY DEF Kinds, Months
<1>2. MonthDays \in Nat /\ MonthDays > 0
  BY MetricsAssumption
<1>3. MonthDays * 1 \in Nat /\ MonthDays * 3 \in Nat /\ MonthDays * 12 \in Nat
  BY <1>2
<1>. QED  BY <1>1, <1>2, <1>3 DEF Length

\* A multiple leaves no rest.
LEMMA Multiples ==
    ASSUME NEW q \in Int, NEW d \in Nat, d > 0
    PROVE  (d * q) % d = 0
<1>. DEFINE n == d * q
            p == n \div d
            r == n % d
<1>1. n \in Int /\ p \in Int /\ d * p \in Int
  OBVIOUS
<1>2. r \in Int /\ 0 <= r /\ r < d /\ n = d * p + r
  OBVIOUS
<1>3. n = d * q
  OBVIOUS
<1>. HIDE DEF n, p, r
<1>4. d * p < d * q + d /\ d * q < d * p + d
  BY <1>1, <1>2, <1>3
<1>5. p <= q /\ q <= p
  BY <1>1, <1>4, Quotients
<1>6. p = q
  BY <1>1, <1>5
<1>7. r = 0
  BY <1>1, <1>2, <1>3, <1>6
<1>. QED  BY <1>7 DEF n, r

LEMMA PeriodFacts ==
    ASSUME NEW report, ReportOK(report)
    PROVE  PeriodOK(PeriodOf(report))
<1>1. report.kind \in Kinds /\ report.start \in Int
      /\ report.end = report.start + Length(report.kind) - 1
  BY DEF ReportOK
<1>2. Length(report.kind) \in Nat /\ Length(report.kind) > 0
  BY <1>1, LengthFacts
<1>3. report.end \in Int /\ report.start <= report.end
  BY <1>1, <1>2
<1>. QED  BY <1>1, <1>3 DEF PeriodOK, PeriodOf

\* Whatever happens, a review that was right stays right.
LEMMA ReviewStays ==
    ASSUME TablesOK, RecordsOK, WorldStep, NEW row, ReviewOK(row)
    PROVE  ReviewOK(row)'
<1>1. ReportOK(row.report)'
  BY DEF ReviewOK, ReportOK
<1>2. Stands(row)'
  <2>. DEFINE period == PeriodOf(row.report)
  <2>1. PeriodOK(period)
    BY PeriodFacts DEF ReviewOK
  <2>2. Stands(row)
    BY DEF ReviewOK
  <2>3. row.report.theses.invalidations \subseteq ThesisAccuracy.invalidations'
    BY <2>2, InvalidationsStay DEF Stands
  <2>4. CASE row.settled
    <3>1. Over(period)
      BY <2>2, <2>4 DEF Stands
    <3>2. period' = period
      BY DEF PeriodOf
    <3>. HIDE DEF period
    <3>3. /\ SignalAccuracy(period)' = SignalAccuracy(period)
          /\ ResearchOutcomes(period)' = ResearchOutcomes(period)
          /\ StrategyPerformance(period)' = StrategyPerformance(period)
          /\ Over(period)'
      BY <2>1, <3>1, MeasuresStay
    <3>. QED  BY <2>2, <2>3, <2>4, <3>2, <3>3 DEF Stands, period
  <2>5. CASE ~row.settled
    BY <2>3, <2>5 DEF Stands
  <2>. QED  BY <2>4, <2>5
<1>. QED  BY <1>1, <1>2 DEF ReviewOK

\* What Build puts together is right.
LEMMA BuiltFits ==
    ASSUME TablesOK, NEW kind \in Kinds, NEW offset \in AsOfOffsets, NEW row,
           row = [report |-> BuildReport(kind, today + offset), id |-> events, note |-> FALSE,
                  settled |-> IsSettled(BuildReport(kind, today + offset))]
    PROVE  ReviewOK(row)
<1>. DEFINE L == Length(kind)
            asOf == today + offset
            q == asOf \div L
            period == PeriodBounds(kind, asOf)
            report == BuildReport(kind, asOf)
<1>1. L \in Nat /\ L > 0 /\ L * 1 = L
  BY LengthFacts
<1>2. today \in Int /\ offset \in Int
  BY Bounds, LearningAssumption DEF TablesOK, MarketOK
<1>3. asOf \in Int
  BY <1>2
<1>4. q \in Int /\ L * q <= asOf /\ q * L = L * q /\ L * q \in Int
  <2>. HIDE DEF L, asOf
  <2>1. PICK k \in Int : k = asOf \div L /\ L * k <= asOf /\ asOf < L * k + L
    BY <1>1, <1>3, Division
  <2>. QED  BY <1>1, <2>1
<1>5. period = [start |-> q * L - L, end |-> q * L - 1]
  BY DEF PeriodBounds, Length
<1>6. /\ report.kind = kind /\ report.start = period.start /\ report.end = period.end
      /\ report.generated = today /\ report.signals = SignalAccuracy(period)
      /\ report.research = ResearchOutcomes(period) /\ report.theses = ThesisAccuracy
      /\ report.strategy = StrategyPerformance(period)
  <2>. HIDE DEF period, asOf
  <2>1. report = [kind |-> kind, start |-> period.start, end |-> period.end, generated |-> today,
                  signals |-> SignalAccuracy(period), research |-> ResearchOutcomes(period),
                  theses |-> ThesisAccuracy, strategy |-> StrategyPerformance(period)]
    BY Zenon DEF BuildReport, period
  <2>. HIDE DEF report
  <2>. QED  BY <2>1
<1>7. row.report = report /\ row.settled = IsSettled(report) /\ row.note = FALSE
      /\ row = [report |-> row.report, id |-> row.id, note |-> row.note, settled |-> row.settled]
  <2>. HIDE DEF report, asOf
  <2>1. row = [report |-> report, id |-> events, note |-> FALSE, settled |-> IsSettled(report)]
    BY Zenon DEF report, asOf
  <2>. QED  BY <2>1
<1>. HIDE DEF report, period, asOf, q
<1>8. PeriodOf(report) = period
  <2>1. PeriodOf(report) = [start |-> q * L - L, end |-> q * L - 1]
    BY <1>5, <1>6 DEF PeriodOf
  <2>. QED  BY <1>5, <2>1
<1>9. ReportOK(report)
  <2>. HIDE DEF L
  <2>1. report.start = q * L - L /\ report.end = q * L - 1
    BY <1>5, <1>6
  <2>2. report.start \in Int /\ report.end = report.start + L - 1 /\ report.end < asOf
    BY <1>1, <1>3, <1>4, <2>1
  <2>3. report.start % L = 0
    <3>1. q - 1 \in Int /\ L * (q - 1) = q * L - L
      BY <1>1, <1>4
    <3>2. (L * (q - 1)) % L = 0
      BY <1>1, <3>1, Multiples
    <3>. QED  BY <2>1, <3>1, <3>2
  <2>. QED  BY <1>6, <2>2, <2>3 DEF ReportOK, L, asOf
<1>10. Stands(row)
  <2>1. row.settled => Over(period)
    <3>1. ASSUME row.settled, NEW a \in Assets  PROVE period.end + Horizon <= stored[a]
      <4>1. stored[a] >= period.end + Horizon
        BY <1>6, <1>7, <3>1 DEF IsSettled
      <4>2. stored[a] \in Int /\ period.end + Horizon \in Int
        BY <1>1, <1>4, <1>5, Bounds, MetricsAssumption DEF TablesOK, MarketOK
      <4>. QED  BY <4>1, <4>2
    <3>. QED  BY <3>1 DEF Over
  <2>. QED  BY <1>6, <1>7, <1>8, <2>1 DEF Stands
<1>. QED  BY <1>7, <1>9, <1>10 DEF ReviewOK

\* Writing a note either leaves the vault alone or replaces that note, and who
\* is told of success has replaced it.
LEMMA PutFacts ==
    ASSUME NEW notes, NEW path, NEW content, NEW put \in Puts(notes, path, content)
    PROVE  /\ put.told \in BOOLEAN
           /\ put.vault = notes \/ put.vault = With(notes, path, {content})
           /\ put.told => put.vault = With(notes, path, {content})
<1>1. PICK d \in Deliveries :
        put = [vault |-> IF d.times = 0 THEN notes ELSE With(notes, path, {content}),
               told |-> d.answer = "ok"]
  BY Zenon DEF Puts
<1>2. d.times \in 0..MaxTries /\ (d.answer = "ok" => d.times > 0)
  BY DEF Deliveries
<1>3. put.told = (d.answer = "ok")
      /\ put.vault = IF d.times = 0 THEN notes ELSE With(notes, path, {content})
  BY <1>1
<1>4. CASE d.answer = "ok"
  <2>1. d.times # 0
    BY <1>2, <1>4, StoreAssumption
  <2>2. put.told = TRUE
    BY <1>3, <1>4, Zenon
  <2>. QED  BY <1>3, <2>1, <2>2
<1>5. CASE d.answer # "ok"
  <2>1. put.told = FALSE
    BY <1>3, <1>5, Zenon
  <2>. QED  BY <1>3, <2>1
<1>. QED  BY <1>4, <1>5

LEMMA WithFacts ==
    ASSUME NEW notes, NEW path, NEW entries
    PROVE  /\ path \in DOMAIN With(notes, path, entries) /\ With(notes, path, entries)[path] = entries
           /\ \A p \in DOMAIN notes :
                p # path => /\ p \in DOMAIN With(notes, path, entries)
                            /\ With(notes, path, entries)[p] = notes[p]
BY DEF With

\* A note has one key.
LEMMA PathFacts ==
    ASSUME NEW r, NEW q
    PROVE  ReviewPath(r) = ReviewPath(q) <=> KeyOf(r) = KeyOf(q)
BY DEF ReviewPath, KeyOf

\* One session changed what it is doing, and perhaps a row.
LEMMA ReviewsFrom ==
    ASSUME LearningOK, NEW s \in Sessions, \A t \in Sessions \ {s} : desk'[t] = desk[t],
           desk'[s] = Idle \/ ReviewOK(desk'[s].row),
           \A key \in DOMAIN learned' :
             (key \in DOMAIN learned /\ learned'[key] = learned[key]) \/ ReviewOK(learned'[key])
    PROVE  \A row \in Reviews' : ReviewOK(row)
<1>1. ASSUME NEW key \in DOMAIN learned'  PROVE ReviewOK(learned'[key])
  <2>1. CASE key \in DOMAIN learned /\ learned'[key] = learned[key]
    <3>1. learned'[key] \in Reviews
      BY <2>1 DEF Reviews
    <3>. QED  BY <3>1 DEF LearningOK
  <2>. QED  BY <1>1, <2>1
<1>2. ASSUME NEW t \in Sessions, desk'[t] # Idle  PROVE ReviewOK(desk'[t].row)
  <2>1. CASE t # s
    <3>1. desk'[t] = desk[t]
      BY <2>1
    <3>2. desk[t].row \in Reviews
      BY <1>2, <3>1 DEF Reviews
    <3>3. desk'[t].row \in Reviews
      BY <3>1, <3>2
    <3>. QED  BY <3>3 DEF LearningOK
  <2>. QED  BY <1>2, <2>1
<1>3. ASSUME NEW row \in Reviews'
      PROVE  (\E key \in DOMAIN learned' : row = learned'[key])
             \/ (\E t \in Sessions : desk'[t] # Idle /\ row = desk'[t].row)
  BY <1>3 DEF Reviews, Idle
<1>. QED  BY <1>1, <1>2, <1>3

\* The desk, when a session goes to the state next and no row is lost.
LEMMA DeskFrom ==
    ASSUME DeskOK, NEW s \in Sessions, NEW next, desk' = [desk EXCEPT ![s] = next],
           DOMAIN learned \subseteq DOMAIN learned',
           next.pc \in {"idle", "publishing", "built", "stored"}, next.pc = "idle" <=> next = Idle,
           next.pc = "publishing" => ~next.row.note,
           next.pc = "stored" => next.insert \/ KeyOf(next.row.report) \in DOMAIN learned'
    PROVE  DeskOK' /\ desk'[s] = next /\ \A t \in Sessions \ {s} : desk'[t] = desk[t]
<1>1. DOMAIN desk' = Sessions /\ desk'[s] = next /\ \A t \in Sessions \ {s} : desk'[t] = desk[t]
  BY DEF DeskOK
<1>2. ASSUME NEW t \in Sessions
      PROVE  /\ desk'[t].pc \in {"idle", "publishing", "built", "stored"}
             /\ desk'[t].pc = "idle" <=> desk'[t] = Idle'
             /\ desk'[t].pc = "publishing" => ~desk'[t].row.note
             /\ desk'[t].pc = "stored" =>
                  desk'[t].insert \/ KeyOf(desk'[t].row.report) \in DOMAIN learned'
  <2>1. CASE t = s
    BY <1>1, <2>1 DEF Idle
  <2>2. CASE t # s
    <3>1. desk'[t] = desk[t]
      BY <1>1, <2>2
    <3>2. /\ desk[t].pc \in {"idle", "publishing", "built", "stored"}
          /\ desk[t].pc = "idle" <=> desk[t] = Idle
          /\ desk[t].pc = "publishing" => ~desk[t].row.note
          /\ desk[t].pc = "stored" => desk[t].insert \/ KeyOf(desk[t].row.report) \in DOMAIN learned
      BY DEF DeskOK
    <3>. QED  BY <3>1, <3>2 DEF Idle
  <2>. QED  BY <2>1, <2>2
<1>3. DeskOK'
  BY <1>1, <1>2 DEF DeskOK, KeyOf
<1>. QED  BY <1>1, <1>3

LEMMA BuildKeeps ==
    ASSUME LearningOK, NEW s \in Sessions, NEW kind \in Kinds, NEW offset \in AsOfOffsets,
           NEW mirrored \in BOOLEAN, Build(s, kind, today + offset, mirrored)
    PROVE  DeskOK' /\ KeysOK' /\ NotesOK' /\ \A row \in Reviews' : ReviewOK(row)
<1>. DEFINE row == [report |-> BuildReport(kind, today + offset), id |-> events, note |-> FALSE,
                    settled |-> IsSettled(BuildReport(kind, today + offset))]
            next == [pc |-> IF mirrored THEN "publishing" ELSE "built", row |-> row]
<1>1. ReviewOK(row)
  <2>1. row = [report |-> BuildReport(kind, today + offset), id |-> events, note |-> FALSE,
               settled |-> IsSettled(BuildReport(kind, today + offset))]
    OBVIOUS
  <2>. HIDE DEF row
  <2>. QED  BY <2>1, BuiltFits DEF LearningOK
<1>2. desk' = [desk EXCEPT ![s] = next] /\ UNCHANGED <<learned, vault, disturbed>> /\ desk[s] = Idle
  BY Zenon DEF Build
<1>3. row.note = FALSE
  OBVIOUS
<1>. HIDE DEF row
<1>4. next.pc \in {"publishing", "built"} /\ next.row = row /\ next # Idle
  BY DEF Idle
<1>. HIDE DEF next
<1>5. DeskOK' /\ desk'[s] = next /\ \A t \in Sessions \ {s} : desk'[t] = desk[t]
  BY <1>2, <1>3, <1>4, DeskFrom DEF LearningOK
<1>6. \A r \in Reviews' : ReviewOK(r)
  BY <1>1, <1>2, <1>4, <1>5, ReviewsFrom
<1>7. KeysOK'
  BY <1>2 DEF LearningOK, KeysOK, KeyOf
<1>8. ASSUME NEW path, NEW t \in Sessions
      PROVE  /\ Holds(desk', t, path) <=> Holds(desk, t, path)
             /\ Holds(desk, t, path) => desk'[t] = desk[t]
  BY <1>2, <1>3, <1>4, <1>5 DEF Holds, Idle
<1>9. NotesOK'
  BY <1>2, <1>8 DEF LearningOK, NotesOK, ReviewPath
<1>. QED  BY <1>5, <1>6, <1>7, <1>9

\* A step that leaves the holders, the vault and the rows alone.
LEMMA StoreKeeps ==
    ASSUME LearningOK, NEW s \in Sessions, StoreReview(s)
    PROVE  DeskOK' /\ KeysOK' /\ NotesOK' /\ \A row \in Reviews' : ReviewOK(row)
<1>. DEFINE row == desk[s].row
            insert == KeyOf(row.report) \notin DOMAIN learned
            loaded == KeyOf(row.report) \in DOMAIN learned /\ learned[KeyOf(row.report)].note
            next == [pc |-> "stored", row |-> row, insert |-> insert, loadedNote |-> loaded]
<1>1. desk' = [desk EXCEPT ![s] = next] /\ UNCHANGED <<learned, vault, disturbed>>
      /\ desk[s].pc = "built"
  BY Zenon DEF StoreReview
<1>2. next.pc = "stored" /\ next.row = row /\ next # Idle
      /\ (next.insert \/ KeyOf(row.report) \in DOMAIN learned)
  BY DEF Idle
<1>3. row = desk[s].row
  OBVIOUS
<1>. HIDE DEF next, row
<1>4. DeskOK' /\ desk'[s] = next /\ \A t \in Sessions \ {s} : desk'[t] = desk[t]
  BY <1>1, <1>2, DeskFrom DEF LearningOK
<1>5. ReviewOK(row)
  <2>1. desk[s] # Idle
    BY <1>1 DEF Idle
  <2>2. row \in Reviews
    BY <1>3, <2>1 DEF Reviews
  <2>. QED  BY <2>2 DEF LearningOK
<1>6. \A r \in Reviews' : ReviewOK(r)
  BY <1>1, <1>2, <1>4, <1>5, ReviewsFrom
<1>7. KeysOK'
  BY <1>1 DEF LearningOK, KeysOK, KeyOf
<1>8. ASSUME NEW path, NEW t \in Sessions
      PROVE  /\ Holds(desk', t, path) <=> Holds(desk, t, path)
             /\ desk'[t].row = desk[t].row
  BY <1>1, <1>2, <1>3, <1>4 DEF Holds
<1>9. NotesOK'
  BY <1>1, <1>8 DEF LearningOK, NotesOK, ReviewPath, Shows
<1>. QED  BY <1>4, <1>6, <1>7, <1>9

LEMMA AbortKeeps ==
    ASSUME LearningOK, NEW s \in Sessions, Abort(s)
    PROVE  DeskOK' /\ KeysOK' /\ NotesOK' /\ \A row \in Reviews' : ReviewOK(row)
<1>1. desk' = [desk EXCEPT ![s] = Idle] /\ UNCHANGED <<learned, vault>>
      /\ disturbed' = IF desk[s].row.note THEN disturbed \cup {PathOf(s)} ELSE disturbed
  BY Zenon DEF Abort
<1>2. Idle.pc = "idle"
  BY DEF Idle
<1>3. DeskOK' /\ desk'[s] = Idle /\ \A t \in Sessions \ {s} : desk'[t] = desk[t]
  BY <1>1, <1>2, DeskFrom DEF LearningOK
<1>4. \A r \in Reviews' : ReviewOK(r)
  BY <1>1, <1>3, ReviewsFrom
<1>5. KeysOK'
  BY <1>1 DEF LearningOK, KeysOK, KeyOf
<1>6. ASSUME NEW path, path \notin disturbed'
      PROVE  path \notin disturbed /\ ~Holds(desk, s, path) /\ ~Holds(desk', s, path)
  BY <1>1, <1>2, <1>3, <1>6 DEF Holds, PathOf
<1>7. ASSUME NEW path, path \notin disturbed', NEW t \in Sessions
      PROVE  /\ Holds(desk', t, path) <=> Holds(desk, t, path)
             /\ Holds(desk, t, path) => desk'[t] = desk[t]
  BY <1>3, <1>6, <1>7 DEF Holds
<1>8. NotesOK'
  BY <1>1, <1>6, <1>7 DEF LearningOK, NotesOK, ReviewPath
<1>. QED  BY <1>3, <1>4, <1>5, <1>8

\* The note is the session's when it is told of success; a put that others
\* can see otherwise disturbs the note.
LEMMA PublishKeeps ==
    ASSUME LearningOK, NEW s \in Sessions, PublishNote(s)
    PROVE  DeskOK' /\ KeysOK' /\ NotesOK' /\ \A row \in Reviews' : ReviewOK(row)
<1>. DEFINE row == desk[s].row
            path == PathOf(s)
            noted == [row EXCEPT !.note = TRUE]
            next(told) == IF told THEN [pc |-> "built", row |-> noted]
                          ELSE IF s # Worker THEN [pc |-> "built", row |-> row]
                          ELSE Idle
<1>1. PICK put \in Puts(vault, path, row.id) :
        /\ vault' = put.vault
        /\ desk' = [desk EXCEPT ![s] = next(put.told)]
        /\ disturbed' = disturbed \cup
             {p \in {path} : put.vault # vault /\ (~put.told \/ Overlapping(s, p) # {})}
  BY Zenon DEF PublishNote
<1>2. desk[s].pc = "publishing" /\ UNCHANGED learned
  BY DEF PublishNote
<1>3. ReviewOK(row)
  <2>1. desk[s] # Idle
    BY <1>2 DEF Idle
  <2>2. row \in Reviews
    BY <2>1 DEF Reviews
  <2>. QED  BY <2>2 DEF LearningOK
<1>4. ReviewOK(noted)
  BY <1>3, NotesFree
<1>5. noted.report = row.report /\ noted.id = row.id /\ noted.note = TRUE
  BY <1>3 DEF ReviewOK
<1>6. row.note = FALSE
  BY <1>2, <1>3 DEF LearningOK, DeskOK, ReviewOK
<1>7. path = ReviewPath(row.report) /\ row = desk[s].row
  BY DEF PathOf
<1>. HIDE DEF row, path, noted
<1>. DEFINE after == next(put.told)
<1>8. /\ put.told => after.pc = "built" /\ after.row = noted /\ after # Idle
      /\ ~put.told => after = Idle \/ (after.pc = "built" /\ after.row = row /\ after # Idle)
      /\ Idle.pc = "idle"
  BY DEF Idle
<1>9. desk' = [desk EXCEPT ![s] = after]
  BY <1>1
<1>. HIDE DEF next, after
<1>10. DeskOK' /\ desk'[s] = after /\ \A t \in Sessions \ {s} : desk'[t] = desk[t]
  BY <1>2, <1>8, <1>9, DeskFrom DEF LearningOK
<1>11. \A r \in Reviews' : ReviewOK(r)
  BY <1>2, <1>3, <1>4, <1>8, <1>10, ReviewsFrom
<1>12. KeysOK'
  BY <1>2 DEF LearningOK, KeysOK, KeyOf
<1>13. /\ vault' = vault \/ vault' = With(vault, path, {row.id})
       /\ put.told => vault' = With(vault, path, {row.id})
  BY <1>1, PutFacts
<1>14. ASSUME NEW p, p \notin disturbed'
       PROVE  /\ p \notin disturbed /\ ~Holds(desk, s, p)
              /\ Holds(desk', s, p) <=> put.told /\ p = path
              /\ \A t \in Sessions \ {s} : Holds(desk', t, p) <=> Holds(desk, t, p)
  BY <1>1, <1>2, <1>5, <1>6, <1>7, <1>8, <1>10, <1>14 DEF Holds
<1>15. ASSUME path \notin disturbed', vault' # vault
       PROVE  put.told /\ \A t \in Sessions \ {s} : ~Holds(desk, t, path)
  BY <1>1, <1>15 DEF Overlapping, Holds, PathOf
<1>16. ASSUME NEW p, p # path, NEW r, Shows(vault, p, r)
       PROVE  Shows(vault', p, r)
  BY <1>13, <1>16, WithFacts DEF Shows
<1>17. put.told => Shows(vault', path, row) /\ Shows(vault', path, noted)
  BY <1>5, <1>13, WithFacts DEF Shows
<1>18. NotesOK'
  <2>. SUFFICES ASSUME NEW p, p \notin disturbed'
                PROVE  /\ \A t \in Sessions : Holds(desk', t, p) => Shows(vault', p, desk'[t].row)
                       /\ \A key \in DOMAIN learned :
                            learned[key].note /\ ReviewPath(learned[key].report) = p =>
                              Shows(vault', p, learned[key]) \/ \E t \in Sessions : Holds(desk', t, p)
    BY <1>2 DEF NotesOK, ReviewPath
  <2>1. /\ \A t \in Sessions : Holds(desk, t, p) => Shows(vault, p, desk[t].row)
        /\ \A key \in DOMAIN learned :
             learned[key].note /\ ReviewPath(learned[key].report) = p =>
               Shows(vault, p, learned[key]) \/ \E t \in Sessions : Holds(desk, t, p)
    BY <1>14 DEF LearningOK, NotesOK
  <2>2. CASE p # path
    BY <1>10, <1>14, <1>16, <2>1, <2>2
  <2>3. CASE p = path /\ put.told
    <3>1. \E t \in Sessions : Holds(desk', t, p)
      BY <1>14, <2>3
    <3>2. Shows(vault', p, desk'[s].row)
      BY <1>8, <1>10, <1>17, <2>3
    <3>3. ASSUME NEW t \in Sessions \ {s}, Holds(desk', t, p)
          PROVE  Shows(vault', p, desk'[t].row)
      <4>1. Holds(desk, t, p) /\ desk'[t] = desk[t]
        BY <1>10, <1>14, <3>3
      <4>2. vault' = vault
        BY <1>15, <2>3, <4>1
      <4>. QED  BY <2>1, <4>1, <4>2
    <3>. QED  BY <3>1, <3>2, <3>3
  <2>4. CASE p = path /\ ~put.told
    <3>1. vault' = vault
      BY <1>15, <2>4
    <3>. QED  BY <1>10, <1>14, <2>1, <2>4, <3>1
  <2>. QED  BY <2>2, <2>3, <2>4
<1>. QED  BY <1>10, <1>11, <1>12, <1>18

\* What is saved is the session's review; only whether it names the note may
\* be the stored row's.
LEMMA SavedFacts ==
    ASSUME LearningOK, NEW s \in Sessions, desk[s].pc = "stored", NEW key,
           key = KeyOf(desk[s].row.report), NEW saved, saved = Saved(s, key)
    PROVE  /\ ReviewOK(saved) /\ saved.report = desk[s].row.report /\ saved.id = desk[s].row.id
           /\ saved.note \in BOOLEAN
<1>. DEFINE row == desk[s].row
<1>1. ReviewOK(row)
  <2>1. desk[s] # Idle
    BY DEF Idle
  <2>2. row \in Reviews
    BY <2>1 DEF Reviews
  <2>. QED  BY <2>2 DEF LearningOK
<1>2. desk[s].insert \/ key \in DOMAIN learned
  BY DEF LearningOK, DeskOK
<1>. HIDE DEF row
<1>3. CASE desk[s].insert \/ row.note # desk[s].loadedNote
  <2>1. saved = row
    BY <1>3 DEF Saved, row
  <2>. QED  BY <1>1, <2>1 DEF ReviewOK, row
<1>4. CASE ~(desk[s].insert \/ row.note # desk[s].loadedNote)
  <2>1. saved = [row EXCEPT !.note = learned[key].note]
    BY <1>4 DEF Saved, row
  <2>2. learned[key].note \in BOOLEAN
    <3>1. learned[key] \in Reviews
      BY <1>2, <1>4 DEF Reviews
    <3>. QED  BY <3>1 DEF LearningOK, ReviewOK
  <2>3. ReviewOK(saved)
    BY <1>1, <2>1, <2>2, NotesFree
  <2>4. saved.report = row.report /\ saved.id = row.id /\ saved.note = learned[key].note
    BY <1>1, <2>1 DEF ReviewOK
  <2>. QED  BY <2>2, <2>3, <2>4 DEF row
<1>. QED  BY <1>3, <1>4

\* A lost insert changes no row; otherwise the row is the session's, and one
\* that keeps another's note disturbs it.
LEMMA CommitKeeps ==
    ASSUME LearningOK, NEW s \in Sessions, CommitReview(s)
    PROVE  DeskOK' /\ KeysOK' /\ NotesOK' /\ \A row \in Reviews' : ReviewOK(row)
<1>. DEFINE row == desk[s].row
            key == KeyOf(row.report)
            path == PathOf(s)
            saved == Saved(s, key)
            lost == desk[s].insert /\ key \in DOMAIN learned
<1>1. /\ learned' = IF lost THEN learned
                    ELSE [k \in DOMAIN learned \cup {key} |-> IF k = key THEN saved ELSE learned[k]]
      /\ disturbed' = IF (lost /\ row.note) \/ (~lost /\ ~row.note /\ saved.note)
                      THEN disturbed \cup {path} ELSE disturbed
      /\ desk' = [desk EXCEPT ![s] = Idle]
      /\ UNCHANGED vault /\ desk[s].pc = "stored"
  <2>1. /\ learned' = IF lost THEN learned
                      ELSE [k \in DOMAIN learned \cup {key} |-> IF k = key THEN saved ELSE learned[k]]
        /\ desk' = [desk EXCEPT ![s] = Idle]
        /\ UNCHANGED vault /\ desk[s].pc = "stored"
    BY Zenon DEF CommitReview
  <2>2. disturbed' = IF (lost /\ row.note) \/ (~lost /\ (~row.note /\ saved.note))
                     THEN disturbed \cup {path} ELSE disturbed
    BY Zenon DEF CommitReview
  <2>. QED  BY <2>1, <2>2
<1>2. /\ ReviewOK(saved) /\ saved.report = row.report /\ saved.id = row.id
      /\ saved.note \in BOOLEAN
  BY <1>1, SavedFacts
<1>3. row = desk[s].row /\ key = KeyOf(row.report) /\ path = ReviewPath(row.report)
  BY DEF PathOf
<1>4. row.note \in BOOLEAN
  <2>1. desk[s] # Idle
    BY <1>1 DEF Idle
  <2>2. row \in Reviews
    BY <2>1 DEF Reviews
  <2>. QED  BY <2>2 DEF LearningOK, ReviewOK
<1>. HIDE DEF row, key, path, saved, lost
<1>5. /\ lost => learned' = learned
      /\ ~lost => /\ DOMAIN learned' = DOMAIN learned \cup {key} /\ learned'[key] = saved
                  /\ \A k \in DOMAIN learned \ {key} : learned'[k] = learned[k]
      /\ DOMAIN learned \subseteq DOMAIN learned'
  <2>1. CASE lost
    BY <1>1, <2>1
  <2>2. CASE ~lost
    BY <1>1, <2>2
  <2>. QED  BY <2>1, <2>2
<1>6. Idle.pc = "idle"
  BY DEF Idle
<1>7. DeskOK' /\ desk'[s] = Idle /\ \A t \in Sessions \ {s} : desk'[t] = desk[t]
  <2>1. desk' = [desk EXCEPT ![s] = Idle] /\ DeskOK /\ DOMAIN learned \subseteq DOMAIN learned'
    BY <1>1, <1>5 DEF LearningOK
  <2>. QED  BY <1>6, <2>1, DeskFrom
<1>8. \A r \in Reviews' : ReviewOK(r)
  <2>1. \A k \in DOMAIN learned' :
          (k \in DOMAIN learned /\ learned'[k] = learned[k]) \/ ReviewOK(learned'[k])
    BY <1>2, <1>5
  <2>. QED  BY <1>7, <2>1, ReviewsFrom
<1>9. \A k \in DOMAIN learned' : k = KeyOf(learned'[k].report)
  BY <1>2, <1>3, <1>5 DEF LearningOK, KeysOK
<1>10. KeysOK'
  BY <1>9 DEF KeysOK, KeyOf
<1>11. ASSUME NEW p, p \notin disturbed', NEW t \in Sessions
       PROVE  /\ p \notin disturbed
              /\ Holds(desk', t, p) <=> Holds(desk, t, p) /\ t # s
              /\ Holds(desk', t, p) => desk'[t] = desk[t]
  <2>1. p \notin disturbed
    BY <1>1, <1>11
  <2>2. CASE t = s
    BY <1>6, <1>7, <2>1, <2>2 DEF Holds
  <2>3. CASE t # s
    <3>1. desk'[t] = desk[t]
      BY <1>7, <2>3
    <3>. QED  BY <2>1, <2>3, <3>1 DEF Holds
  <2>. QED  BY <2>2, <2>3
<1>12. Holds(desk, s, path) <=> row.note
  BY <1>1, <1>3 DEF Holds
<1>13. \A p : Holds(desk, s, p) => p = path
  BY <1>3 DEF Holds
<1>14. \A k \in DOMAIN learned' : ReviewPath(learned'[k].report) = path <=> k = key
  BY <1>3, <1>9, PathFacts
<1>15. NotesOK'
  <2>. SUFFICES ASSUME NEW p, p \notin disturbed'
                PROVE  /\ \A t \in Sessions : Holds(desk', t, p) => Shows(vault, p, desk'[t].row)
                       /\ \A k \in DOMAIN learned' :
                            learned'[k].note /\ ReviewPath(learned'[k].report) = p =>
                              Shows(vault, p, learned'[k]) \/ \E t \in Sessions : Holds(desk', t, p)
    BY <1>1 DEF NotesOK, ReviewPath
  <2>1. /\ \A t \in Sessions : Holds(desk, t, p) => Shows(vault, p, desk[t].row)
        /\ \A k \in DOMAIN learned :
             learned[k].note /\ ReviewPath(learned[k].report) = p =>
               Shows(vault, p, learned[k]) \/ \E t \in Sessions : Holds(desk, t, p)
    BY <1>11 DEF LearningOK, NotesOK
  <2>2. \A t \in Sessions : Holds(desk', t, p) => Shows(vault, p, desk'[t].row)
    BY <1>11, <2>1
  <2>3. ASSUME NEW k \in DOMAIN learned', learned'[k].note, ReviewPath(learned'[k].report) = p
        PROVE  Shows(vault, p, learned'[k]) \/ \E t \in Sessions : Holds(desk', t, p)
    <3>1. CASE p # path
      <4>1. k # key
        BY <1>14, <2>3, <3>1
      <4>2. k \in DOMAIN learned /\ learned'[k] = learned[k]
        BY <1>5, <4>1
      <4>3. ~Holds(desk, s, p)
        BY <1>13, <3>1
      <4>. QED  BY <1>11, <2>1, <2>3, <4>2, <4>3
    <3>2. CASE p = path /\ ~lost
      <4>1. k = key /\ learned'[k] = saved
        BY <1>5, <1>14, <2>3, <3>2
      <4>2. row.note
        BY <1>1, <2>3, <3>2, <4>1
      <4>3. Shows(vault, p, row)
        BY <1>3, <1>12, <2>1, <3>2, <4>2
      <4>. QED  BY <1>2, <4>1, <4>3 DEF Shows
    <3>3. CASE p = path /\ lost
      <4>1. ~row.note
        BY <1>1, <3>3
      <4>2. ~Holds(desk, s, p)
        BY <1>12, <3>3, <4>1
      <4>3. k \in DOMAIN learned /\ learned'[k] = learned[k]
        BY <1>5, <2>3, <3>3
      <4>. QED  BY <1>11, <2>1, <2>3, <4>2, <4>3
    <3>. QED  BY <3>1, <3>2, <3>3
  <2>. QED  BY <2>2, <2>3
<1>. QED  BY <1>7, <1>8, <1>10, <1>15

-----------------------------------------------------------------------------
(***************************************************************************)
(* The inductive invariant, and the theorems.                              *)
(***************************************************************************)
LEMMA LearningInit == Init => LearningOK
<1>. SUFFICES ASSUME Init PROVE LearningOK
  OBVIOUS
<1>1. TablesOK
  BY TablesInit DEF Init
<1>2. RecordsOK
  BY DEF Init, RecordsInit, RecordsOK
<1>3. DOMAIN desk = Sessions /\ (\A s \in Sessions : desk[s] = Idle) /\ Idle.pc = "idle"
      /\ DOMAIN learned = {}
  BY DEF Init, Idle
<1>4. DeskOK
  BY <1>3 DEF DeskOK
<1>5. Reviews = {} /\ KeysOK
  BY <1>3 DEF Reviews, KeysOK
<1>6. NotesOK
  BY <1>3 DEF NotesOK, Holds
<1>. QED  BY <1>1, <1>2, <1>4, <1>5, <1>6 DEF LearningOK

LEMMA LearningKeeps == LearningOK /\ [Next]_vars => LearningOK'
<1>. SUFFICES ASSUME LearningOK, [Next]_vars PROVE LearningOK'
  OBVIOUS
<1>1. WorldStep
  BY NextIsWorldStep
<1>2. TablesOK' /\ RecordsOK'
  BY <1>1, WorldKeeps DEF LearningOK
<1>3. DeskOK' /\ KeysOK' /\ NotesOK' /\ \A row \in Reviews' : ReviewOK(row)
  <2>1. CASE UNCHANGED learningVars
    <3>1. UNCHANGED <<learned, vault, desk, disturbed>>
      BY <2>1 DEF learningVars
    <3>2. DeskOK' /\ KeysOK' /\ Reviews' = Reviews
      BY <3>1 DEF LearningOK, DeskOK, KeysOK, KeyOf, Reviews, Idle
    <3>3. NotesOK'
      BY <3>1 DEF LearningOK, NotesOK, ReviewPath, Holds, Shows
    <3>. QED  BY <3>2, <3>3 DEF LearningOK
  <2>2. ASSUME NEW s \in Sessions, NEW kind \in Kinds, NEW offset \in AsOfOffsets,
               NEW mirrored \in BOOLEAN, Build(s, kind, today + offset, mirrored)
        PROVE  DeskOK' /\ KeysOK' /\ NotesOK' /\ \A row \in Reviews' : ReviewOK(row)
    BY <2>2, BuildKeeps
  <2>3. ASSUME NEW s \in Sessions, PublishNote(s)
        PROVE  DeskOK' /\ KeysOK' /\ NotesOK' /\ \A row \in Reviews' : ReviewOK(row)
    BY <2>3, PublishKeeps
  <2>4. ASSUME NEW s \in Sessions, StoreReview(s)
        PROVE  DeskOK' /\ KeysOK' /\ NotesOK' /\ \A row \in Reviews' : ReviewOK(row)
    BY <2>4, StoreKeeps
  <2>5. ASSUME NEW s \in Sessions, CommitReview(s)
        PROVE  DeskOK' /\ KeysOK' /\ NotesOK' /\ \A row \in Reviews' : ReviewOK(row)
    BY <2>5, CommitKeeps
  <2>6. ASSUME NEW s \in Sessions, Abort(s)
        PROVE  DeskOK' /\ KeysOK' /\ NotesOK' /\ \A row \in Reviews' : ReviewOK(row)
    BY <2>6, AbortKeeps
  <2>. QED  BY <2>1, <2>2, <2>3, <2>4, <2>5, <2>6 DEF Next, vars
<1>4. \A row \in Reviews' : ReviewOK(row)'
  BY <1>1, <1>3, ReviewStays DEF LearningOK
<1>. QED  BY <1>2, <1>3, <1>4 DEF LearningOK

LEMMA LearningInvariant == Spec => []LearningOK
BY LearningInit, LearningKeeps, PTL DEF Spec

(***************************************************************************)
(* The tables are of their types at any time and for any market, and every *)
(* stored review is of a whole period that was over on its as_of date.     *)
(***************************************************************************)
THEOREM LearningTypes == Spec => []TypeOK
<1>1. LearningOK => TypeOK
  <2>. SUFFICES ASSUME LearningOK PROVE TypeOK
    OBVIOUS
  <2>1. today \in Days /\ stored \in [Assets -> Days] /\ events \in 0..MaxEvents
        /\ \A o \in observed : o.at \in 1..stamps
    BY DEF LearningOK, TablesOK, MarketOK
  <2>2. \A row \in signals :
          row.category \in Categories /\ row.confidence \in 1..Full /\ row.day \in 0..today
    BY DEF LearningOK, TablesOK, RowsOK, RowOK
  <2>3. ASSUME NEW key \in DOMAIN learned
        PROVE  /\ key = KeyOf(learned[key].report)
               /\ learned[key].report.start % Length(learned[key].report.kind) = 0
               /\ learned[key].report.end
                    = learned[key].report.start + Length(learned[key].report.kind) - 1
               /\ \E offset \in AsOfOffsets :
                    learned[key].report.end < learned[key].report.generated + offset
    <3>1. learned[key] \in Reviews
      BY DEF Reviews
    <3>. QED  BY <3>1 DEF LearningOK, KeysOK, ReviewOK, ReportOK
  <2>4. \A s \in Sessions : desk[s].pc \in {"idle", "publishing", "built", "stored"}
    BY DEF LearningOK, DeskOK
  <2>. QED  BY <2>1, <2>2, <2>3, <2>4 DEF TypeOK, Length
<1>. QED  BY <1>1, LearningInvariant, PTL

\* The regime the API serves with a signal is the one the rules saw, unless
\* a market update was under way: its observation is stamped with its start.
THEOREM Lineage == Spec => []LineageKept
<1>1. LearningOK => LineageKept
  BY DEF LearningOK, TablesOK
<1>. QED  BY <1>1, LearningInvariant, PTL

\* A review made when its horizon was over and the bars were in says what it
\* would say if made again; the first invalidations it lists do not move.
THEOREM ReviewsStand == Spec => []SettledReviewsStand
<1>1. LearningOK => SettledReviewsStand
  <2>. SUFFICES ASSUME LearningOK, NEW key \in DOMAIN learned, NEW report, NEW period,
                       report = learned[key].report,
                       period = [start |-> report.start, end |-> report.end]
                PROVE  /\ learned[key].settled =>
                            /\ report.signals = SignalAccuracy(period)
                            /\ report.research = ResearchOutcomes(period)
                            /\ report.strategy = StrategyPerformance(period)
                       /\ report.theses.invalidations \subseteq ThesisAccuracy.invalidations
    BY Zenon DEF SettledReviewsStand
  <2>1. learned[key] \in Reviews
    BY DEF Reviews
  <2>2. Stands(learned[key])
    BY <2>1 DEF LearningOK, ReviewOK
  <2>3. period = PeriodOf(learned[key].report)
    BY DEF PeriodOf
  <2>. QED  BY <2>2, <2>3 DEF Stands
<1>. QED  BY <1>1, LearningInvariant, PTL

\* A stored review that names a note is the one the note shows, but for the
\* notes that overlapping, failed or lost publishes have disturbed.
THEOREM NotesShowReviews == Spec => []NoteMirrorsReview
<1>1. LearningOK => NoteMirrorsReview
  <2>. SUFFICES ASSUME LearningOK, NEW key \in DOMAIN learned, NEW path,
                       path = ReviewPath(learned[key].report), learned[key].note,
                       path \notin disturbed
                PROVE  \/ \E s \in Sessions :
                            desk[s].pc \in {"built", "stored"} /\ desk[s].row.note /\ PathOf(s) = path
                       \/ vault[path] = {learned[key].id}
    BY Zenon DEF NoteMirrorsReview
  <2>1. Shows(vault, path, learned[key]) \/ \E s \in Sessions : Holds(desk, s, path)
    BY DEF LearningOK, NotesOK
  <2>. QED  BY <2>1 DEF Shows, Holds, PathOf
<1>. QED  BY <1>1, LearningInvariant, PTL

\* Every signal a run of the engine adds is honest about whatever context it
\* may have been made in: broken theses and losses of more than 20% come before
\* any proposal to buy.
THEOREM WarningsFirst == Spec => WarningsComeFirst
<1>. DEFINE HonestStep ==
       \A row \in signals' : row.id = events =>
         \A situation \in Situations :
            LET c == Context(row.asset, situation)
            IN  \A signal \in SignalsFor(c) :
                   Row(row.asset, signal, row.at) = row => Honest(c, signal)
<1>1. ASSUME NEW a, NEW situation \in Situations, NEW c, c = Context(a, situation),
             NEW signal \in SignalsFor(c)
      PROVE  Honest(c, signal)
  <2>1. c.top = situation.top
    BY <1>1 DEF Context
  <2>2. c.top.reasons \in Nat
    BY <2>1, SignalsAssumption
  <2>. QED  BY <2>2, HonestSignals
<1>2. HonestStep
  BY <1>1
<1>. HIDE DEF HonestStep
<1>3. [Next]_vars => [HonestStep]_signalVars
  BY <1>2
<1>4. Spec => [][HonestStep]_signalVars
  BY <1>3, PTL DEF Spec
<1>. QED  BY <1>4 DEF WarningsComeFirst, HonestStep
=============================================================================
