------------------------------ MODULE MCLearning ------------------------------
(***************************************************************************)
(* Instance of Learning for TLC.                                           *)
(***************************************************************************)
EXTENDS Learning

Curve(closes) == [day \in Days |-> closes[day + 1]]

\* A rise with a late crash, and a fall with a day without a bar.
MCHistories ==
    {Curve(<<10, 11, 12, 9>>), Curve(<<10, 9, 0, 7>>)}

Situation(researched, score, reasons, cost, watched, pe) ==
    [researched |-> researched, top |-> [score |-> score, reasons |-> reasons],
     cost |-> cost, watched |-> watched, pe |-> pe]

\* Held (down by exactly 20% at a close of 12), held and deeper down, wanted, waiting, watched, and nothing.
MCSituations ==
    {Situation(TRUE, 0, 1, 15, TRUE, "acceptable"),
     Situation(FALSE, 0, 1, 16, FALSE, "unknown"),
     Situation(TRUE, 0, 1, 0, TRUE, "unknown"),
     Situation(TRUE, 70, 5, 0, FALSE, "high"),
     Situation(FALSE, 0, 1, 0, TRUE, "high"),
     Situation(FALSE, 0, 1, 0, FALSE, "high")}

MCTurbulent(closes) == \E i \in 2..Len(closes) : closes[i] * 5 < closes[i - 1] * 4

MCCompany == [a \in Assets |-> [sector |-> "unknown", cap |-> 5]]

\* The previous period's review may be asked for again a day late.
MCOffsets == {-1, 0}

MCClosings ==
    {[regime |-> "BULLISH", r |-> 20, stop |-> TRUE], [regime |-> "none", r |-> -10, stop |-> FALSE]}
=============================================================================
