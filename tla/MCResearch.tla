------------------------------ MODULE MCResearch ------------------------------
(***************************************************************************)
(* Instance of ResearchDesk for TLC.                                       *)
(***************************************************************************)
EXTENDS ResearchDesk, TLC

\* A quiet asset on a watchlist, and one whose price jumped before earnings
\* that nobody holds or watches.
MCSituations ==
    {[closes |-> <<100, 101, 102>>, earnings |-> <<>>, stake |-> 10, lists |-> 1],
     [closes |-> <<100, 96, 80>>, earnings |-> <<0, 1>>, stake |-> 0, lists |-> 0]}

MCRegimes == {[trend |-> "BULLISH", other |-> "NORMAL"],
              [trend |-> "BULLISH", other |-> "HIGH"],
              [trend |-> "BEARISH", other |-> "HIGH"]}

MCObserved == <<[trend |-> "BULLISH", other |-> "NORMAL"]>>

SessionSymmetry == Permutations(Sessions)
=============================================================================
