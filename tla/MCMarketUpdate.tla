--------------------------- MODULE MCMarketUpdate ---------------------------
(***************************************************************************)
(* A primary that stamps bars at the end of a day, a fallback that stamps  *)
(* them at midnight and has other closes, and the mock provider listed     *)
(* after them.                                                             *)
(* Two assets, two processes, days of one tick.                            *)
(***************************************************************************)
EXTENDS MarketUpdate, TLC

CONSTANTS a1, a2, yahoo, alphavantage, mock

MCRank == [a \in Assets |-> IF a = a1 THEN 1 ELSE 2]
MCCandidates == <<yahoo, alphavantage, mock>>
MCSynthetic == {mock}
MCOffset == (yahoo :> DayLength - 1) @@ (alphavantage :> 0) @@ (mock :> 0)
MCQuote == (yahoo :> 1) @@ (alphavantage :> 2) @@ (mock :> 1)

ProcessSymmetry == Permutations(Processes)
=============================================================================
