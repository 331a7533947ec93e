------------------------------- MODULE MCCadence -------------------------------
(* A stablecoin, two coins and a tokenised asset; a top and a small tier of which   *)
(* neither divides the other, stretched by a half or not.                           *)
EXTENDS Cadence, TLC

MCDesired == [l \in Lane |-> CASE l = "stable" -> 1 [] l = "top" -> 3 [] l = "small" -> 4 [] l = "global" -> 4 [] OTHER -> 8]

\* Coin 1 is the stablecoin, coin 4 the tokenised asset.
MCPortfolios ==
  {<<Unset, Unset, Unset, Unset>>, <<1, 4, 1, Unset>>, <<Unset, 0, 4, 1>>}

\* The dearest low takes a year of history.
MCLowCost == <<1, 1, 2, 1>>

Symmetry == Permutations(User)

\* What the theorem about a month's costs asks of the figures.
ASSUME MCReserve == ReserveCovers
=============================================================================
