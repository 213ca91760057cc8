------------------------------- MODULE MCQuote -------------------------------
(* Instances of PriceQuote for TLC, with the same symmetry as MCRates. *)
EXTENDS PriceQuote, TLC

IdSymmetry == Permutations(Card) \cup Permutations(Table)
=============================================================================
