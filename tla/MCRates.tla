------------------------------- MODULE MCRates -------------------------------
(* Instances of AgencyRates for TLC.  The ids of requests, cards and tables    *)
(* are symmetric; names and tiers are not, as the script pairs them.         *)
EXTENDS AgencyRates, TLC

IdSymmetry == Permutations(Request) \cup Permutations(Card) \cup Permutations(Table)
=============================================================================
