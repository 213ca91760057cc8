------------------------------ MODULE MCClients ------------------------------
(* Instances of ClientDirectory for TLC: two spellings of one person and      *)
(* somebody else.  Ids are symmetric.                                        *)
EXTENDS ClientDirectory, TLC

TwoPersons == [n \in Name |-> IF n = "ana" THEN "ana" ELSE "jose"]

IdSymmetry == Permutations(Request) \cup Permutations(Client) \cup Permutations(Invoice)
=============================================================================
