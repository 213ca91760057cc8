------------------------------ MODULE MCBilling ------------------------------
(* Instances of BillingRequirements for TLC.                               *)
EXTENDS BillingRequirements, TLC

(* Ids are interchangeable: nothing in the code orders them.                *)
IdSymmetry ==
  Permutations(Invoice) \cup Permutations(Package) \cup Permutations(Req)
=============================================================================
