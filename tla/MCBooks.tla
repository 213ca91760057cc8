------------------------------ MODULE MCBooks ------------------------------
(* Instances of BooksRequirements for TLC.                               *)
EXTENDS BooksRequirements, TLC

(* Ids are interchangeable: nothing in the code orders them.                *)
IdSymmetry ==
  Permutations(Invoice) \cup Permutations(Package) \cup Permutations(Req)
=============================================================================
