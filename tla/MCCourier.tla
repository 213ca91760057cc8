------------------------------ MODULE MCCourier ------------------------------
(* Instances of CourierSession for TLC.  Requests and sessions are symmetric: *)
(* the code orders neither.                                                   *)
EXTENDS CourierSession, TLC

IdSymmetry == Permutations(Request) \cup Permutations(Cookie)
=============================================================================
