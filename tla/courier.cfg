SPECIFICATION Spec
CONSTANTS
  Request = {r1,r2}
  Cookie = {c1,c2,c3}
  NoCookie = none
  Faults = {"call","lost","read","refused"}
INVARIANTS
  TypeOK
  RetryRecovers
  NoLoginStorm
  SweptInFour
SYMMETRY IdSymmetry
\* Nobody has to need a page: the system may stop.
CHECK_DEADLOCK FALSE
