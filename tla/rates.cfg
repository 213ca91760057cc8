SPECIFICATION Spec
CONSTANTS
  Request = {r1,r2}
  Card = {c1,c2}
  Old = {}
  Table = {t1,t2}
  Name = {regular,vip}
  Tier = {regular,vip}
  Regular = regular
  None = none
  MaxAsked = 3
INVARIANTS
  TypeOK
  CardWholeOrBroken
PROPERTIES
  PricesLostOnlyByOverlap
SYMMETRY IdSymmetry
\* Nobody has to ask, and the bound on requests stops the panel.
CHECK_DEADLOCK FALSE
