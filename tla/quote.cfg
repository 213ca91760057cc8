SPECIFICATION QuoteSpec
CONSTANTS
  Request = {r1}
  Card = {c1,c2}
  Old = {c1,c2}
  Table = {t1,t2}
  Name = {regular,vip}
  Tier = {regular,vip}
  Regular = regular
  None = none
  MaxAsked = 1
INVARIANTS
  QuoteTypeOK
  ChargedOwnPrice
SYMMETRY IdSymmetry
\* Nobody has to ask, and the bound on requests stops the panel.
CHECK_DEADLOCK FALSE
