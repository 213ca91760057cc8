SPECIFICATION Spec
CONSTANTS
  Request = {r1,r2}
  Client = {c1,c2,c3}
  Invoice = {i1,i2}
  Name = {"jose","hazmat jose","ana"}
  Person = {"jose","ana"}
  Match <- TwoPersons
  None = none
  MaxAsked = 2
INVARIANTS
  TypeOK
PROPERTIES
  NoSecondRow
  InactiveGetsNoInvoice
SYMMETRY IdSymmetry
\* Nobody has to ask, and the bound on requests stops the panel.
CHECK_DEADLOCK FALSE
