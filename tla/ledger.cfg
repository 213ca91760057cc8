SPECIFICATION Spec
CONSTANTS
  Invoice = {i1,i2}
  Package = {p1,p2}
  Req = {r1,r2}
  Loose = {}
  Other = {}
  NoInvoice = none
  Ops = {"create","bulk","archive","link","unlink"}
  Faults = {"call","crash"}
  Amounts = {1}
  MaxPaid = 2
INVARIANTS
  OneActiveInvoice
  NumbersUnique
PROPERTIES
  ImplementsLedger
SYMMETRY IdSymmetry
\* Nobody has to send a request, and the ids are bounded: the system may stop.
CHECK_DEADLOCK FALSE
