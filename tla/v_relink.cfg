SPECIFICATION Spec
CONSTANTS
  Invoice = {i1}
  Package = {p1,p2}
  Req = {r1}
  Loose = {}
  Other = {}
  NoInvoice = none
  Ops = {"create","edit"}
  Faults = {}
  Amounts = {1}
  MaxPaid = 2
INVARIANTS
  BilledHasActiveLink
SYMMETRY IdSymmetry
\* Nobody has to send a request, and the ids are bounded: the system may stop.
CHECK_DEADLOCK FALSE
