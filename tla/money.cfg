SPECIFICATION Spec
CONSTANTS
  Invoice = {i1}
  Package = {p1,p2}
  Req = {r1,r2}
  Loose = {}
  Other = {}
  NoInvoice = none
  Ops = {"create","close","pay","void","edit","archive"}
  Faults = {"call","crash"}
  Amounts = {0,1}
  MaxPaid = 2
INVARIANTS
  ClosedIffIssued
  MoneyOnlyAfterLock
PROPERTIES
  VoidLeftOnlyByPayment
SYMMETRY IdSymmetry
\* Nobody has to send a request, and the ids are bounded: the system may stop.
CHECK_DEADLOCK FALSE
