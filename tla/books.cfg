SPECIFICATION BooksSpec
CONSTANTS
  Invoice = {i1}
  Package = {p1}
  Req = {r1,r2}
  Loose = {loose}
  Other = {}
  NoInvoice = none
  Ops = {"create","edit","close","pay","void","archive","link","unlink"}
  Faults = {"call","crash"}
  Amounts = {0,1}
  MaxPaid = 2
INVARIANTS
  TypeOK
  TotalIsSumOfLines
  PaidIsSumOfPayments
  StatusMatchesMoney
  DeadHoldsNothing
PROPERTIES
  ClosedTotalFrozen
  ArchivedIsFrozen
SYMMETRY IdSymmetry
\* Nobody has to send a request, and the ids are bounded: the system may stop.
CHECK_DEADLOCK FALSE
