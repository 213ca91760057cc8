SPECIFICATION Spec
CONSTANTS
  Provider = {"everest","gc"}
  Org = {"hit","suite"}
  Guia = {g1}
  Box = {"37458","8899"}
  NoBox = noBox
  NoProvider = noProvider
  NoMailbox = noMailbox
  Mailbox <- TwoMailboxes
  Link <- SharedLinks
  Scrapable = {"hit","suite"}
  Job = {j1}
  Limit = 1
  Inactive = {}
  Ops = {"walk","refresh","one","any","create","status","delete"}
  Faults = {"fetch","login","call","cut"}
INVARIANTS
  TypeOK
  DeliveredIsReal
PROPERTIES
  OverrideKept
  RightTenant
  MergedOnlyLate
\* Nobody has to start a job, and nothing new need arrive: the system may stop.
CHECK_DEADLOCK FALSE
