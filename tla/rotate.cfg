SPECIFICATION FairSpec
CONSTANTS
  Provider = {"gc"}
  Org = {"hit"}
  Guia = {"g1","g2","g3"}
  Box = {"37458"}
  NoBox = noBox
  NoProvider = noProvider
  NoMailbox = noMailbox
  Mailbox <- OneMailbox
  Link <- JustDefault
  Scrapable = {"hit"}
  Job = {j1}
  Limit = 2
  Inactive <- FirstInactive
  Ops = {"walk","refresh"}
  Faults = {}
PROPERTIES
  EveryOpenReached
  DeliveryNoticed
\* A guide that is delivered everywhere leaves nothing to do: the system may stop.
CHECK_DEADLOCK FALSE
