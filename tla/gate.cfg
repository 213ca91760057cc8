SPECIFICATION FairSpec
CONSTANTS
  Request = {r1,r2}
  Ip = {ip}
  Guia = {g}
  Limit = 2
  Faults = {"call","lost","cut"}
  MaxNow = 1
  MaxAsked = 3
  MaxCool = 2
INVARIANTS
  TypeOK
  LimitPerWindow
  OneRefreshPerCooldown
PROPERTIES
  RefusedForCause
  CooldownEnds
\* Nobody has to ask, and the bounds stop the clock: the system may stop.
CHECK_DEADLOCK FALSE
