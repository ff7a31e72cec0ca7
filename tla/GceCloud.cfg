SPECIFICATION Spec
CONSTANTS
  c1 = c1
  c2 = c2
  tunnel = tunnel
  earlier = earlier
  Creators = {c1, c2}
  Deleters = {d1}
  HostIds = {tunnel, earlier}
  NoHost = NoHost
  a1 = a1
  Addresses = {a1, a2}
  NoAddr = NoAddr
  MaxPolls = 1
  NameOf <- OneName
  KindOf <- BothKinds
  Before <- OneBefore
  RuleBefore = {"none", "web"}
  AddrTries = 2
  PageSize = 1
  Nobody = Nobody
INVARIANTS
  TypeOK
  OnlyHttpsNarrowsRule
  SummaryIsOwnInstance
PROPERTIES
  EveryRunEnds
CHECK_DEADLOCK FALSE
