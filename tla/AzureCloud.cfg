SPECIFICATION Spec
CONSTANTS
  c1 = c1
  c2 = c2
  tunnel = tunnel
  Creators = {c1, c2}
  Deleters = {d1, d2}
  HostIds = {c1, c2}
  NoHost = NoHost
  Addresses = {a1, a2}
  NoAddr = NoAddr
  MaxPolls = 2
  Names = {tunnel}
  NameOf <- OneName
  KindOf <- TcpAndHttps
  Nobody = Nobody
INVARIANTS
  TypeOK
  SummaryIsOwnMachine
  NoSilentMachine
  DeletedStaysDeleted
CHECK_DEADLOCK FALSE
