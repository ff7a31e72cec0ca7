SPECIFICATION Spec
CONSTANTS
  c1 = c1
  c2 = c2
  tunnel = tunnel
  Creators = {c1}
  Deleters = {}
  HostIds = {c1}
  NoHost = NoHost
  Addresses = {a1}
  NoAddr = NoAddr
  MaxPolls = 2
  Names = {tunnel}
  NameOf <- JustOne
  KindOf <- JustHttps
  Nobody = Nobody
INVARIANTS
  ControlPortOpen
CHECK_DEADLOCK FALSE
