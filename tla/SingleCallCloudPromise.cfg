SPECIFICATION Spec
CONSTANTS
  Creators = {c1}
  Deleters = {d1, d2}
  HostIds = {h1, f1}
  NoHost = NoHost
  Addresses = {a1, a2}
  NoAddr = NoAddr
  MaxPolls = 2
  Foreign = {f1}
  FiltersByTag = TRUE
  Nobody = Nobody
PROPERTIES
  EveryRunEnds
  KeepsThePromise
CHECK_DEADLOCK FALSE
