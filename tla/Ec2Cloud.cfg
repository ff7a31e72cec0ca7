SPECIFICATION Spec
CONSTANTS
  Creators = {c1}
  Deleters = {d1, d2}
  HostIds = {h1, f1}
  NoHost = NoHost
  Addresses = {a1, a2}
  NoAddr = NoAddr
  MaxPolls = 2
  Foreign = {f1}
  FiltersByTag = TRUE
  Nobody = Nobody
  GroupIds = {g1}
  NoGroup = NoGroup
SYMMETRY Symmetry
INVARIANTS
  TypeOK
  SummaryLeadsToHost
  NoSilentGroup
PROPERTIES
  KeepsThePromise
CHECK_DEADLOCK FALSE
