SPECIFICATION SafeSpec
CONSTANTS
  Creators = {c1, c2}
  Deleters = {d1, d2}
  HostIds = {h1, h2, f1}
  NoHost = NoHost
  Addresses = {a1, a2}
  NoAddr = NoAddr
  MaxPolls = 2
  Foreign = {f1}
  FiltersByTag = TRUE
  Nobody = Nobody
SYMMETRY Symmetry
INVARIANTS
  TypeOK
  SummaryIsOwnHost
  NoSilentOrphan
  OneHostPerRun
  DeleteHitsItsTarget
CHECK_DEADLOCK FALSE
