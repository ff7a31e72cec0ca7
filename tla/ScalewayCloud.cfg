SPECIFICATION Spec
CONSTANTS
  Creators = {c1}
  Deleters = {d1, d2}
  HostIds = {h1, f1}
  NoHost = NoHost
  Addresses = {a1, a2}
  NoAddr = NoAddr
  MaxPolls = 2
  Foreign = {f1}
  FiltersByTag = TRUE
  Nobody = Nobody
  Disks = {v1, v2}
SYMMETRY Symmetry
INVARIANTS
  TypeOK
  NoSilentVolume
  NoSilentOrphan
  UpWithUserData
PROPERTIES
  KeepsThePromise
CHECK_DEADLOCK FALSE
