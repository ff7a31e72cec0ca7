SPECIFICATION ScriptSpec
CONSTANTS
  Creators = {c1}
  Deleters = {d1, d2}
  HostIds = {f1, h1, h2}
  NoHost = NoHost
  Addresses = {a1, a2}
  NoAddr = NoAddr
  MaxPolls = 1
  Foreign = {f1}
  FiltersByTag = TRUE
  Nobody = Nobody
  Names = {n1}
  NoName = NoName
  ScriptIds = {t1, s1, s2}
  NoScript = NoScript
  OtherScripts = {t1}
  Providers = {"linode", "vultr"}
SYMMETRY Symmetry
INVARIANTS
  ScriptTypeOK
  ScriptPerDeletedHost
  BootsWithItsScript
  SummaryIsOwnHost
CHECK_DEADLOCK FALSE
