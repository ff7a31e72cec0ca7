SPECIFICATION KfwdSpec
CONSTANTS
  u1 = u1
  u2 = u2
  Kfwds = {k1, k2}
  Clients <- ClientNames
  Upstreams = {u1, u2}
  Service <- ServiceOf
  Nobody = Nobody
INVARIANTS
  KfwdTypeOK
  ServingHasOwnClient
PROPERTIES
  TouchesOwnServiceOnly
  CancelWhileServingEnds
CHECK_DEADLOCK FALSE
