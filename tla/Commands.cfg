SPECIFICATION CommandsSpec
CONSTANTS
  Places <- MCPlaces
  Zones <- MCZones
  CreateLines <- MCCreateLines
INVARIANTS
  CommandsTypeOK
  SameFlagsDelete
  SameSecretKey
  OneKindOfTunnel
  SummaryDeletes
CHECK_DEADLOCK FALSE
