SPECIFICATION DownloadSpec
CONSTANTS
  r1 = r1
  r2 = r2
  r3 = r3
  v1 = v1
  v2 = v2
  temp = temp
  bin = bin
  Downloads = {r1, r2}
  Paths = {temp, bin}
  Temp = temp
  Dest <- Destinations
  Versions = {v1, v2}
  Size <- Sizes
  Page = Page
  Hole = Hole
  Files = {f1, f2, f3, f4}
  NoFile = NoFile
SYMMETRY Symmetry
INVARIANTS
  DownloadTypeOK
  
PROPERTIES
  CompletedInstalls
CHECK_DEADLOCK FALSE
