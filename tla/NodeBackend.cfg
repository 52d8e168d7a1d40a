SPECIFICATION FairSpec
CONSTANTS
  MaxLaunches = 2
  MaxOctets = 3
  ReadSize = 2
  BufferSize = 2
INVARIANTS
  BackendInv
  LinesAreFramed
PROPERTIES
  DeathIsNoticed
CHECK_DEADLOCK FALSE
