SPECIFICATION Spec
CONSTANTS
  UintMax = 50
  AddrSpan = 8
  Sessions <- SomeSessions
  ExceptionPC = 99
  NRegs = 3
  PerLine = 2
  BytesPerLine = 2
  MemoryRows = 1
  MaxRows = 2
  MaxWindows = 2
INVARIANT FoldsExact
INVARIANT PositionCoherent
INVARIANT UnfoldingReaches
INVARIANT TypeOK
PROPERTY FoldsTheCall
PROPERTY WindowsFollow
INVARIANT DiffExact
CHECK_DEADLOCK FALSE
