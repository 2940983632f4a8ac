SPECIFICATION Spec
CONSTANTS
  UintMax = 50
  AddrSpan = 8
  Sessions <- FoldingInside
  ExceptionPC = 99
  NRegs = 3
  PerLine = 2
  BytesPerLine = 2
  MemoryRows = 1
  MaxRows = 2
  MaxWindows = 2
PROPERTY FunctionStaysUnfolded
CHECK_DEADLOCK FALSE
