SPECIFICATION Spec
CONSTANTS
  AddrMax = 4
  Accesses <- ReadsAtTheTop
  RecordMemory = TRUE
  MaxEvents = 2
  MaxRecords = 1
  Unknown = Unknown
PROPERTY ReadsEnd
