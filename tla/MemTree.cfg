SPECIFICATION Spec
CONSTANTS
  AddrMax = 4
  Accesses <- SomeAccesses
  RecordMemory = TRUE
  MaxEvents = 4
  MaxRecords = 2
  Unknown = Unknown
INVARIANT TypeOK
INVARIANT OneAnswerPerByte
INVARIANT ContentsInPlace
INVARIANT PointerFresh
INVARIANT QueriesExact
PROPERTY ImplementsByteMemory
PROPERTY VersionsOnlyLearn
PROPERTY ReadsEnd
