SPECIFICATION Spec
CONSTANTS
  Traces <- AllTraces
  RecordCalls = TRUE
  LRWriteThreshold = 2
  ULLONG_MAX = 100
  Unknown = Unknown
INVARIANT TypeOK
INVARIANT RecordsTile
INVARIANT TimesRise
INVARIANT CallsPaired
INVARIANT CallretsAtRecords
INVARIANT IndexDescribesTrace
INVARIANT DepthIsOpenCalls
INVARIANT MatchesKeepFrames
