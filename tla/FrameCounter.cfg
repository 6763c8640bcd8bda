CONSTANTS
  BLOCK = 4
  COUNTER_LIMIT = 11
  RANDOM_RANGE = 8
  RECORD_MAX = 20
  NoRecord = NoRecord
SPECIFICATION CounterSpec
INVARIANTS
  CounterTypeOK
  UsedBelowRecord
  SkipBound
PROPERTIES
  RecordedAhead
  NonceSpec
