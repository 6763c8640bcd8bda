CONSTANTS
  BINS = 2
  BIN = 2
  BUDGET = 3
  Percent <- Shares
  TOAS = {1, 2}
  EXCESS = 1
  MAX_TIME = 8
  MAX_RESETS = 1
SPECIFICATION Spec
INVARIANTS
  TypeOK
  NeverUndercounted
  ForgottenInTime
  RecordValid
PROPERTIES
  WithinAllowance
