CONSTANTS
  Addresses = {0, 1, 2}
  Measured = {1}
  ROOT = 0
  CAPACITY = 2
  Periods = {1, 2}
  EXPIRY_PERIODS = 2
  SILENCE_HALVES = 2
  WINDOW = 2
  ACK_MIN = 2
  UNREACH_RUN = 2
  ETX_ONE = 128
  None = None
SPECIFICATION Spec
INVARIANTS
  CacheSound
  RunInWindow
PROPERTIES
  ParentsKept
