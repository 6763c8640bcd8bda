CONSTANTS
  K = 2
  TOP = 2
  FLAGS = {"RANK_ERRORS"}
  FIRST = "FIRST_REPORT"
  None = None
SPECIFICATION AdvertSpec
INVARIANTS
  FlagsKept
  NeedKept
