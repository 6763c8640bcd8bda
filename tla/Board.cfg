CONSTANTS
  MAX_ATTEMPTS = 2
  MAX_PENDING = 2
  MAX_EVENTS = 2
  MAX_RAW = 2
  MAX_ERRORS = 1
SPECIFICATION FairSpec
INVARIANTS
  NothingSleptOver
  AnswersExpected
PROPERTIES
  NeverOver
  Answered
