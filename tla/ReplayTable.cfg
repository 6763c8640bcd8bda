CONSTANTS
  Senders = {s1, s2, s3}
  CAPACITY = 2
  SEND_LIMIT = 2
  MAX_LOST = 2
SPECIFICATION Spec
INVARIANTS
  TypeOK
  ReplayBound
  GenuineAccepted
  RecentKept
