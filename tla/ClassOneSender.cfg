CONSTANTS
  Messages = {m1, m2}
  Own = {m1}
  Hops = {root, relay}
  Root = root
  NoHop = NoHop
  ATTEMPTS = 2
  COUNTER_LIMIT = 2
SPECIFICATION Spec
INVARIANTS
  NothingForgotten
PROPERTIES
  FailsOnce
