CONSTANTS
  Nodes = {origin, relay, other, root}
  Root = root
  Messages = {m1}
  Origin = origin
  None = None
  QUEUE = 2
  CACHE = 1
  MAX_FRAMES = 3
SPECIFICATION Spec
VIEW View
INVARIANTS
  LoopLosesNothing
CHECK_DEADLOCK FALSE
