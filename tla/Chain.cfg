CONSTANTS
  Nodes = {origin, relay, root}
  Root = root
  Messages = {m1, m2}
  Origin = origin
  None = None
  QUEUE = 2
  CACHE = 1
  MAX_FRAMES = 3
SPECIFICATION Spec
SYMMETRY Symmetry
VIEW View
INVARIANTS
  DeliveredOnce
PROPERTIES
  KeepsCustody
CHECK_DEADLOCK FALSE
