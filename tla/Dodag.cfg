CONSTANTS
  ROOT = 0
  NoParent = NoParent
  INFINITE = 255
  MAX_COST = 24
  MAX_LINK_COST = 32
  MAX_INCREASE = 16
  SIZE = 3
  SWITCH_THRESHOLD = 12
  RANK_HYSTERESIS = 4
  Nodes = {0, 1, 2}
  Links = {{0, 1}, {0, 2}, {1, 2}}
  HOP = 8
  MAX_VERSION = 1
  MAX_LOSSES = 1
  MAX_FAULTS = 1
  STRAY = FALSE
SPECIFICATION FairSpec
INVARIANTS
  Downhill
PROPERTIES
  LoopsOnlyByLoss
  Settles
