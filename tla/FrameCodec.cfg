CONSTANTS
  Presences <- SomePresences
  Topologies <- SomeTopologies
  NodeInfos <- SomeNodeInfos
  Acks <- SomeAcks
  Others <- SomeOthers
  Header <- SomeHeader
  Bytes = {0, 1, 2, 3, 4, 24, 40, 70, 101, 201, 224, 255}
  LIMIT = 40
  GROUP_MAX = 255
  ROUTE_MAX = 1
  TAILS_MAX = 1
  MAC_SIZE = 2
  NAME_MAX = 2
  MAX_MESSAGES = 3
  MAX_ALTERED = 1
  Absent = Absent
SPECIFICATION CodecSpec
INVARIANTS
  FrameFaithful
  ReportsRestored
  ForwardedAlike
CHECK_DEADLOCK FALSE
