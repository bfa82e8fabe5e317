SPECIFICATION FairSpec
CONSTANTS
  Packet = {p1, p2}
  Empty = Empty
  MaxReply = 3
  FifoPackets = 2
  MaxPackets = 3
  MaxConfigs = 2
CHECK_DEADLOCK FALSE
INVARIANTS TypeOK PacketsArriveWhole AnswersArriveWhole
PROPERTIES NobodyWaits
