SPECIFICATION FairSpec
CONSTANTS
  MPS = 2
  Kinds <- AllKinds
  MaxAnswer = 6
  MaxRequests = 3
  MaxResets = 1
CHECK_DEADLOCK FALSE
INVARIANTS TypeOK AnswerBelongsToRequest HostAndDeviceAgree
PROPERTIES TransferEnds
