SPECIFICATION FairSpec
CONSTANTS
  Requests = {r1, r2, r3}
  NoRequest = NoRequest
  Inputs <- AllInputs
  TokenSet = TRUE
  QueueCap = 1
  ShortTicks = 1
  LongTicks = 4
  ForceTicks = 3
  MaxLate = 2
  MaxReboots = 1
INVARIANTS TypeOK NothingLostOrReordered NoLostWakeUp ButtonOnlyForAcceptedAction
PROPERTIES RefusedOnlyWhileExecuting PressFitsRequest OneExecutingOnePending AcceptedIsExecuted
