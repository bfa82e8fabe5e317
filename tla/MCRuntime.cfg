SPECIFICATION FairSpec
CONSTANTS
  timer = timer
  a = a
  b = b
  Channels <- Three
  Timer <- timer
  NoChannel = NoChannel
  Durations <- Short
  MaxTime = 2
  MaxRaised = 2
CHECK_DEADLOCK FALSE
INVARIANTS TypeOK NestingSound
PROPERTIES SleepNeverShort ReadyRuns
