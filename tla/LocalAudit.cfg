SPECIFICATION FairSpec
CONSTANTS
  RunText = {"newline", "dirBackslash"}
  DaemonText = {"short","long"}
  MaxExecs = 1
  Backlog = 1
  MaxRecords = 2
  Nothing = Nothing
  MaxCached = 2
  MaxCuts = 1
INVARIANTS
  TypeOK
  VerifiedIsHonest
  HonestLinesMatch
  TamperDetected
  LogInOrder
  IntactUnlessLong
PROPERTY
  OverflowEndsMonitor
CHECK_DEADLOCK FALSE
