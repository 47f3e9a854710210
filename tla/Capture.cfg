SPECIFICATION FairSpec
CONSTANTS
  Text = {"ls"}
  Blank = ""
  MaxExecs = 3
  MaxSignals = 2
INVARIANTS
  TypeOK
  RunsAfterReport
  ReportedInOrder
PROPERTY
  CommandEndEndsCapture
CHECK_DEADLOCK FALSE
