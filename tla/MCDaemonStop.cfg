SPECIFICATION FairSpec
CONSTANTS
  Launch = {l1}
  Pid = {1, 2}
  MaxOthers = 1
  Args <- MCArgs
PROPERTY
  StopStopsDaemon
