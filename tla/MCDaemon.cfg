SPECIFICATION Spec
CONSTANTS
  Launch = {l1, l2}
  Pid = {1, 2, 3}
  MaxOthers = 1
  Args <- MCArgs
INVARIANT
  TypeOK
PROPERTY
  InnocentSpared
