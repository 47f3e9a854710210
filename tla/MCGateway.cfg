CONSTANTS
  r1 = r1
  r2 = r2
  r3 = r3
  f1 = f1
  f2 = f2
  NoHash = NoHash
  Absent = Absent
  Malformed = Malformed
  Hash <- MCHash
  Request <- ThreeRequests
  Posted <- HonestOrNot
SPECIFICATION Spec
INVARIANTS
  TypeOK
  CreatedIsStored
  ReadsAreFresh
  ReadsAreSound
PROPERTIES
  WrittenOnce
