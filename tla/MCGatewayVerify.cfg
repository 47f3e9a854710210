CONSTANTS
  r1 = r1
  r2 = r2
  r3 = r3
  f1 = f1
  f2 = f2
  NoHash = NoHash
  Absent = Absent
  Malformed = Malformed
  Hash <- MCHash
  Request <- TwoRequests
  Posted <- Honest
SPECIFICATION Spec
INVARIANTS
  HonestLedgerVerifies
