CONSTANTS
  Main = Main
  Worker = Worker
  NoItem = NoItem
  Size = 1
  MaxEvents = 1
  MaxRetries = 2
  NoHash = NoHash
  Absent = Absent
  Malformed = Malformed
SPECIFICATION Spec
INVARIANTS
  TypeOK
  LostOnlyIfRefused
PROPERTIES
  ImplementsAuditor
