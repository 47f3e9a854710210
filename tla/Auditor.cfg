CONSTANTS
  Main = Main
  Worker = Worker
  NoItem = NoItem
  Size = 2
  MaxEvents = 3
  MaxRetries = 2
SPECIFICATION FairSpec
INVARIANTS
  TypeOK
  Delivery
  AbandonedOnlyAfterRetries
  LocalLogComplete
  StoredIsLogged
  DestroyedUnused
  ExitLeavesNothing
PROPERTIES
  CallbackReturns
  DrainedRunExits
