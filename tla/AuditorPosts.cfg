CONSTANTS
  Main = Main
  Worker = Worker
  NoItem = NoItem
  Size = 2
  MaxEvents = 2
  MaxRetries = 3
SPECIFICATION FairSpec
PROPERTIES
  EveryEventPosted
