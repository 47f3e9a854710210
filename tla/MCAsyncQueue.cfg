CONSTANTS
  p1 = p1
  p2 = p2
  c1 = c1
  c2 = c2
  e1 = e1
  e2 = e2
  NoItem = NoItem
  Producers <- MCProducers
  Consumers <- MCConsumers
  Item <- MCItem
  Size = 2
SPECIFICATION FairSpec
INVARIANTS
  TypeOK
  RingConsistent
  NoLostWakeup
  ShutdownWakesAll
PROPERTIES
  ImplementsFifo
  TimedPopReturns
