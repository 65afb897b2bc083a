SPECIFICATION Spec
CONSTANTS
  r1 = r1
  r2 = r2
  r3 = r3
  a1 = a1
  a2 = a2
  b1 = b1
  b2 = b2
  NoSlot = NoSlot
  Requests <- MCRequests
  Slots <- MCSlots
  InitialQueue <- MCInitialQueue
  ConfiguredCapacity = 1
CHECK_DEADLOCK FALSE
INVARIANTS
  TypeOK
  SlotsExclusive
  ReleaseFindsRoom
PROPERTIES
  ImplementsLedger
