CONSTANTS
  r1 = r1
  r2 = r2
  Events <- ThreeEvents
  Relays <- TwoRelays
  BatchLimit = 2
  MaxFaults = 2
SPECIFICATION FairSpec
INVARIANTS TypeOK PublishedIsInLog DuplicatesNeedFaults CommittedIsHandled
PROPERTIES ImplementsDelivery EventPublished EventHandled
CHECK_DEADLOCK FALSE
