CONSTANTS
  p1 = p1
  p2 = p2
  g1 = g1
  g2 = g2
  NoPayment = NoPayment
  Payments <- OnePayment
  Gateways <- TwoGateways
  OtherPayments = FALSE
  SettlementEnabled = FALSE
  SagaTimeout = 1
  ReservationTTL = 2
  FaultKinds <- AnyFault
  MaxFaults = 2
  LastSubmit = 0
  MaxTime = 3
SPECIFICATION FairSpec
INVARIANT IInv
PROPERTIES ReservationResolved SagaEnds ImplementsLifecycle
CHECK_DEADLOCK FALSE
