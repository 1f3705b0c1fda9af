CONSTANTS
  p1 = p1
  p2 = p2
  g1 = g1
  g2 = g2
  NoPayment = NoPayment
  Payments <- OnePayment
  Gateways <- TwoGateways
  OtherPayments = FALSE
  SettlementEnabled = TRUE
  SagaTimeout = 1
  ReservationTTL = 2
  FaultKinds <- SlowSagas
  MaxFaults = 0
  LastSubmit = 0
  MaxTime = 3
SPECIFICATION Spec
CHECK_DEADLOCK FALSE
INVARIANT ReleasedAtMostOnce
