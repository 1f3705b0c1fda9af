CONSTANTS
  p1 = p1
  p2 = p2
  g1 = g1
  g2 = g2
  NoPayment = NoPayment
  Payments <- OnePayment
  Gateways <- OneGateway
  OtherPayments = TRUE
  SettlementEnabled = TRUE
  SagaTimeout = 1
  ReservationTTL = 2
  FaultKinds <- AnyFaultButAck
  MaxFaults = 2
  LastSubmit = 0
  MaxTime = 3
SPECIFICATION Spec
INVARIANTS SweptSagaIsDead PaidMeansPaid EventTracksRow
CHECK_DEADLOCK FALSE
