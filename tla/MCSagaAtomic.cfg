CONSTANTS
  p1 = p1
  p2 = p2
  g1 = g1
  g2 = g2
  NoPayment = NoPayment
  Payments <- TwoPayments
  Gateways <- OneGateway
  OtherPayments = FALSE
  SettlementEnabled = TRUE
  SagaTimeout = 1
  ReservationTTL = 2
  FaultKinds <- NoFaults
  MaxFaults = 0
  LastSubmit = 0
  MaxTime = 0
SYMMETRY Symmetry
SPECIFICATION Spec
INVARIANTS TypeOK CreditIsFunded OutcomeAtomic
CHECK_DEADLOCK FALSE
