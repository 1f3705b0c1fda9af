-------------------------- MODULE MCPaymentSaga ---------------------------
(***************************************************************************)
(* Instances of PaymentSaga for TLC.                                       *)
(***************************************************************************)
EXTENDS PaymentSaga, TLC

CONSTANTS p1, p2, g1, g2

OnePayment  == {p1}
TwoPayments == {p1, p2}
OneGateway  == {g1}
TwoGateways == {g1, g2}

NoFaults       == {}
SlowSagas      == {"deadline"}
DbFaults       == {"db"}
AnyFaultButAck == AllFaultKinds \ {"ack"}
AnyFault       == AllFaultKinds

Symmetry == Permutations(Payments) \cup Permutations(Gateways)
===========================================================================
