SPECIFICATION Spec
CONSTANTS
  Users = {"admin", "own"}
  Replicas = {"n1"}
  TokenTTL = 1
  MaxTime = 3
  Banks = {"b1"}
  Certs = {"c1", "c2"}
  Requests = {r1, r2}
  NoBank = NoBank
  NoRequest = NoRequest
  Role <- MCRole
  ParticipantID <- MCParticipantID
  InitialStatus = {"NONE", "SANDBOX", "SUSPENDED"}
  Registered <- MCRegistered
  MaxFaults = 1
INVARIANTS
  TypeOK
  AuditMatchesChanges
  OneWinner
PROPERTIES
  ImplementsBankLifecycle
  TokenLivesUntilExpiry
  RequestEnds
CHECK_DEADLOCK FALSE
