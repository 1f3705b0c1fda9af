SPECIFICATION Spec
CONSTANTS
  Requests = {"r1", "r2"}
  Participants <- MCParticipants
  Senders <- MCSenders
  Bodies <- MCBodies
  Dates = {"today", "d1"}
  Stamps <- MCStamps
  Char3 <- MCChar3
  Char4 <- MCChar4
  Names <- MCNames
  SettlementEnabled = TRUE
  Callers <- MCCallers
  SeedRoutes <- MCSeedRoutes
  NewFee = 130
  DayLength = 2
  WindowDays = 1
  CacheTTL = 1
  QuoteTTL = 1
  SagaTimeout = 1
  MaxTime = 2
  MaxEvents = 1
INVARIANTS
  TypeOK
  RetryIsSafe
  RowKeepsRequest
  LookupStalenessBounded
  OutcomeReported
  ViewsAgree
PROPERTIES
  WalkMissesNothing
CHECK_DEADLOCK FALSE
