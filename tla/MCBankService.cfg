SPECIFICATION Spec
CONSTANTS
  Accounts = {"a", "b", "c"}
  Seeded = {"a", "b"}
  SeedBalance = 2
  NewBalances <- MCNewBalances
  Payments <- MCPayments
  Source <- MCSource
  Dest <- MCDest
  Amount <- MCAmount
  Sweepers = {g1, g2}
  MaxFaults = 1
  MaxAdmin = 1
  MaxSweeps = 2
SYMMETRY SweepersAlike
INVARIANTS
  TypeOK
  BalancesMatchSagas
  RecordIsOfAHold
CHECK_DEADLOCK FALSE
