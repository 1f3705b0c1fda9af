CONSTANTS
  Payments <- FourPayments
  Banks <- ThreeBanks
  EntryOf <- FourEntries
  MaxSize = 2
  LedgerEnabled = TRUE
  MaxFaults = 1
SPECIFICATION Spec
INVARIANT AcceptedIsKept
CHECK_DEADLOCK FALSE
