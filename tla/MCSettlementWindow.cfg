CONSTANTS
  Payments <- FourPayments
  Banks <- ThreeBanks
  EntryOf <- FourEntries
  MaxSize = 2
  LedgerEnabled = TRUE
  MaxFaults = 1
SPECIFICATION FairSpec
INVARIANTS TypeOK KeptExactlyOnce NettingIsExact LedgerMirrorsBatch StopSettlesAll
PROPERTIES SettledOnce FullWindowSettles
CHECK_DEADLOCK FALSE
