SPECIFICATION Spec
CONSTANTS
  t1 = t1
  t2 = t2
  t3 = t3
  Tran = {t1, t2}
  LOG_SYSTEM_TRANID = sys
  MaxItems = 1
  MaxTopops = 1
  EmptySystemOps = TRUE
  MaxMasterCrashes = 0
  MaxMasterRestarts = 0
  MaxStateChanges = 0
  UnlockedCrash = FALSE
  RecordsPerPage = 10
  MaxRefetches = 0
  LA_MAX_REPL_ITEMS = 1
  MaxUpdateErrors = 0
  MaxUnilateralAborts = 1
  MaxRejects = 0
  MaxApplierCrashes = 0
SYMMETRY Symm
INVARIANTS AppliedInUnlockOrder OnlyTopopeLeavesItems
