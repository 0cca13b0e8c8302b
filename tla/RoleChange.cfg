SPECIFICATION FairSpec
CONSTANTS
  t1 = t1
  t2 = t2
  Tran = {t1}
  LOG_SYSTEM_TRANID = sys
  MaxItems = 2
  MaxTopops = 0
  EmptySystemOps = FALSE
  MaxMasterCrashes = 1
  MaxMasterRestarts = 1
  MaxStateChanges = 2
  UnlockedCrash = FALSE
  RecordsPerPage = 3
  MaxRefetches = 0
  LA_MAX_REPL_ITEMS = 1
  MaxUpdateErrors = 0
  MaxUnilateralAborts = 0
  MaxRejects = 0
  MaxApplierCrashes = 1
INVARIANT RowHonest
PROPERTIES  SlaveCatchesUp
