SPECIFICATION FairSpec
CONSTANTS
  t1 = t1
  t2 = t2
  Tran = {t1, t2}
  LOG_SYSTEM_TRANID = sys
  MaxItems = 1
  MaxTopops = 0
  EmptySystemOps = FALSE
  MaxMasterCrashes = 0
  MaxMasterRestarts = 0
  MaxStateChanges = 0
  UnlockedCrash = FALSE
  RecordsPerPage = 8
  MaxRefetches = 1
  LA_MAX_REPL_ITEMS = 2
  MaxUpdateErrors = 0
  MaxUnilateralAborts = 0
  MaxRejects = 0
  MaxApplierCrashes = 0
PROPERTIES ImplementsReplica SlaveCatchesUp
