SPECIFICATION Spec
CONSTANTS
  t1 = t1
  t2 = t2
  t3 = t3
  Tran = {t1, t2}
  LOG_SYSTEM_TRANID = sys
  MaxItems = 1
  MaxTopops = 0
  EmptySystemOps = FALSE
  MaxMasterCrashes = 1
  MaxMasterRestarts = 1
  MaxStateChanges = 0
  UnlockedCrash = FALSE
  RecordsPerPage = 8
  MaxRefetches = 0
  LA_MAX_REPL_ITEMS = 1
  MaxUpdateErrors = 1
  MaxUnilateralAborts = 0
  MaxRejects = 1
  MaxApplierCrashes = 1
SYMMETRY Symm
INVARIANTS NoItemPassedOver 
