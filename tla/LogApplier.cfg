SPECIFICATION Spec
CONSTANTS
  t1 = t1
  t2 = t2
  t3 = t3
  Tran = {t1, t2}
  LOG_SYSTEM_TRANID = sys
  MaxItems = 2
  MaxTopops = 0
  EmptySystemOps = FALSE
  MaxMasterCrashes = 0
  MaxMasterRestarts = 0
  MaxStateChanges = 0
  UnlockedCrash = FALSE
  RecordsPerPage = 3
  MaxRefetches = 0
  LA_MAX_REPL_ITEMS = 1
  MaxUpdateErrors = 0
  MaxUnilateralAborts = 0
  MaxRejects = 0
  MaxApplierCrashes = 1
SYMMETRY Symm
INVARIANTS TypeOK AppliedInUnlockOrder NoItemPassedOver RequiredCoversUnapplied
PROPERTIES  RequiredNeverGoesBack
