SPECIFICATION Spec
CONSTANTS
  NumNodes = 2
  PingHost = TRUE
  MaxPingCheck = 1
  MaxWaitForNewMaster = 1
  MaxTroubles = 1
INVARIANTS
  TypeOK
  AtMostOneMaster
  AtMostOneActive
PROPERTIES
  OneMasterAgain
