SPECIFICATION FairSpec
CONSTANTS
  NumTrans = 3
  Res = {"class", "instance"}
  ModesOf <- ClassAndInstance
  CanTimeout = {1}
  MaxRequests <- Requests
  MaxWakeups = 1
  Races = {"stale"}
INVARIANT HoldersCompatible
CHECK_DEADLOCK FALSE
