SPECIFICATION FairSpec
CONSTANTS
  NumTrans = 3
  Res = {"class", "instance"}
  ModesOf <- ClassAndInstance
  CanTimeout = {1}
  MaxRequests <- Requests
  MaxWakeups = 1
  Races = {}
INVARIANTS TypeOK HoldersCompatible TotalsExact WaitsAreSeen
CHECK_DEADLOCK FALSE
 
