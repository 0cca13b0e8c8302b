SPECIFICATION Spec
CONSTANTS
  Client = {c1, c2}
  Applier = {a1}
  MaxRequests = 4
  MaxDrops = 2
  MaxVisits = 3
INVARIANTS
  StandbyDisablesUpdates
PROPERTIES
  
  PromotionCompletes
CHECK_DEADLOCK FALSE
