CONSTANTS
  Tran = {t1, t2}
  Page = {p1}
  NoTran = NoTran
  Races = {}
  Budget <- Scenarios
SPECIFICATION Spec
SYMMETRY Symm
INVARIANTS WriteAhead    
CHECK_DEADLOCK FALSE
