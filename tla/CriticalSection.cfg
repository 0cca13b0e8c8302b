SPECIFICATION FairSpec
CONSTANTS
  t1 = t1
  t2 = t2
  t3 = t3
  t4 = t4
  t5 = t5
  t6 = t6
  NoThread = NoThread
  Thread = {t1, t2, t3, t4, t5}
  MaxNest = 3
INVARIANTS MutualExclusion RwlockCountsHolders NoWriterWhileDemoted NoLostWakeup
PROPERTY EveryoneServed
