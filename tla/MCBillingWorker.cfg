SPECIFICATION FairSpec
CONSTANTS
  r1 = r1
  r2 = r2
  r3 = r3
  april = april
  may = may
  Requests = {r1, r2, r3}
  MonthOf <- TwoMonths
  Workers = {w1, w2}
  NoEvent = NoEvent
  BufferSize = 2
INVARIANTS
  WrittenOnce
  PartitionCacheSound
  CleanStopFlushes
  GracefulMeansNoPanic
PROPERTIES
  
  WorkersExit
