SPECIFICATION Spec
CONSTANTS
  m1 = m1
  m2 = m2
  c1 = c1
  c2 = c2
  r1 = r1
  r2 = r2
  Files <- SixFiles
  Models = {m1, m2}
  Globs <- TwoGlobs
  BadPatterns = {"["}
  NoFile = NoFile
  NoDefault = NoDefault
  Wanted <- OneEach
  Reloaders = {a1, a2}
  Viewers = {v1}
  MaxEdits = 2
  Requests = {r1, r2}
  Workloads <- ThreeWorkloads
  Pollers = {p1, p2}
  SlotCount = 2
  SlotDur = 1
  CacheTTL = 1
  MaxTime = 2
SYMMETRY Symmetry
INVARIANTS
  ChainsFollowFile
  
  AnswersFresh
  SeriesExact
  
