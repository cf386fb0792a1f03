SPECIFICATION Spec
CONSTANTS
  m1 = m1 m2 = m2 t1 = t1 d1 = d1 d2 = d2 de = de en = en
  live = live dead = dead o1 = o1 o2 = o2 w = w c = c
  Absent = Absent RegularFile = RegularFile NoFile = NoFile NoInfo = NoInfo
  Pending = Pending Stray = Stray
  Scanner = {w} Media = {m1, m2} Sidecar = {} Dir = {d1, d2} DirOf <- TwoDirs
  SidecarsOf <- NoSubs Output = {o1} Content = {de, en}
  Foreign = {} LiveForeign = {}
  Indexed = {m2}
  MountStates = {"up", "empty"} Modes = {"scan"}
  FilterChoices <- AnyFilter MinCount = 1 MaxPercent = 50
  Events = {"media", "filters", "mount", "walk", "crash"} UserDuringScan = FALSE
  MaxClock = 2 MaxBudget = 2
INVARIANTS ScanConverges
