SPECIFICATION Spec
CONSTANTS
  m1 = m1 m2 = m2 t1 = t1 d1 = d1 d2 = d2 de = de en = en
  live = live dead = dead o1 = o1 o2 = o2 w = w c = c
  Absent = Absent RegularFile = RegularFile NoFile = NoFile NoInfo = NoInfo
  Pending = Pending Stray = Stray
  Scanner = {w} Media = {m1} Sidecar = {t1} Dir = {d1} DirOf <- OneDir
  SidecarsOf <- OneSub Output = {o1} Content = {de, en}
  Foreign = {live, dead} LiveForeign = {live}
  Indexed = {}
  MountStates = {"up", "missing", "empty", "stray"} Modes = {"scan", "clean"}
  FilterChoices <- German MinCount = 1 MaxPercent = 50
  Events <- AllEvents UserDuringScan = FALSE
  MaxClock = 2 MaxBudget = 2
INVARIANTS ScanConverges ChangesReported CancelledKeepsLinks UnmountedKeepsLinks
PROPERTIES WantedLinksStay RegularFilesStay LiveForeignStay
