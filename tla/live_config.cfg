SPECIFICATION FairSpec
CONSTANTS
  nightly = nightly hourly = hourly sqlite = sqlite other = other plain = plain file = file
  port = port alt = alt r1 = r1
  None = None Config <- Saved
  Schedule = {nightly, hourly} Database = {sqlite, other} Logging = {plain, file} Listener = {port, alt}
  Reader = {r1} MaxSaves = 2 MaxDisk = 1 MaxScans = 2
CHECK_DEADLOCK FALSE
INVARIANTS CleanSavesAreApplied ScheduleRuns ScanStoreIsOpen ServedIsCurrent
PROPERTIES SavesFinish
