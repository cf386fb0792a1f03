SPECIFICATION Spec
CONSTANTS
  f1 = f1 f2 = f2 s1 = s1 s2 = s2 daemon = daemon command = command
  None = None Unreadable = Unreadable
  File = {f1} Stamp = {s1, s2} Process = {daemon, command}
  Limit = 2 MaxFiles = 2 MaxScans = 3
SYMMETRY Users
INVARIANTS DatabaseIsSound
PROPERTIES ActsAsMemory
CHECK_DEADLOCK FALSE
