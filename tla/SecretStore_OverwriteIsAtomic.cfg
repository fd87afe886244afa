CONSTANTS
  Procs = {p1, p2}
  Orig = Orig
  NoFile = NoFile
  MaxCrashes = 0
SPECIFICATION Spec
INVARIANT OverwriteIsAtomic
CHECK_DEADLOCK FALSE
