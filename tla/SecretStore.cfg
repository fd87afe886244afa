CONSTANTS
  Procs = {p1, p2, p3}
  Orig = Orig
  NoFile = NoFile
  MaxCrashes = 2
SYMMETRY Symmetry
SPECIFICATION Spec
INVARIANTS OriginalsSurvive DoneIsDurable NoSpuriousFailure NoTmpLeftBehind
CHECK_DEADLOCK FALSE
