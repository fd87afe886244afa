CONSTANTS
  N = 5
  Hole = {4}
  Flaky = {1, 2, 3}
  Modes = {"keepopen", "reopen"}
  Kernels = {"flag", "sample"}
SPECIFICATION FairSpec
INVARIANTS NeverGood BadMeansLost LossIsNoticed
PROPERTY Terminates
CHECK_DEADLOCK FALSE
