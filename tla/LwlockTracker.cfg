CONSTANTS
  Pids = {p1, p2}
  Locks = {l1, l2}
  NoPid = NoPid
  NoLock = NoLock
  Options <- SomeOptions
  MaxOps = 3
  MaxWaits = 2
  Tweakable = {"track_blockers"}
  MaxTweaks = 1
SPECIFICATION Spec
SYMMETRY Symmetry
CONSTRAINT FewerCalls
INVARIANTS TypeOK SanityHolds TablesAgree ExitForgets SamplesAddUp
CHECK_DEADLOCK FALSE
