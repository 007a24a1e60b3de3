SPECIFICATION Spec
CONSTANTS
  m1 = m1
  m2 = m2
  m3 = m3
  Msg = {m1, m2, m3}
  Kind <- Mixed
  Worker = {w1, w2}
  Task = {t1, t2, t3}
  MaxDeliveries = 2
  MaxResumes = 0
  MaxCrashes = 1
  Faults = {"connect", "db", "post"}
  Outcomes = {"end", "error", "blocked"}
  None = None
SYMMETRY Symmetry
INVARIANTS TypeOK LockMatchesPhase OneLockedRun AtMostOnce OnePlace
PROPERTY KeepsPromise
CHECK_DEADLOCK FALSE
