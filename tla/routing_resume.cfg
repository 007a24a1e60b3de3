SPECIFICATION Spec
CONSTANTS
  m1 = m1
  m2 = m2
  m3 = m3
  Msg = {m1, m2, m3}
  Kind <- DmsAndNudge
  Worker = {w1}
  Task = {t1, t2, t3}
  MaxDeliveries = 1
  MaxResumes = 2
  MaxCrashes = 0
  Faults = {}
  Outcomes = {"end", "interrupt", "error", "blocked"}
  None = None
SYMMETRY TaskSymmetry
INVARIANT NothingForgotten
CHECK_DEADLOCK FALSE
