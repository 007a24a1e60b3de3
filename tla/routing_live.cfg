SPECIFICATION FairSpec
CONSTANTS
  m1 = m1
  m2 = m2
  m3 = m3
  Msg = {m1, m2, m3}
  Kind <- DmsAndStatus
  Worker = {w1}
  Task = {t1, t2, t3}
  MaxDeliveries = 1
  MaxResumes = 0
  MaxCrashes = 0
  Faults = {}
  Outcomes = {"end"}
  None = None
PROPERTIES LockIsPassedOn QueuedBeforeReleaseIsTaken
CHECK_DEADLOCK FALSE
