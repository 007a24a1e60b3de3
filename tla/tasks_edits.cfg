SPECIFICATION FairSpec
CONSTANTS
  brief = brief
  local = local
  ana = ana
  r1 = r1
  q1 = q1
  q2 = q2
  Null = Null
  Tasks <- LocalAndBrief
  SystemTasks <- JustBrief
  Members = {ana}
  Requests = {q1, q2}
  Replicas = {r1}
  Crons <- Every
  MinInterval = 1
  ClaimLimit = 1
  HomeChannel = FALSE
  MaxTime = 1
  MaxRuns = 2
  MaxCrashes = 1
  MaxErrors = 1
  MaxOps = 2
PROPERTY DueIsClaimed
PROPERTY RunIsFinished
CHECK_DEADLOCK FALSE
