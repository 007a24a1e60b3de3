SPECIFICATION SideSpec
CONSTANTS
  read = read
  pay = pay
  connect = connect
  Null = Null
  Calls = {read, pay, connect}
  Risky = {pay}
  Connects = {connect}
  Cap = 3
  ProjectCap = 4
  RepeatLimit = 3
  Invocations = {r1, r2}
  MaxPresses = 3
  MaxCrashes = 1
  Tasks = {daily}
  SystemTasks = {}
  Members = {ana}
  Requests = {q1}
  Replicas = {r1, r2}
  Crons <- OneOrTwo
  MinInterval = 1
  ClaimLimit = 1
  HomeChannel = TRUE
  MaxTime = 3
  MaxRuns = 3
  MaxErrors = 1
  MaxOps = 0
  Users = {r1, r2}
  Names = {n1}
  Fires = {1, 2}
  MaxIds = 2
  MaxSecrets = 2
  MaxFaults = 1
SYMMETRY Symmetry
INVARIANTS TypeOK RiskyIsApproved ExecutedAtMostOnce CapHolds LoopIsBroken
INVARIANTS CallsAreAnswered NobodyIsStranded OneFirePerInstant OneShotDisarmed RunningMeansRunning
INVARIANTS NoOrphanTrigger RunRowIsTrue BooksAgree
CHECK_DEADLOCK FALSE
