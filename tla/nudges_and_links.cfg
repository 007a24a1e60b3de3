SPECIFICATION SideSpec
CONSTANTS
  f1 = f1
  f2 = f2
  crm = crm
  turn = turn
  promise = promise
  r1 = r1
  r2 = r2
  Null = Null
  Rows = {f1, f2}
  Runs = {crm, turn, promise}
  Connections = {crm}
  Promises = {promise}
  Replicas = {r1, r2}
  MaxNudges = 2
  BatchSize = 1
  Wait = 1
  MaxTime = 2
  MaxFaults = 1
  Askers = {q1}
  Owners = {o1}
  Accounts = {a1}
  Providers = {composio}
  Tasks = {t1, t2}
  MaxBreaks = 1
PROPERTIES SentIsFinal DueIsHandled PendingSettles LinkIsAnswered
CHECK_DEADLOCK FALSE
