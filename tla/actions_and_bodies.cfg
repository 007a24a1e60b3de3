SPECIFICATION SideSpec
CONSTANTS
  Members = {m1}
  System = system
  Sweepers = {m1}
  Accounts = {a1, a2}
  Null = Null
  MaxWindows = 2
  MaxSchema = 2
  Lifetime = 1
  MaxChanges = 2
  Writers = {a1, a2}
  Facts = {s1, s2, s3}
  Attempts = 2
  Threshold = 0
  Cap = 2
  MaxVersion = 3
  MaxFaults = 1
SYMMETRY Symmetry
INVARIANTS SweepIsTrue Remembered
PROPERTIES OthersCredentials SchemaLags
CHECK_DEADLOCK FALSE
