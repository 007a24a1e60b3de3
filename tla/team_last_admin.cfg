SPECIFICATION Spec
CONSTANTS
  Null = Null
  People = {p1, p2}
  Orgs = {o1, o2}
  Calls = {c1, c2}
  MaxChanges = 1
  MaxBegun = 3
  MaxFaults = 1
SYMMETRY Symmetry
PROPERTY DemotionLeavesAdmin
CHECK_DEADLOCK FALSE
