SPECIFICATION SideSpec
CONSTANTS
  Null = Null
  People = {p1, p2}
  Orgs = {o1, o2}
  Calls = {c1, c2}
  MaxChanges = 1
  MaxBegun = 3
  MaxFaults = 1
  Users = {p1, p2}
  Names = {o1, o2}
  MaxFiles = 1
  MaxSkills = 2
SYMMETRY Symmetry
INVARIANTS ToldIsInstalled OneFileOneSkill
INVARIANTS OneOrg
CHECK_DEADLOCK FALSE
