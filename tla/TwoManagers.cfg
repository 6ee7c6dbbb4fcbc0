SPECIFICATION Spec
CONSTANTS
  o1 = o1  s1 = s1  u1 = u1  c1 = c1
  Null = Null
  Users = {o1}
  Servers = {s1}
  Usernames = {u1}
  Contents = {c1}
  Specs <- OneSpec
  MaxId = 1
  MaxEdits = 1
  MaxFaults = 0
  MaxClock = 1
INVARIANTS NoOrphanOfTwo
CHECK_DEADLOCK FALSE
