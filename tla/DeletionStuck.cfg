SPECIFICATION FairSpec
CONSTANTS
  o1 = o1  o2 = o2  s1 = s1  u1 = u1  u2 = u2  c1 = c1  c2 = c2
  Null = Null
  Users = {o1}
  Servers = {s1}
  Usernames = {u1, u2}
  Contents = {c1, c2}
  Specs <- FairSpecs
  MaxId = 2
  MaxEdits = 1
  MaxFaults = 0
  MaxClock = 1
PROPERTIES DeletionCompletes
CHECK_DEADLOCK FALSE
