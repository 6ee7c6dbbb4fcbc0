SPECIFICATION ReadyFairSpec
CONSTANTS
  o1 = o1  o2 = o2  s1 = s1  u1 = u1  u2 = u2  c1 = c1  c2 = c2
  Null = Null
  Users = {o1, o2}
  Servers = {s1}
  Usernames = {u1}
  Contents = {c1, c2}
  Specs <- SharedSpecs
  MaxId = 1
  MaxEdits = 2
  MaxFaults = 0
  MaxClock = 1
INVARIANTS NoSilentOrphan
PROPERTIES SyncedMeansApplied Converges OwnersDecide
CHECK_DEADLOCK FALSE
