SPECIFICATION Spec
CONSTANTS
  o1 = o1  o2 = o2  s1 = s1  u1 = u1  u2 = u2  c1 = c1  c2 = c2
  Null = Null
  Users = {o1}
  Servers = {s1}
  Usernames = {u1, u2}
  Contents = {c1, c2}
  Specs <- OneUserSpecs
  MaxId = 2
  MaxEdits = 2
  MaxFaults = 1
  MaxClock = 2
INVARIANTS TypeOK NoSilentOrphan
PROPERTIES SyncedMeansApplied DeletesOnlyTheDeleted KeepsLedger
CHECK_DEADLOCK FALSE
