SPECIFICATION FairSpec
CONSTANTS
  s1 = s1  None = None  NoName = NoName  Other = Other  Foreign = Foreign
  Names = {s1}
  Ports = {9090}
  Secrets <- MCSecrets
  Sizes = {"20Gi", "20GB"}
  InvalidSizes = {"20GB"}
  Specs <- VolumeSpecs
  Loose = {}
  PodCounts <- MCNoPods
  MaxUid = 2
  MaxEdits = 2
  MaxFaults = 1
PROPERTIES ChildrenConverge ChildrenCollected ServerGoes KeepsOwnership
CHECK_DEADLOCK FALSE
