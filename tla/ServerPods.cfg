SPECIFICATION FairSpec
CONSTANTS
  s1 = s1  None = None  NoName = NoName  Other = Other  Foreign = Foreign
  Names = {s1}
  Ports = {9090}
  Secrets <- MCSecrets
  Sizes = {"20Gi", "20GB"}
  InvalidSizes = {"20GB"}
  Specs <- OneSpec
  Loose = {"Deployment"}
  PodCounts <- MCPods
  MaxUid = 1
  MaxEdits = 1
  MaxFaults = 0
PROPERTIES PodsReported ChildrenConverge
CHECK_DEADLOCK FALSE
