SPECIFICATION Spec
CONSTANTS
  s1 = s1  None = None  NoName = NoName  Other = Other  Foreign = Foreign
  Names = {s1}
  Ports = {9090}
  Secrets <- MCSecrets
  Sizes = {"20Gi", "20GB"}
  InvalidSizes = {"20GB"}
  Specs <- PortSpecs
  Loose = {"Service"}
  PodCounts <- MCNoPods
  MaxUid = 2
  MaxEdits = 3
  MaxFaults = 1
INVARIANTS TypeOK
PROPERTIES ReadyMeansDeployed OthersUntouched OwnersDecide
CHECK_DEADLOCK FALSE
