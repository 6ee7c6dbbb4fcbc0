SPECIFICATION Spec
CONSTANTS
  Ports = {8080, 9090}
  Secrets <- MCSecrets
  Sizes = {"20Gi"}
  UserSpecs <- MCUserSpecs
  Limits = {0, 1, 1023, 1024, 2047}
  None = None
  NoName = NoName
  Missing = Missing
INVARIANTS OnlyZeroIsUnlimited
