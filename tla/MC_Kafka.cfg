SPECIFICATION Spec
CONSTANTS
  a = a
  b = b
  NoScan = NoScan
  Scans = {a, b}
  Load <- MCLoad
  Configs <- MCConfigs
  MaxTimeouts = 1
INVARIANTS
  NothingDropped
  OkMeansTaken
  DeliveredFlagHonest
