SPECIFICATION Spec
CONSTANTS
  a = a
  b = b
  NoScan = NoScan
  Scans = {a, b}
  Load <- MCLoad
  Configs <- MCBatched
  MaxTimeouts = 1
  MaxPendingAcks = 2
  AckPermits = 2
INVARIANTS
  OkMeansTaken
