SPECIFICATION Spec
CONSTANTS
  r1 = r1
  r2 = r2
  Requests = {r1, r2}
  MaxInflight = 1
  Interval = 2
  ProbeTimeout = 1
  Quarantine = 1
  HardTimeout = 1
  ReadSteps = {1}
INVARIANT
  DrainHardCapped
