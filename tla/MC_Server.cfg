SPECIFICATION Spec
CONSTANTS
  r1 = r1
  r2 = r2
  Requests = {r1, r2}
  MaxInflight = 1
  Interval = 1
  ProbeTimeout = 1
  Quarantine = 1
  HardTimeout = 1
  ReadSteps = {7}
INVARIANTS
  AdmissionBounded
  GaugeExact
  OutcomeCountedOnce
  StallsOnlyInFileReads
  LockOwnersAlive
PROPERTIES
  ReadyAgain
  OutageReported
  ExitsAfterSignal
  LoggersEnd
