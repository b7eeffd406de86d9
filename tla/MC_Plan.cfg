SPECIFICATION Spec
CONSTANTS
  MaxAddr = 15
  UsizeMax = 7
  HostLimit = 5
  MaxTotalHosts = 6
  ReportedOverlaps = 2
  Inputs <- MCInputs
  Answers6 <- MCAnswers6
  Answers4 <- MCAnswers4
INVARIANTS
  OverlapsExact
  GuardExact
  HostsExact
  ReplayFaithful
  SweepExact
PROPERTY
  FailureNeverSkips
