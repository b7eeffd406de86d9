SPECIFICATION SchedSpec
CONSTANTS
  NumTargets = 4
  NumProbers = 2
  MaxConcurrent = 3
INVARIANTS
  WindowStaysFull
  OutcomesConserved
  SentIsPrefix
PROPERTY
  ScanEnds
