SPECIFICATION Spec
CONSTANTS
  Probes <- MCProbes
  Targets <- MCTargets
  Timeout = 2
  Retries = 1
  Count = 2
  Pause = 1
  MaxAnswers = 1
INVARIANT
  AbsenceIsTimeout
