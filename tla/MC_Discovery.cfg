SPECIFICATION Spec
CONSTANTS
  NumTargets = 4
  NumProbers = 2
  MaxConcurrent = 3
  Interval = 2
  Silent = {1}
  MaxFaults = 4
INVARIANTS
  CheckpointNeverAhead
  CompleteMeansDelivered
  CancelLeavesBoundary
PROPERTIES
  CheckpointMonotone
  ScanCompletes
  DeliversAsPromised
