SPECIFICATION StreamsSpec
CONSTANTS
  Targets <- MCTargets
  MaxTargets = 4
  Canon <- MCCanon
  MacRole <- MCMacRole
  MibTable <- MCMibTable
  VrrpGroups <- MCVrrpGroups
  MaxBucket = 3
  IncludeUnreachable = FALSE
  Baseline = 6
  PerSignal = 1
  Lower <- MCLower
  AddrOf <- MCAddrOf
  PlatformRules <- MCPlatformRules
  RoleRules <- MCRoleRules
  Renderable <- MCRenderable
  PathTable <- MCPathTable
INVARIANTS
  StreamsJoin
  ComponentsExact
  BucketsLoseNothing
  MergeAsDocumented
