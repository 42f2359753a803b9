SPECIFICATION Spec
CONSTANTS
  Names <- MCNames
  Merges <- MCMerges
  Shared <- MCShared
  LargeSets <- MCLarge
  MaxPasses = 7
  MaxSweeps = 6
INVARIANTS SettledFieldsAreDerived GeneratedAsDecided SettlesWithoutCap
