SPECIFICATION Spec
CONSTANTS
  Given <- MCGiven
  Atoms <- MCAtoms
  Exact = 100000
INVARIANTS MeaningKept OneResult
