SPECIFICATION Spec
CONSTANTS
  Programs <- MCPrograms
  Contents = {1, 2, 3}
  TooLarge <- MCTooLarge
INVARIANTS AlternativesKept PreferenceKept NoCopies
