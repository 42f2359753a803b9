SPECIFICATION Spec
CONSTANTS
  Order <- MCOrder
  External = "x"
  Programs <- MCPrograms
  MaxUnresolvedDepth = 16
INVARIANTS SettlesToMeaning NoBuriedPartial
PROPERTIES ImplementsPassLoop BindingsOnlyGrow
