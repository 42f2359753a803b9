CONSTANTS
  a = a
  b = b
  Texts <- MCTexts
  NoText = NoText
  NoId = NoId
  MaxNodes = 3
  MaxScopes = 2
  MaxRefs = 1
SPECIFICATION Spec
SYMMETRY TextSymmetry
INVARIANTS TypeOK StringIndexSound NoDanglingReference SharedBooleansUnannotated
PROPERTY ImplementsTransactionalStore
CHECK_DEADLOCK FALSE
