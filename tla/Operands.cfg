SPECIFICATION Spec
CONSTANTS
  MaxFloat = 8
  MaxRepeatCount = 4
  Applications <- MCApplications
  Supplied <- MCSupplied
INVARIANTS DataDecides OperatorLaws ListLaws
PROPERTIES ErrorsAreFinal ValuesAreFinal
CHECK_DEADLOCK FALSE
