SPECIFICATION Spec
CONSTANTS
  Sections <- MCSections
  Names <- MCNames
  Structs <- MCStructs
INVARIANTS EachFieldOnce ReadersAfterWhatTheyRead
