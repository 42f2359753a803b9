SPECIFICATION FairSpec
CONSTANTS
  a = a  b = b  c = c  d = d
  Decls <- MCDecls
  MaxRefinementPasses = 8
INVARIANTS TypeOK NoDeclarationDropped PassesBounded
PROPERTY Terminates
