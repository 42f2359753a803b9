SPECIFICATION Spec
CONSTANTS
  MaxParseDepth = 8
  Files <- MCFiles
INVARIANTS ReadAsMeant OutputReparses EveryPairNeeded CommentsKeptOnce LiteralKept
PROPERTY SecondFormatIsFirst
