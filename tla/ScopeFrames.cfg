SPECIFICATION Spec
CONSTANTS
  x = x  v = v
  Names <- MCNames
  Values <- MCValues
  Addr <- MCAddr
  Unbound = Unbound
  Kept = Kept
  None = None
  MaxHandles = 4
PROPERTIES ImplementsLexicalFrames CapturesKeepTheirBindings
CHECK_DEADLOCK FALSE
