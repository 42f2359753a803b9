SPECIFICATION Spec
CONSTANTS
  Programs <- MCPending
  Contents = {1, 2, 3}
  TooLarge = {}
INVARIANT PendingNotFailed
