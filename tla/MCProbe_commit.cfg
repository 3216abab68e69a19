CONSTANTS
  a = a b = b
  Node <- MCNode
  Initiators = {a}
  Capability <- MCCapability
  Posted = {"NOP"}
  BufSlots = 6 MaxAttempts = 4
  MaxCalls = 2 MaxLost = 0 MaxRestarts = 0
SPECIFICATION Spec
INVARIANTS CommitAnswered
CHECK_DEADLOCK FALSE
