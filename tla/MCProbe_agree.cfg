CONSTANTS
  a = a b = b
  Node <- MCNode
  Initiators = {a, b}
  Capability <- MCCapability
  Posted = {"NOP", "SEAL", "GAUGE_INVOKE"}
  BufSlots = 2 MaxAttempts = 3
  MaxCalls = 4 MaxLost = 1 MaxRestarts = 1
SPECIFICATION FairSpec
INVARIANTS TypeOK CommittedAgree StuckOnlyIfCommitted
PROPERTIES Quiesces
CHECK_DEADLOCK FALSE
