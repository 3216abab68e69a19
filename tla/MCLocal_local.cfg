CONSTANTS
  Width = 2 Block <- MCBlock ByteMod = 2 MaxPrefixes = 2
  Address = {0, 1} Length = {0, 1, 2, 3} Hop = {1, 2} Segments <- MCSegments
  Half = 16 MaxCode = 16 KernelSize = 7 StackBase = 8 HexTable <- MCHexTable Pattern = 165 BitXor <- MCXor BitOr <- MCOr
  Garbage = {0, 9} Trees <- MCTrees Programs <- MCPrograms
  GAUGE_EXEC_SLOTS = 3 GAUGE_EVAL_MAX = 2 Table <- MCTable Entries <- MCEntries SlideCodes <- MCSlideCodes
  MaxChanges = 2
SPECIFICATION MCSpec
CHECK_DEADLOCK FALSE
INVARIANTS OmionTypeOK UniquePrefixes CpuTypeOK StackHolds HaltIsMeant CompiledValue ReturnIsWhole
PROPERTIES MapSpec
