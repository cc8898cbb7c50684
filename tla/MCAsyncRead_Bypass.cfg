\* A single-segment message declaring more words than the traversal limit.
CONSTANTS
  ByteBits = 1
  UsizeBits = 8
  MaxSegments = 4
  TraversalLimit = 2
  MaxInterrupts = 0
  Inputs <- BypassInputs
SPECIFICATION Spec
INVARIANTS
  AllocationWithinLimit
CHECK_DEADLOCK FALSE
