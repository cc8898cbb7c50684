\* The decoder at a segment bound of 5, so that the largest legal count is
\* even and its padded table is split by WouldBlock (64-bit target).
CONSTANTS
  ByteBits = 1
  UsizeBits = 8
  MaxSegments = 5
  TraversalLimit = 2
  MaxInterrupts = 1
  Inputs <- Max5Inputs
SPECIFICATION Spec
INVARIANTS
  FramingIntegrity
  FailureJustified
PROPERTIES
  Terminates
\* A decode ends: complete, failed, panicked or dropped.
CHECK_DEADLOCK FALSE
