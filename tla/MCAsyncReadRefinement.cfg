\* The decoder refines MessageFraming on a 64-bit target.
CONSTANTS
  ByteBits = 1
  UsizeBits = 8
  MaxSegments = 4
  TraversalLimit = 2
  MaxInterrupts = 1
  Inputs <- RefinementInputs
SPECIFICATION Spec
PROPERTIES
  Refinement
\* A decode ends: complete, failed, panicked or dropped.
CHECK_DEADLOCK FALSE
