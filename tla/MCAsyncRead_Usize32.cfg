\* A two-segment table whose total overflows a usize as wide as a u32
\* (a 32-bit target), in a release build.
CONSTANTS
  ByteBits = 1
  UsizeBits = 4
  MaxSegments = 4
  TraversalLimit = 2
  MaxInterrupts = 0
  Inputs <- OverflowInputs
SPECIFICATION Spec
INVARIANTS
  NoPanic
CHECK_DEADLOCK FALSE
