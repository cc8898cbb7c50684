\* Decoder against well-formed, truncated and malformed streams on a
\* platform whose usize is wider than a u32 total (64-bit).
CONSTANTS
  ByteBits = 1
  UsizeBits = 8
  MaxSegments = 4
  TraversalLimit = 2
  MaxInterrupts = 1
  Inputs <- MCInputs
SPECIFICATION Spec
INVARIANTS
  TypeOK
  FramingIntegrity
  FailureJustified
  NoPanic
PROPERTIES
  Terminates
\* A decode ends: complete, failed, panicked or dropped.
CHECK_DEADLOCK FALSE
