\* A caller that re-enters a suspended decode through read_message.
CONSTANTS
  ByteBits = 1
  UsizeBits = 8
  MaxSegments = 4
  TraversalLimit = 2
  MaxInterrupts = 0
  Inputs <- RestartInputs
SPECIFICATION RestartSpec
INVARIANTS
  FailureJustified
CHECK_DEADLOCK FALSE
