\* A server loop reading frames back to back from one stream (64-bit target).
CONSTANTS
  ByteBits = 1
  UsizeBits = 8
  MaxSegments = 4
  TraversalLimit = 2
  MaxInterrupts = 1
  Inputs <- StreamInputs
SPECIFICATION StreamSpec
INVARIANTS
  MessagesInOrder
  NoMessageLost
PROPERTIES
  StreamEnds
\* The loop ends on an error or a dropped continuation.
CHECK_DEADLOCK FALSE
