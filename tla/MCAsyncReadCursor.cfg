\* The tests of async.rs over a Cursor, with 4-bit bytes (u32 fields up to
\* 65535), the code's limit of 512 segments and a traversal limit above
\* every table the tests use.
CONSTANTS
  ByteBits = 4
  UsizeBits = 30
  MaxSegments = 512
  TraversalLimit = 1024
  MaxInterrupts = 0
  Inputs <- TestInputs
SPECIFICATION CursorSpec
INVARIANTS
  TestsPass
\* A test ends when read_message or read_segment_table returns.
CHECK_DEADLOCK FALSE
