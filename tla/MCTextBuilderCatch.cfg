\* Pushes and clears on a text builder whose panics are caught.
CONSTANTS
  Strs <- MCStrs
  AsciiIn <- MCAscii
  InitialBuffers <- MCInitialBuffers
SPECIFICATION CatchSpec
INVARIANTS
  DerefSafe
CHECK_DEADLOCK FALSE
