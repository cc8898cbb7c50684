\* Builder::new over buffers it does not check, then pushes and clears.
CONSTANTS
  Strs <- MCStrs
  AsciiIn <- MCAscii
  InitialBuffers <- UncheckedBuffers
SPECIFICATION Spec
INVARIANTS
  DerefSafe
CHECK_DEADLOCK FALSE
