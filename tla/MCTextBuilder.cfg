\* Pushes and clears on a text builder whose panics end it.
CONSTANTS
  Strs <- MCStrs
  AsciiIn <- MCAscii
  InitialBuffers <- MCInitialBuffers
SPECIFICATION Spec
INVARIANTS
  TypeOK
  DerefSafe
  ContentMatches
PROPERTIES
  TextRefinement
\* A builder that panicked, or that new rejected, is gone.
CHECK_DEADLOCK FALSE
