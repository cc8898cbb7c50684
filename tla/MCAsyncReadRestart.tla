------------------------- MODULE MCAsyncReadRestart -------------------------
(***************************************************************************)
(* Model-checking instance of AsyncReadRestart over the streams of         *)
(* MCAsyncRead.                                                            *)
(***************************************************************************)
EXTENDS AsyncReadRestart, MCAsyncRead

\* Well-formed messages, the peer's bytes arriving in pieces.
RestartInputs ==
  { Message(<<1>>, FALSE, 0, TRUE),
    Message(<<1, 0>>, FALSE, 0, TRUE) }

=============================================================================
