---------------------------- MODULE MCTextBuilder ----------------------------
(***************************************************************************)
(* Model-checking instance of TextBuilder and its refinement of TextValue: *)
(* a 7-byte text buffer, the strings "a", "é" (0xC3 0xA9) and "aé", and    *)
(* push_ascii of 'a' and of 0xC3.                                          *)
(***************************************************************************)
EXTENDS TextBuilderRefinement

MCStrs == { <<97>>, <<195, 169>>, <<97, 195, 169>> }

MCAscii == { 97, 195 }

\* A fresh text (init_text: zeroed, pos 0); a text holding "a" with pos 1;
\* a buffer that is not UTF-8 given with pos 1, which new rejects.
MCInitialBuffers ==
  { [bytes |-> <<0, 0, 0, 0, 0, 0, 0>>, pos |-> 0],
    [bytes |-> <<97, 0, 0, 0, 0, 0, 0>>, pos |-> 1],
    [bytes |-> <<195, 0, 0, 0, 0, 0, 0>>, pos |-> 1] }

=============================================================================
