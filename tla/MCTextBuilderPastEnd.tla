------------------------ MODULE MCTextBuilderPastEnd ------------------------
(***************************************************************************)
(* TextBuilder from a 7-byte buffer holding "a" given to Builder::new with *)
(* pos 8: the buffer is UTF-8, so new returns Ok whatever pos is.          *)
(***************************************************************************)
EXTENDS TextBuilder, MCTextBuilder

PastEndBuffers == { [bytes |-> <<97, 0, 0, 0, 0, 0, 0>>, pos |-> 8] }

=============================================================================
