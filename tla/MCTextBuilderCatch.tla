------------------------- MODULE MCTextBuilderCatch -------------------------
(***************************************************************************)
(* Model-checking instance of TextBuilderCatch with the values of          *)
(* MCTextBuilder.                                                          *)
(***************************************************************************)
EXTENDS TextBuilderCatch, MCTextBuilder

=============================================================================
