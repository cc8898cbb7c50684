-------------------------- MODULE MCTextBuilderNew --------------------------
(***************************************************************************)
(* TextBuilder from buffers a caller of the public Builder::new may pass   *)
(* that do not hold zeros after pos: one that is not UTF-8, given with     *)
(* pos 0 (new does not look at it), and "aé" given with pos 1 (valid       *)
(* UTF-8, so new accepts it, but pos is not where the text ends).          *)
(***************************************************************************)
EXTENDS TextBuilder, MCTextBuilder

UncheckedBuffers ==
  { [bytes |-> <<195, 0, 0, 0, 0, 0, 0>>, pos |-> 0],
    [bytes |-> <<97, 195, 169, 0, 0, 0, 0>>, pos |-> 1] }

=============================================================================
