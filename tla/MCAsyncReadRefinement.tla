----------------------- MODULE MCAsyncReadRefinement -----------------------
(***************************************************************************)
(* Model-checking instance of AsyncReadRefinement over the streams of      *)
(* MCAsyncRead, less the lone over-limit segment that the run              *)
(* single_segment_limit already shows the decoder reading.                 *)
(***************************************************************************)
EXTENDS AsyncReadRefinement, MCAsyncRead

RefinementInputs == MCInputs \ BypassInputs

=============================================================================
